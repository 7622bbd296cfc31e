-------------------------- MODULE BackgroundProofs --------------------------
(***************************************************************************)
(* What runs in the background, for any number of leases, credentials,     *)
(* backups, channels, events, requests and passes: no live database role is *)
(* untracked, a working credential is never lost, the newest backups stay, *)
(* and every notice is accounted for.                                      *)
(***************************************************************************)
EXTENDS DynamicLeases, Rotation, Backup, Notification, FiniteSetTheorems, WellFoundedInduction,
        SequenceTheorems, TLAPS

-----------------------------------------------------------------------------
(* Leases.                                                                 *)

\* The part of TypeOK that the arguments below rest on.
Typed ==
    /\ now \in Nat /\ ttl \in Nat /\ maxTTL \in Nat /\ ttl <= maxTTL
    /\ lease \in [Leases -> LeaseState]
    /\ dbRole \in [Leases -> Nat]
    /\ call \in [Calls -> CallState]

\* A call that works on a lease works on one that has a row, or had one.
Busy == {"apply", "activate", "load", "drop", "mark", "alter", "renew"}
Touched ==
    \A c \in Calls :
        /\ call[c].pc \in Busy => call[c].cur \in Leases /\ lease[call[c].cur].st # "absent"
        /\ \A l \in call[c].todo : lease[l].st # "absent"

\* Without a row there is no database role.
NoRowNoRole == \A l \in Leases : lease[l].st = "absent" => dbRole[l] = 0

\* LiveRoleIsTracked, of the roles that are about to be created as well.
Tracked ==
    \A l \in Leases : dbRole[l] # 0 \/ l \in Applying =>
        lease[l].st \in Open \/ l \in overtaken \/ l \in cascaded

\* What a call that is about to mark its lease as finished may rely on: the role is gone
\* and nobody is about to create it, unless it overtook the creation.
Dropped ==
    \A c \in Calls : call[c].pc = "mark" =>
        \/ dbRole[call[c].cur] = 0 /\ call[c].cur \notin Applying
        \/ call[c].cur \in overtaken

\* An expiry on its way to the database or the row lies within the ceiling.
Capped ==
    /\ NeverPastCeiling
    /\ \A c \in Calls : call[c].pc \in {"apply", "alter", "renew"} =>
          call[c].exp <= lease[call[c].cur].max

LeaseInv == Typed /\ Touched /\ NoRowNoRole /\ Tracked /\ Dropped /\ Capped

-----------------------------------------------------------------------------
\* The state a finished call returns to is typed.
LEMMA IdleTyped == Idle \in CallState
BY DEF Idle, CallState

\* Rewriting the status, or the expiry, of a row keeps the rows typed.
LEMMA RowTyped ==
    ASSUME Typed, NEW l \in Leases
    PROVE  /\ \A s \in Statuses : [lease EXCEPT ![l].st = s] \in [Leases -> LeaseState]
           /\ \A e \in Nat : [lease EXCEPT ![l].exp = e] \in [Leases -> LeaseState]
<1>1. lease[l] \in LeaseState
  BY DEF Typed
<1>2. \A s \in Statuses : [lease[l] EXCEPT !.st = s] \in LeaseState
  BY <1>1 DEF LeaseState
<1>3. \A e \in Nat : [lease[l] EXCEPT !.exp = e] \in LeaseState
  BY <1>1 DEF LeaseState
<1> QED
  BY <1>2, <1>3 DEF Typed

\* However a revocation ended, its caller goes on in a typed state.
LEMMA AfterRevokeTyped ==
    ASSUME Typed, NEW c \in Calls, NEW ok, AfterRevoke(c, ok)
    PROVE  call' \in [Calls -> CallState]
<1>1. call[c] \in CallState
  BY DEF Typed
<1>2. [call[c] EXCEPT !.pc = "next", !.cur = NoLease] \in CallState
  BY <1>1 DEF CallState
<1> QED
  BY <1>2, IdleTyped DEF AfterRevoke, Typed

\* The three ways on from LoadConfig.
LEMMA LoadEnds ==
    ASSUME NEW c \in Calls, LoadConfig(c)
    PROVE  \/ call' = [call EXCEPT ![c].pc = "drop"]
           \/ call' = [call EXCEPT ![c] = [call[c] EXCEPT !.pc = "next", !.cur = NoLease]]
           \/ call' = [call EXCEPT ![c] = Idle]
<1>1. CASE roleLive /\ projLive /\ ~sealed
  BY <1>1 DEF LoadConfig
<1>2. CASE ~(roleLive /\ projLive /\ ~sealed)
  <2>1. CASE call[c].op = "rundue"
    BY <1>2, <2>1 DEF LoadConfig, AfterRevoke
  <2>2. CASE call[c].op # "rundue"
    BY <1>2, <2>2 DEF LoadConfig, AfterRevoke
  <2> QED
    BY <2>1, <2>2
<1> QED
  BY <1>1, <1>2

\* Every step keeps rows, roles and calls typed.
LEMMA TypedStep == Typed /\ Touched /\ [Next]_vars => Typed'
<1> SUFFICES ASSUME Typed, Touched, [Next]_vars PROVE Typed'
  OBVIOUS
<1> USE LeaseAssumption DEF Typed
<1>1. ASSUME NEW c \in Requests, BeginIssue(c) PROVE Typed'
  BY <1>1 DEF BeginIssue, CreateLease, LeaseState, CallState, Calls, Statuses, Open, Terminal
<1>2. ASSUME NEW c \in Requests, BeginRevoke(c) PROVE Typed'
  BY <1>2 DEF BeginRevoke, CallState, Calls
<1>3. ASSUME NEW c \in Requests, BeginDeleteRole(c) PROVE Typed'
  BY <1>3 DEF BeginDeleteRole, CallState, Calls
<1>4. ASSUME NEW c \in Requests, BeginRenew(c) PROVE Typed'
  BY <1>4 DEF BeginRenew, NewExpiry, CallState, LeaseState, Calls
<1>5. ASSUME NEW c \in Passes, RunDue(c) PROVE Typed'
  BY <1>5 DEF RunDue, ClaimDue, Due, CallState, Calls
<1>6. ASSUME NEW c \in Calls, ApplyOK(c) PROVE Typed'
  BY <1>6, ZenonT(40) DEF ApplyOK, CallState
<1>7. ASSUME NEW c \in Calls, ApplyError(c) PROVE Typed'
  BY <1>7 DEF ApplyError, CallState
<1>8. ASSUME NEW c \in Calls, Activate(c) PROVE Typed'
  <2>1. call[c].cur \in Leases /\ "active" \in Statuses
    BY <1>8 DEF Activate, Touched, Busy, Statuses, Open
  <2> QED
    BY <1>8, <2>1, RowTyped, IdleTyped DEF Activate
<1>9. ASSUME NEW c \in Calls, LoadConfig(c) PROVE Typed'
  <2>1. call' \in [Calls -> CallState]
    <3>1. CASE call' = [call EXCEPT ![c].pc = "drop"]
      BY <3>1 DEF CallState
    <3> QED
      BY <1>9, <3>1, AfterRevokeTyped DEF LoadConfig
  <2> QED
    BY <1>9, <2>1 DEF LoadConfig
<1>10. ASSUME NEW c \in Calls, DropOK(c) PROVE Typed'
  BY <1>10, ZenonT(40) DEF DropOK, CallState
<1>11. ASSUME NEW c \in Calls, DropError(c) PROVE Typed'
  <2>1. call[c].cur \in Leases /\ "revoke_failed" \in Statuses
    BY <1>11 DEF DropError, Touched, Busy, Statuses, Open
  <2>2. lease' \in [Leases -> LeaseState]
    BY <1>11, <2>1, RowTyped DEF DropError, MarkRevokeFailed
  <2>3. call' \in [Calls -> CallState]
    BY <1>11, AfterRevokeTyped DEF DropError
  <2>4. dbRole' \in [Leases -> Nat]
    BY <1>11 DEF DropError
  <2> QED
    BY <1>11, <2>2, <2>3, <2>4 DEF DropError
<1>12. ASSUME NEW c \in Calls, Mark(c) PROVE Typed'
  <2>1. call[c].cur \in Leases /\ TerminalFor(call[c].op) \in Statuses
    BY <1>12 DEF Mark, Touched, Busy, TerminalFor, Statuses, Terminal
  <2>2. lease' \in [Leases -> LeaseState]
    BY <1>12, <2>1, RowTyped DEF Mark, MarkRevoked
  <2>3. call' \in [Calls -> CallState]
    BY <1>12, AfterRevokeTyped DEF Mark
  <2> QED
    BY <1>12, <2>2, <2>3 DEF Mark
<1>13. ASSUME NEW c \in Calls, NextLease(c) PROVE Typed'
  BY <1>13 DEF NextLease, CallState
<1>14. ASSUME NEW c \in Calls, EndOfPass(c) PROVE Typed'
  BY <1>14 DEF EndOfPass, CallState, Idle
<1>15. ASSUME NEW c \in Calls, DeleteRoleRow(c) PROVE Typed'
  BY <1>15, SMTT(30) DEF DeleteRoleRow, CascadeDelete, CallState, LeaseState, Idle, Statuses, Open, Terminal
<1>16. ASSUME NEW c \in Calls, AlterRole(c) PROVE Typed'
  BY <1>16 DEF AlterRole, CallState, Idle
<1>17. ASSUME NEW c \in Calls, CommitRenew(c) PROVE Typed'
  <2>1. call[c].cur \in Leases /\ call[c].exp \in Nat
    BY <1>17 DEF CommitRenew, Touched, Busy, CallState
  <2> QED
    BY <1>17, <2>1, RowTyped, IdleTyped DEF CommitRenew
<1>18. ASSUME NEW c \in Calls, Abandon(c) PROVE Typed'
  BY <1>18 DEF Abandon, CallState, Idle
<1>19. ASSUME NEW t \in TTLs, NEW m \in TTLs, UpdateRole(t, m) PROVE Typed'
  BY <1>19 DEF UpdateRole
<1>20. CASE DestroyConfig
  BY <1>20 DEF DestroyConfig, CascadeDelete, LeaseState, Statuses, Open, Terminal
<1>21. CASE Crash
  BY <1>21 DEF Crash, CallState, Idle
<1>22. CASE Seal \/ Unseal \/ SoftDeleteProject \/ RestoreProject \/ Tick
  BY <1>22 DEF Seal, Unseal, SoftDeleteProject, RestoreProject, Tick
<1>23. CASE UNCHANGED vars
  BY <1>23 DEF vars
<1> QED
  BY <1>1, <1>2, <1>3, <1>4, <1>5, <1>6, <1>7, <1>8, <1>9, <1>10, <1>11, <1>12, <1>13, <1>14,
     <1>15, <1>16, <1>17, <1>18, <1>19, <1>20, <1>21, <1>22, <1>23
     DEF Next, BeginCall, IssueStep, RevokeStep, RenewStep

\* A row, once there, never becomes absent again, so what a call has taken up stays.
LEMMA TouchedStep ==
    Typed /\ Touched /\ [Next]_vars => Touched'
<1> SUFFICES ASSUME Typed, Touched, [Next]_vars PROVE Touched'
  OBVIOUS
<1> USE LeaseAssumption DEF Typed, LeaseState, CallState, Touched, Busy, Open
<1>1. ASSUME NEW c \in Requests, BeginIssue(c) PROVE Touched'
  BY <1>1 DEF BeginIssue, CreateLease, Idle, Calls
<1>2. ASSUME NEW c \in Requests, BeginRevoke(c) PROVE Touched'
  BY <1>2 DEF BeginRevoke, Idle, Calls
<1>3. ASSUME NEW c \in Requests, BeginDeleteRole(c) PROVE Touched'
  BY <1>3 DEF BeginDeleteRole, Idle, Calls
<1>4. ASSUME NEW c \in Requests, BeginRenew(c) PROVE Touched'
  BY <1>4 DEF BeginRenew, NewExpiry, Idle, Calls
<1>5. ASSUME NEW c \in Passes, RunDue(c) PROVE Touched'
  BY <1>5 DEF RunDue, ClaimDue, Due, Idle, Calls
<1>6. ASSUME NEW c \in Calls, ApplyOK(c) PROVE Touched'
  BY <1>6 DEF ApplyOK, Idle, Calls
<1>7. ASSUME NEW c \in Calls, ApplyError(c) PROVE Touched'
  BY <1>7 DEF ApplyError, Idle, Calls
<1>8. ASSUME NEW c \in Calls, Activate(c) PROVE Touched'
  BY <1>8 DEF Activate, Idle, Calls
<1>9. ASSUME NEW c \in Calls, LoadConfig(c) PROVE Touched'
  <2>1. CASE call' = [call EXCEPT ![c].pc = "drop"]
    BY <1>9, <2>1 DEF LoadConfig
  <2>2. CASE call' = [call EXCEPT ![c] = [call[c] EXCEPT !.pc = "next", !.cur = NoLease]]
    BY <1>9, <2>2 DEF LoadConfig
  <2>3. CASE call' = [call EXCEPT ![c] = Idle]
    BY <1>9, <2>3 DEF LoadConfig, Idle
  <2> QED
    BY <1>9, <2>1, <2>2, <2>3, LoadEnds
<1>10. ASSUME NEW c \in Calls, DropOK(c) PROVE Touched'
  BY <1>10 DEF DropOK, Idle, Calls
<1>11. ASSUME NEW c \in Calls, DropError(c) PROVE Touched'
  BY <1>11 DEF DropError, MarkRevokeFailed, AfterRevoke, Idle, Calls
<1>12. ASSUME NEW c \in Calls, Mark(c) PROVE Touched'
  BY <1>12 DEF Mark, MarkRevoked, TerminalFor, AfterRevoke, Idle, Calls
<1>13. ASSUME NEW c \in Calls, NextLease(c) PROVE Touched'
  BY <1>13 DEF NextLease, Idle, Calls
<1>14. ASSUME NEW c \in Calls, EndOfPass(c) PROVE Touched'
  BY <1>14 DEF EndOfPass, Idle, Calls
<1>15. ASSUME NEW c \in Calls, DeleteRoleRow(c) PROVE Touched'
  BY <1>15 DEF DeleteRoleRow, CascadeDelete, Idle, Calls
<1>16. ASSUME NEW c \in Calls, AlterRole(c) PROVE Touched'
  BY <1>16 DEF AlterRole, Idle, Calls
<1>17. ASSUME NEW c \in Calls, CommitRenew(c) PROVE Touched'
  BY <1>17 DEF CommitRenew, Idle, Calls
<1>18. ASSUME NEW c \in Calls, Abandon(c) PROVE Touched'
  BY <1>18 DEF Abandon, Idle, Calls
<1>19. ASSUME NEW t \in TTLs, NEW m \in TTLs, UpdateRole(t, m) PROVE Touched'
  BY <1>19 DEF UpdateRole
<1>20. CASE DestroyConfig
  BY <1>20 DEF DestroyConfig, CascadeDelete
<1>21. CASE Crash
  BY <1>21 DEF Crash, Idle
<1>22. CASE Seal \/ Unseal \/ SoftDeleteProject \/ RestoreProject \/ Tick
  BY <1>22 DEF Seal, Unseal, SoftDeleteProject, RestoreProject, Tick
<1>23. CASE UNCHANGED vars
  BY <1>23 DEF vars
<1> QED
  BY <1>1, <1>2, <1>3, <1>4, <1>5, <1>6, <1>7, <1>8, <1>9, <1>10, <1>11, <1>12,
     <1>13, <1>14, <1>15, <1>16, <1>17, <1>18, <1>19, <1>20, <1>21, <1>22, <1>23
     DEF Next, BeginCall, IssueStep, RevokeStep, RenewStep

\* An expiry enters a row or the database only through CreateLease and NewExpiry, both
\* under the ceiling, which no step moves.

LEMMA CappedStep ==
    Typed /\ Touched /\ NoRowNoRole /\ Capped /\ [Next]_vars => (NoRowNoRole /\ Capped)'
<1> SUFFICES ASSUME Typed, Touched, NoRowNoRole, Capped, [Next]_vars PROVE (NoRowNoRole /\ Capped)'
  OBVIOUS
<1> USE LeaseAssumption DEF Typed, LeaseState, CallState, Touched, Busy, NoRowNoRole, Capped, NeverPastCeiling
<1>1. ASSUME NEW c \in Requests, BeginIssue(c) PROVE (NoRowNoRole /\ Capped)'
  BY <1>1 DEF BeginIssue, CreateLease, Idle, Calls
<1>2. ASSUME NEW c \in Requests, BeginRevoke(c) PROVE (NoRowNoRole /\ Capped)'
  BY <1>2 DEF BeginRevoke, Idle, Calls
<1>3. ASSUME NEW c \in Requests, BeginDeleteRole(c) PROVE (NoRowNoRole /\ Capped)'
  BY <1>3 DEF BeginDeleteRole, Idle, Calls
<1>4. ASSUME NEW c \in Requests, BeginRenew(c) PROVE (NoRowNoRole /\ Capped)'
  BY <1>4 DEF BeginRenew, NewExpiry, Idle, Calls
<1>5. ASSUME NEW c \in Passes, RunDue(c) PROVE (NoRowNoRole /\ Capped)'
  BY <1>5 DEF RunDue, ClaimDue, Due, Idle, Calls
<1>6. ASSUME NEW c \in Calls, ApplyOK(c) PROVE (NoRowNoRole /\ Capped)'
  BY <1>6 DEF ApplyOK, Idle, Calls
<1>7. ASSUME NEW c \in Calls, ApplyError(c) PROVE (NoRowNoRole /\ Capped)'
  BY <1>7 DEF ApplyError, Idle, Calls
<1>8. ASSUME NEW c \in Calls, Activate(c) PROVE (NoRowNoRole /\ Capped)'
  BY <1>8 DEF Activate, Idle, Calls
<1>9. ASSUME NEW c \in Calls, LoadConfig(c) PROVE (NoRowNoRole /\ Capped)'
  <2>1. CASE call' = [call EXCEPT ![c].pc = "drop"]
    BY <1>9, <2>1 DEF LoadConfig
  <2>2. CASE call' = [call EXCEPT ![c] = [call[c] EXCEPT !.pc = "next", !.cur = NoLease]]
    BY <1>9, <2>2 DEF LoadConfig
  <2>3. CASE call' = [call EXCEPT ![c] = Idle]
    BY <1>9, <2>3 DEF LoadConfig, Idle
  <2> QED
    BY <1>9, <2>1, <2>2, <2>3, LoadEnds
<1>10. ASSUME NEW c \in Calls, DropOK(c) PROVE (NoRowNoRole /\ Capped)'
  BY <1>10 DEF DropOK, Idle, Calls
<1>11. ASSUME NEW c \in Calls, DropError(c) PROVE (NoRowNoRole /\ Capped)'
  BY <1>11 DEF DropError, MarkRevokeFailed, AfterRevoke, Idle, Calls
<1>12. ASSUME NEW c \in Calls, Mark(c) PROVE (NoRowNoRole /\ Capped)'
  BY <1>12 DEF Mark, MarkRevoked, TerminalFor, AfterRevoke, Idle, Calls
<1>13. ASSUME NEW c \in Calls, NextLease(c) PROVE (NoRowNoRole /\ Capped)'
  BY <1>13 DEF NextLease, Idle, Calls
<1>14. ASSUME NEW c \in Calls, EndOfPass(c) PROVE (NoRowNoRole /\ Capped)'
  BY <1>14 DEF EndOfPass, Idle, Calls
<1>15. ASSUME NEW c \in Calls, DeleteRoleRow(c) PROVE (NoRowNoRole /\ Capped)'
  <2>1. CASE roleLive
    <3>1. \A l \in Leases : /\ lease'[l].exp = lease[l].exp /\ lease'[l].max = lease[l].max
                            /\ lease'[l].st = "absent" <=> lease[l].st = "absent"
      BY <1>15, <2>1 DEF DeleteRoleRow, CascadeDelete
    <3>2. dbRole' = dbRole /\ call' = [call EXCEPT ![c] = Idle]
      BY <1>15, <2>1 DEF DeleteRoleRow
    <3>3. NoRowNoRole' /\ NeverPastCeiling'
      BY <3>1, <3>2
    <3>4. \A d \in Calls : call'[d].pc \in {"apply", "alter", "renew"} =>
             call'[d].exp <= lease'[call'[d].cur].max
      BY <3>1, <3>2 DEF Idle
    <3> QED
      BY <3>3, <3>4
  <2>2. CASE ~roleLive
    BY <1>15, <2>2 DEF DeleteRoleRow, Idle
  <2> QED
    BY <2>1, <2>2
<1>16. ASSUME NEW c \in Calls, AlterRole(c) PROVE (NoRowNoRole /\ Capped)'
  <2>1. CASE dbRole[call[c].cur] # 0
    <3>1. /\ call[c].cur \in Leases /\ lease[call[c].cur].st # "absent"
          /\ call[c].exp <= lease[call[c].cur].max
      BY <1>16 DEF AlterRole
    <3>2. /\ lease' = lease /\ dbRole' = [dbRole EXCEPT ![call[c].cur] = call[c].exp]
          /\ call' = [call EXCEPT ![c].pc = "renew"]
      BY <1>16, <2>1 DEF AlterRole
    <3>3. NoRowNoRole' /\ NeverPastCeiling'
      BY <3>1, <3>2
    <3>4. \A d \in Calls : call'[d].exp = call[d].exp /\ call'[d].cur = call[d].cur
                            /\ (call'[d].pc = call[d].pc \/ d = c)
      BY <3>2
    <3>5. \A d \in Calls : call'[d].pc \in {"apply", "alter", "renew"} =>
             call'[d].exp <= lease'[call'[d].cur].max
      BY <3>1, <3>2, <3>4
    <3> QED
      BY <3>3, <3>5
  <2>2. CASE dbRole[call[c].cur] = 0
    BY <1>16, <2>2 DEF AlterRole, Idle
  <2> QED
    BY <2>1, <2>2
<1>17. ASSUME NEW c \in Calls, CommitRenew(c) PROVE (NoRowNoRole /\ Capped)'
  BY <1>17 DEF CommitRenew, Idle, Calls
<1>18. ASSUME NEW c \in Calls, Abandon(c) PROVE (NoRowNoRole /\ Capped)'
  BY <1>18 DEF Abandon, Idle, Calls
<1>19. ASSUME NEW t \in TTLs, NEW m \in TTLs, UpdateRole(t, m) PROVE (NoRowNoRole /\ Capped)'
  BY <1>19 DEF UpdateRole
<1>20. CASE DestroyConfig
  BY <1>20 DEF DestroyConfig, CascadeDelete
<1>21. CASE Crash
  BY <1>21 DEF Crash, Idle
<1>22. CASE Seal \/ Unseal \/ SoftDeleteProject \/ RestoreProject \/ Tick
  BY <1>22 DEF Seal, Unseal, SoftDeleteProject, RestoreProject, Tick
<1>23. CASE UNCHANGED vars
  BY <1>23 DEF vars
<1> QED
  BY <1>1, <1>2, <1>3, <1>4, <1>5, <1>6, <1>7, <1>8, <1>9, <1>10, <1>11, <1>12,
     <1>13, <1>14, <1>15, <1>16, <1>17, <1>18, <1>19, <1>20, <1>21, <1>22, <1>23
     DEF Next, BeginCall, IssueStep, RevokeStep, RenewStep

\* A role comes to life only under an open row or a recorded overtaking, and a row is
\* finished only when the role is gone and nobody is about to create it.

LEMMA TrackedStep ==
    Typed /\ Touched /\ NoRowNoRole /\ Tracked /\ Dropped /\ [Next]_vars => (Tracked /\ Dropped)'
<1> SUFFICES ASSUME Typed, Touched, NoRowNoRole, Tracked, Dropped, [Next]_vars PROVE (Tracked /\ Dropped)'
  OBVIOUS
<1> USE LeaseAssumption DEF Typed, LeaseState, CallState, Touched, Busy, NoRowNoRole, Tracked, Dropped, Applying, Open
<1>1. ASSUME NEW c \in Requests, BeginIssue(c) PROVE (Tracked /\ Dropped)'
  BY <1>1 DEF BeginIssue, CreateLease, Idle, Calls
<1>2. ASSUME NEW c \in Requests, BeginRevoke(c) PROVE (Tracked /\ Dropped)'
  BY <1>2 DEF BeginRevoke, Idle, Calls
<1>3. ASSUME NEW c \in Requests, BeginDeleteRole(c) PROVE (Tracked /\ Dropped)'
  BY <1>3 DEF BeginDeleteRole, Idle, Calls
<1>4. ASSUME NEW c \in Requests, BeginRenew(c) PROVE (Tracked /\ Dropped)'
  BY <1>4 DEF BeginRenew, NewExpiry, Idle, Calls
<1>5. ASSUME NEW c \in Passes, RunDue(c) PROVE (Tracked /\ Dropped)'
  BY <1>5 DEF RunDue, ClaimDue, Due, Idle, Calls
<1>6. ASSUME NEW c \in Calls, ApplyOK(c) PROVE (Tracked /\ Dropped)'
  BY <1>6 DEF ApplyOK, Idle, Calls
<1>7. ASSUME NEW c \in Calls, ApplyError(c) PROVE (Tracked /\ Dropped)'
  BY <1>7 DEF ApplyError, Idle, Calls
<1>8. ASSUME NEW c \in Calls, Activate(c) PROVE (Tracked /\ Dropped)'
  BY <1>8 DEF Activate, Idle, Calls
<1>9. ASSUME NEW c \in Calls, LoadConfig(c) PROVE (Tracked /\ Dropped)'
  <2>1. CASE call' = [call EXCEPT ![c].pc = "drop"]
    BY <1>9, <2>1 DEF LoadConfig
  <2>2. CASE call' = [call EXCEPT ![c] = [call[c] EXCEPT !.pc = "next", !.cur = NoLease]]
    BY <1>9, <2>2 DEF LoadConfig
  <2>3. CASE call' = [call EXCEPT ![c] = Idle]
    BY <1>9, <2>3 DEF LoadConfig, Idle
  <2> QED
    BY <1>9, <2>1, <2>2, <2>3, LoadEnds
<1>10. ASSUME NEW c \in Calls, DropOK(c) PROVE (Tracked /\ Dropped)'
  BY <1>10 DEF DropOK, Idle, Calls
<1>11. ASSUME NEW c \in Calls, DropError(c) PROVE (Tracked /\ Dropped)'
  BY <1>11 DEF DropError, MarkRevokeFailed, AfterRevoke, Idle, Calls
<1>12. ASSUME NEW c \in Calls, Mark(c) PROVE (Tracked /\ Dropped)'
  BY <1>12 DEF Mark, MarkRevoked, TerminalFor, AfterRevoke, Idle, Calls
<1>13. ASSUME NEW c \in Calls, NextLease(c) PROVE (Tracked /\ Dropped)'
  <2>1. /\ call[c].pc = "next" /\ call'[c].pc = "load"
        /\ \A d \in Calls : d # c => call'[d] = call[d]
        /\ lease' = lease /\ dbRole' = dbRole /\ overtaken' = overtaken /\ cascaded' = cascaded
    BY <1>13 DEF NextLease
  <2>2. \A d \in Calls : call'[d].pc \in {"apply", "mark"} \/ call[d].pc \in {"apply", "mark"} => call'[d] = call[d]
    BY <2>1
  <2> HIDE DEF Typed, Touched, NoRowNoRole
  <2>3. Applying' = Applying
    BY <2>2
  <2>4. Tracked'
    BY <2>1, <2>3
  <2>5. Dropped'
    BY <2>1, <2>2, <2>3
  <2> QED
    BY <2>4, <2>5
<1>14. ASSUME NEW c \in Calls, EndOfPass(c) PROVE (Tracked /\ Dropped)'
  BY <1>14 DEF EndOfPass, Idle, Calls
<1>15. ASSUME NEW c \in Calls, DeleteRoleRow(c) PROVE (Tracked /\ Dropped)'
  BY <1>15 DEF DeleteRoleRow, CascadeDelete, Idle, Calls
<1>16. ASSUME NEW c \in Calls, AlterRole(c) PROVE (Tracked /\ Dropped)'
  <2>1. CASE dbRole[call[c].cur] # 0
    <3>1. /\ lease' = lease /\ overtaken' = overtaken /\ cascaded' = cascaded
          /\ dbRole' = [dbRole EXCEPT ![call[c].cur] = call[c].exp]
          /\ call' = [call EXCEPT ![c].pc = "renew"] /\ call[c].pc = "alter"
      BY <1>16, <2>1 DEF AlterRole
    <3>2. call[c].cur \in Leases
      BY <3>1
    <3>3. \A d \in Calls : call'[d].cur = call[d].cur /\ (call'[d].pc = call[d].pc \/ d = c)
      BY <3>1
    <3>4. \A d \in Calls : (call'[d].pc = "apply" <=> call[d].pc = "apply")
                            /\ (call'[d].pc = "mark" <=> call[d].pc = "mark")
      BY <3>1, <3>3
    <3>5. Applying' = Applying
      BY <3>3, <3>4
    <3>6. \A l \in Leases : dbRole'[l] # 0 => dbRole[l] # 0
      BY <2>1, <3>1, <3>2
    <3>7. Tracked'
      BY <3>1, <3>5, <3>6
    <3>8. Dropped'
      BY <3>1, <3>3, <3>4, <3>5, <3>6
    <3> QED
      BY <3>7, <3>8
  <2>2. CASE dbRole[call[c].cur] = 0
    BY <1>16, <2>2, SMTT(30) DEF AlterRole, Idle
  <2> QED
    BY <2>1, <2>2
<1>17. ASSUME NEW c \in Calls, CommitRenew(c) PROVE (Tracked /\ Dropped)'
  BY <1>17 DEF CommitRenew, Idle, Calls
<1>18. ASSUME NEW c \in Calls, Abandon(c) PROVE (Tracked /\ Dropped)'
  BY <1>18 DEF Abandon, Idle, Calls
<1>19. ASSUME NEW t \in TTLs, NEW m \in TTLs, UpdateRole(t, m) PROVE (Tracked /\ Dropped)'
  BY <1>19 DEF UpdateRole
<1>20. CASE DestroyConfig
  BY <1>20 DEF DestroyConfig, CascadeDelete
<1>21. CASE Crash
  BY <1>21 DEF Crash, Idle
<1>22. CASE Seal \/ Unseal \/ SoftDeleteProject \/ RestoreProject \/ Tick
  BY <1>22 DEF Seal, Unseal, SoftDeleteProject, RestoreProject, Tick
<1>23. CASE UNCHANGED vars
  BY <1>23 DEF vars
<1> QED
  BY <1>1, <1>2, <1>3, <1>4, <1>5, <1>6, <1>7, <1>8, <1>9, <1>10, <1>11, <1>12,
     <1>13, <1>14, <1>15, <1>16, <1>17, <1>18, <1>19, <1>20, <1>21, <1>22, <1>23
     DEF Next, BeginCall, IssueStep, RevokeStep, RenewStep

-----------------------------------------------------------------------------
\* What FinishedStaysFinished asks of one step.
Unrevived ==
    \A l \in Leases : lease[l].st \in Terminal =>
        lease'[l].st \notin {"creating", "active"} /\ lease'[l].exp = lease[l].exp

\* Only Activate and Renew make a row active or move its expiry, and both ask for the
\* status they start from.
LEMMA UnrevivedStep ==
    Typed /\ Touched /\ [Next]_vars => Unrevived
<1> SUFFICES ASSUME Typed, Touched, [Next]_vars PROVE Unrevived
  OBVIOUS
<1> USE DEF Typed, LeaseState, Touched, Busy, Unrevived, Terminal
<1>1. ASSUME NEW c \in Requests, BeginIssue(c) PROVE Unrevived
  BY <1>1 DEF BeginIssue, CreateLease
<1>2. ASSUME NEW c \in Requests, BeginRevoke(c) PROVE Unrevived
  BY <1>2 DEF BeginRevoke
<1>3. ASSUME NEW c \in Requests, BeginDeleteRole(c) PROVE Unrevived
  BY <1>3 DEF BeginDeleteRole
<1>4. ASSUME NEW c \in Requests, BeginRenew(c) PROVE Unrevived
  BY <1>4 DEF BeginRenew
<1>5. ASSUME NEW c \in Passes, RunDue(c) PROVE Unrevived
  BY <1>5 DEF RunDue
<1>6. ASSUME NEW c \in Calls, ApplyOK(c) PROVE Unrevived
  BY <1>6 DEF ApplyOK
<1>7. ASSUME NEW c \in Calls, ApplyError(c) PROVE Unrevived
  BY <1>7 DEF ApplyError
<1>8. ASSUME NEW c \in Calls, Activate(c) PROVE Unrevived
  BY <1>8 DEF Activate
<1>9. ASSUME NEW c \in Calls, LoadConfig(c) PROVE Unrevived
  BY <1>9 DEF LoadConfig
<1>10. ASSUME NEW c \in Calls, DropOK(c) PROVE Unrevived
  BY <1>10 DEF DropOK
<1>11. ASSUME NEW c \in Calls, DropError(c) PROVE Unrevived
  BY <1>11 DEF DropError, MarkRevokeFailed
<1>12. ASSUME NEW c \in Calls, Mark(c) PROVE Unrevived
  BY <1>12 DEF Mark, MarkRevoked, TerminalFor
<1>13. ASSUME NEW c \in Calls, NextLease(c) PROVE Unrevived
  BY <1>13 DEF NextLease
<1>14. ASSUME NEW c \in Calls, EndOfPass(c) PROVE Unrevived
  BY <1>14 DEF EndOfPass
<1>15. ASSUME NEW c \in Calls, DeleteRoleRow(c) PROVE Unrevived
  BY <1>15 DEF DeleteRoleRow, CascadeDelete
<1>16. ASSUME NEW c \in Calls, AlterRole(c) PROVE Unrevived
  BY <1>16 DEF AlterRole
<1>17. ASSUME NEW c \in Calls, CommitRenew(c) PROVE Unrevived
  BY <1>17 DEF CommitRenew
<1>18. ASSUME NEW c \in Calls, Abandon(c) PROVE Unrevived
  BY <1>18 DEF Abandon
<1>19. ASSUME NEW t \in TTLs, NEW m \in TTLs, UpdateRole(t, m) PROVE Unrevived
  BY <1>19 DEF UpdateRole
<1>20. CASE DestroyConfig
  BY <1>20 DEF DestroyConfig, CascadeDelete
<1>21. CASE Crash \/ Seal \/ Unseal \/ SoftDeleteProject \/ RestoreProject \/ Tick
  BY <1>21 DEF Crash, Seal, Unseal, SoftDeleteProject, RestoreProject, Tick
<1>22. CASE UNCHANGED vars
  BY <1>22 DEF vars
<1> HIDE DEF Unrevived
<1> QED
  BY <1>1, <1>2, <1>3, <1>4, <1>5, <1>6, <1>7, <1>8, <1>9, <1>10, <1>11, <1>12, <1>13,
     <1>14, <1>15, <1>16, <1>17, <1>18, <1>19, <1>20, <1>21, <1>22
     DEF Next, BeginCall, IssueStep, RevokeStep, RenewStep

\* LeaseInv holds of a role that has just been created.
LEMMA InitLease == Init => LeaseInv
<1> SUFFICES ASSUME Init PROVE LeaseInv
  OBVIOUS
<1> USE LeaseAssumption DEF Init, Idle
<1>1. Typed
  BY DEF Typed, LeaseState, CallState, Statuses
<1>2. Touched /\ NoRowNoRole /\ Dropped
  BY DEF Touched, NoRowNoRole, Dropped, Busy
<1>3. Tracked
  BY DEF Tracked, Applying
<1>4. Capped
  BY DEF Capped, NeverPastCeiling
<1> QED
  BY <1>1, <1>2, <1>3, <1>4 DEF LeaseInv

\* LeaseInv is inductive.
LEMMA LeaseInductive == LeaseInv /\ [Next]_vars => LeaseInv'
BY TypedStep, TouchedStep, CappedStep, TrackedStep DEF LeaseInv

\* LeaseInv is an invariant.
LEMMA LeaseInvariant == Spec => []LeaseInv
BY InitLease, LeaseInductive, PTL DEF Spec

\* For any number of leases, requests and passes, and any TTLs and faults, a database role
\* that is alive is one the lease manager still finds, except after the two recorded races
\* (dynamic/issue.go, dynamic/lease.go: revoke).
THEOREM RolesAreTracked == Spec => []LiveRoleIsTracked
<1>1. LeaseInv => LiveRoleIsTracked
  BY DEF LeaseInv, Tracked, LiveRoleIsTracked
<1> QED
  BY <1>1, LeaseInvariant, PTL

\* No interleaving of renewals, role updates and the clock takes a row, or the VALID UNTIL
\* of a database role, past the ceiling fixed at issue (dynamic/lease.go: RenewLease).
THEOREM CeilingHolds == Spec => []NeverPastCeiling
<1>1. LeaseInv => NeverPastCeiling
  BY DEF LeaseInv, Capped
<1> QED
  BY <1>1, LeaseInvariant, PTL

\* A finished lease is never revived by a late Activate or Renew (store/dynamic.go).
THEOREM FinishedForGood == Spec => FinishedStaysFinished
<1>1. LeaseInv /\ [Next]_vars =>
        [\A l \in Leases : lease[l].st \in Terminal =>
            /\ lease'[l].st \notin {"creating", "active"}
            /\ lease'[l].exp = lease[l].exp]_vars
  BY UnrevivedStep DEF LeaseInv, Unrevived
<1> QED
  BY <1>1, LeaseInvariant, PTL DEF Spec, FinishedStaysFinished

-----------------------------------------------------------------------------
(* Rotation: the inductive invariant.                                      *)

Held == Credentials \cup {NoValue}
Configs == {"none", "complete", "incomplete"}
Phases == {"idle", "open", "stage", "apply", "mint", "create", "prune", "commit", "mark", "fail"}

PolicyShape(p) ==
    p \in [id : Nat, st : {"none", "active", "paused", "failed"}, type : RotatorTypes \cup {"none"},
           fails : Nat, pending : Held, pendingKEK : 0 .. MaxKEK, configKEK : 0 .. MaxKEK, config : Configs]
PolicyFits(p) ==
    /\ PolicyShape(p)
    /\ p.st = "none" => p.id = 0 /\ p.type = "none" /\ p.pending = NoValue
    /\ p.st # "none" => p.id # 0

\* An attempt by itself: where it has a credential, and which of the two ways it goes.
AttemptShape(k) ==
    k \in [id : Nat, pc : Phases, pending : Held, configKEK : 0 .. MaxKEK, pendingKEK : 0 .. MaxKEK,
           config : Configs, type : RotatorTypes \cup {"none"}, kek : 0 .. MaxKEK, val : Held,
           old : SUBSET Credentials]
AttemptFits(k) ==
    /\ AttemptShape(k)
    /\ k.pc = "idle" => k.type = "none"
    /\ k.pc # "idle" => k.id # 0
    /\ k.pc \in {"apply", "prune", "commit"} => k.val \in Credentials
    /\ k.pc \in {"open", "stage", "mint", "create"} => k.val = NoValue
    /\ k.pc \in {"stage", "apply"} => k.type \notin Generating
    /\ k.pc \in {"mint", "create", "prune"} => k.type \in Generating

\* An attempt that has had the policy and the target to itself since it began.
Steady(k, p, s, acc, lost) ==
    k.pc \notin {"idle", "fail"} =>
        /\ p.st # "none" /\ k.id = p.id /\ k.type = p.type
        /\ k.pc \in {"open", "stage"} => k.pending = p.pending
        /\ k.pc = "apply" => k.val = p.pending
        /\ k.pc = "create" => k.old \subseteq acc
        /\ k.pc \in {"prune", "commit"} => k.val \in acc
        /\ k.pc = "prune" => k.val \notin k.old /\ acc \subseteq lost \cup {s, k.val}
        /\ k.pc = "mark" => s \in acc

\* The way back from a target that refuses the stored secret: the applied value is pending, or
\* every credential the external system accepts is on its way or was lost on it.
Recoverable(p, s, acc, way, lost) ==
    s \notin acc => IF p.type \in Generating THEN acc \subseteq lost \cup way ELSE p.pending \in acc

Minted(k) == IF k.type \in Generating THEN {k.val} ELSE {}
OnTheWay == UNION {Minted(attempt[a]) : a \in Attempts}

Shapes ==
    /\ PolicyFits(policy)
    /\ attempt = [a \in Attempts |-> attempt[a]] /\ \A a \in Attempts : AttemptFits(attempt[a])
    /\ secret \in Credentials /\ accepted \subseteq Credentials /\ IsFiniteSet(accepted) /\ projectKEK \in 1 .. MaxKEK
    /\ {configLive, keyringSealed} \subseteq BOOLEAN /\ policyID \in Nat \ {0}
OneRuns == \A a, b \in Attempts : Running(a) /\ Running(b) => a = b
AllSteady == \A a \in Attempts : Steady(attempt[a], policy, secret, accepted, orphaned)
WayBack == Recoverable(policy, secret, accepted, OnTheWay, orphaned)

RotationInv == Shapes /\ (~excused => OneRuns /\ AllSteady /\ WayBack)

-----------------------------------------------------------------------------
(* Rotation: one attempt moves.                                            *)

\* What is known of an attempt that runs.
Knows(k) ==
    /\ AttemptFits(k)
    /\ ~excused => /\ Steady(k, policy, secret, accepted, orphaned)
                   /\ Recoverable(policy, secret, accepted, Minted(k), orphaned)

LEMMA RunnerKnows ==
    ASSUME RotationInv, NEW a \in Attempts, Running(a)
    PROVE  /\ Knows(attempt[a])
           /\ ~excused => \A b \in Attempts \ {a} : attempt[b].pc = "idle"
<1>1. ASSUME ~excused PROVE \A b \in Attempts \ {a} : attempt[b].pc = "idle"
  BY <1>1 DEF RotationInv, OneRuns, Running
<1>2. ASSUME ~excused PROVE Recoverable(policy, secret, accepted, Minted(attempt[a]), orphaned)
  <2>1. \A b \in Attempts \ {a} : Minted(attempt[b]) = {}
    BY <1>1, <1>2 DEF RotationInv, Shapes, AttemptFits, Minted, Generating
  <2>2. OnTheWay = Minted(attempt[a])
    BY <2>1 DEF OnTheWay
  <2> QED
    BY <1>2, <2>2 DEF RotationInv, WayBack
<1> QED
  BY <1>1, <1>2 DEF RotationInv, Shapes, AllSteady, Knows

LEMMA AttemptMoves ==
    ASSUME RotationInv, NEW a \in Attempts, Running(a), NEW q, attempt' = [attempt EXCEPT ![a] = q],
           AttemptFits(q), PolicyFits(policy'), secret' \in Credentials, accepted' \subseteq Credentials,
           IsFiniteSet(accepted'),
           ~excused => /\ Steady(q, policy', secret', accepted', orphaned')
                       /\ Recoverable(policy', secret', accepted', Minted(q), orphaned'),
           UNCHANGED <<projectKEK, configLive, keyringSealed, policyID, excused>>
    PROVE  RotationInv'
<1>1. /\ attempt' = [b \in Attempts |-> attempt'[b]]
      /\ \A b \in Attempts : attempt'[b] = IF b = a THEN q ELSE attempt[b]
  BY DEF RotationInv, Shapes
<1>2. Shapes'
  BY <1>1 DEF RotationInv, Shapes
<1>3. ASSUME ~excused PROVE (OneRuns /\ AllSteady /\ WayBack)'
  <2>1. \A b \in Attempts \ {a} : attempt[b].pc = "idle"
    BY <1>3, RunnerKnows
  <2>2. OneRuns'
    BY <1>1, <2>1 DEF OneRuns, Running
  <2>3. AllSteady'
    BY <1>1, <1>3, <2>1 DEF AllSteady, Steady
  <2>4. Minted(q) \subseteq OnTheWay'
    BY <1>1 DEF OnTheWay
  <2>5. WayBack'
    BY <1>3, <2>4 DEF WayBack, Recoverable
  <2> QED
    BY <2>2, <2>3, <2>5
<1> QED
  BY <1>2, <1>3 DEF RotationInv

\* It gives up: nothing else changes.
LEMMA GivesUp ==
    ASSUME RotationInv, NEW a \in Attempts, Running(a), Goto(a, "fail"),
           UNCHANGED <<policy, secret, accepted, projectKEK, configLive, keyringSealed, excused, orphaned,
                       policyID>>
    PROVE  RotationInv'
<1> DEFINE k == attempt[a]
           q == [k EXCEPT !.pc = "fail"]
<1>1. Knows(k) /\ Shapes /\ k.pc # "idle"
  BY RunnerKnows DEF RotationInv, Running
<1>2. attempt' = [attempt EXCEPT ![a] = q]
  BY <1>1 DEF Goto, Shapes
<1> HIDE DEF k
<1>3. q.pc = "fail" /\ q.id = k.id /\ q.type = k.type /\ q.val = k.val /\ AttemptShape(q)
  BY <1>1 DEF Knows, AttemptFits, AttemptShape, Phases
<1>4. AttemptFits(q)
  BY <1>1, <1>3 DEF Knows, AttemptFits
<1>5. ~excused => /\ Steady(q, policy, secret, accepted, orphaned)
                  /\ Recoverable(policy, secret, accepted, Minted(q), orphaned)
  BY <1>1, <1>3 DEF Knows, Steady, Minted
<1> HIDE DEF q
<1> QED
  BY <1>1, <1>2, <1>4, <1>5, AttemptMoves DEF Shapes

-----------------------------------------------------------------------------
(* Rotation: the steps of an attempt.                                      *)

LEMMA OpenConfigKeeps ==
    ASSUME RotationInv, NEW a \in Attempts, OpenConfig(a)
    PROVE  RotationInv'
<1> DEFINE k == attempt[a]
<1>1. /\ k.pc = "open" /\ Running(a)
      /\ UNCHANGED <<policy, secret, accepted, projectKEK, configLive, keyringSealed, excused, orphaned,
                     policyID>>
  BY DEF OpenConfig, Running
<1>2. Knows(k) /\ Shapes
  BY <1>1, RunnerKnows DEF RotationInv
<1>3. CASE Goto(a, "fail")
  BY <1>1, <1>3, GivesUp
<1>4. CASE End(a)
  <2>1. attempt' = [attempt EXCEPT ![a] = IdleAttempt]
    BY <1>4 DEF End
  <2>2. AttemptFits(IdleAttempt)
    <3>1. 0 \in 0 .. MaxKEK
      BY RotationAssumption
    <3>2. AttemptShape(IdleAttempt)
      BY <3>1 DEF AttemptShape, IdleAttempt, Phases, Held, Configs
    <3>3. IdleAttempt.pc = "idle" /\ IdleAttempt.type = "none"
      BY DEF IdleAttempt
    <3> QED
      BY <3>2, <3>3 DEF AttemptFits
  <2>3. ~excused => /\ Steady(IdleAttempt, policy, secret, accepted, orphaned)
                    /\ Recoverable(policy, secret, accepted, Minted(IdleAttempt), orphaned)
    <3> SUFFICES ASSUME ~excused, secret \notin accepted, policy.type \in Generating
                 PROVE  accepted \subseteq orphaned
      BY <1>2 DEF Knows, Steady, IdleAttempt, Recoverable
    <3>1. accepted \subseteq orphaned \cup Minted(k) /\ Minted(k) \subseteq {NoValue}
      BY <1>1, <1>2 DEF Knows, Recoverable, AttemptFits, Minted
    <3> QED
      BY <1>2, <3>1, RotationAssumption DEF Shapes
  <2> QED
    BY <1>1, <1>2, <2>1, <2>2, <2>3, AttemptMoves DEF Shapes
<1>5. CASE ~Goto(a, "fail") /\ ~End(a)
  <2> DEFINE q == [k EXCEPT !.kek = projectKEK, !.configKEK = 0,
                            !.pc = IF k.type \in Generating THEN "mint" ELSE "stage"]
  <2>1. attempt' = [attempt EXCEPT ![a] = q]
    BY <1>2, <1>5 DEF OpenConfig, Shapes
  <2> HIDE DEF k
  <2>2. /\ q.pc = (IF k.type \in Generating THEN "mint" ELSE "stage") /\ q.val = k.val /\ q.type = k.type
        /\ q.id = k.id /\ q.pending = k.pending
        /\ AttemptShape(q)
    <3>1. AttemptShape(k) /\ projectKEK \in 0 .. MaxKEK /\ 0 \in 0 .. MaxKEK
      BY <1>2, RotationAssumption DEF Knows, AttemptFits, Shapes
    <3>2. (IF k.type \in Generating THEN "mint" ELSE "stage") \in Phases
      BY DEF Phases
    <3> QED
      BY <3>1, <3>2 DEF AttemptShape
  <2> HIDE DEF q
  <2>3. AttemptFits(q)
    BY <1>1, <1>2, <2>2 DEF Knows, AttemptFits
  <2>4. ~excused => /\ Steady(q, policy, secret, accepted, orphaned)
                    /\ Recoverable(policy, secret, accepted, Minted(q), orphaned)
    BY <1>1, <1>2, <2>2 DEF Knows, Steady, Minted
  <2> QED
    BY <1>1, <1>2, <2>1, <2>3, <2>4, AttemptMoves DEF Shapes
<1> QED
  BY <1>3, <1>4, <1>5

LEMMA ReusePendingKeeps ==
    ASSUME RotationInv, NEW a \in Attempts, ReusePending(a)
    PROVE  RotationInv'
<1> DEFINE k == attempt[a]
           q == [k EXCEPT !.val = k.pending, !.pending = NoValue, !.pendingKEK = 0, !.kek = 0,
                          !.pc = IF k.pendingKEK = k.kek THEN "apply" ELSE "fail"]
<1>1. /\ k.pc = "stage" /\ Running(a) /\ k.pending # NoValue
      /\ UNCHANGED <<policy, secret, accepted, projectKEK, configLive, keyringSealed, excused, orphaned,
                     policyID>>
  BY DEF ReusePending, Running
<1>2. Knows(k) /\ Shapes
  BY <1>1, RunnerKnows DEF RotationInv
<1>3. attempt' = [attempt EXCEPT ![a] = q]
  BY <1>2 DEF ReusePending, Shapes
<1> HIDE DEF k
<1>4. /\ q.pc \in {"apply", "fail"} /\ q.val = k.pending /\ q.type = k.type /\ q.id = k.id
      /\ AttemptShape(q)
  <2>1. AttemptShape(k) /\ 0 \in 0 .. MaxKEK
    BY <1>2, RotationAssumption DEF Knows, AttemptFits
  <2>2. (IF k.pendingKEK = k.kek THEN "apply" ELSE "fail") \in Phases /\ NoValue \in Held
    BY DEF Phases, Held
  <2> QED
    BY <2>1, <2>2 DEF AttemptShape
<1> HIDE DEF q
<1>5. AttemptFits(q)
  <2>1. k.pending \in Credentials
    BY <1>1, <1>2 DEF Knows, AttemptFits, AttemptShape, Held
  <2> QED
    BY <1>1, <1>2, <1>4, <2>1 DEF Knows, AttemptFits
<1>6. ~excused => /\ Steady(q, policy, secret, accepted, orphaned)
                  /\ Recoverable(policy, secret, accepted, Minted(q), orphaned)
  BY <1>1, <1>2, <1>4 DEF Knows, Steady, Minted, AttemptFits
<1> QED
  BY <1>1, <1>2, <1>3, <1>5, <1>6, AttemptMoves DEF Shapes

\* A fresh value is a credential nobody has.
LEMMA FreshIsFresh ==
    ASSUME NEW v \in FreshValues
    PROVE  v \in Credentials /\ v # secret /\ v \notin accepted
BY DEF FreshValues

LEMMA StageKeeps ==
    ASSUME RotationInv, NEW a \in Attempts, Stage(a)
    PROVE  RotationInv'
<1> DEFINE k == attempt[a]
<1>1. /\ k.pc = "stage" /\ Running(a) /\ k.pending = NoValue
      /\ UNCHANGED <<secret, accepted, projectKEK, configLive, keyringSealed, excused, orphaned, policyID>>
  BY DEF Stage, Running
<1>2. Knows(k) /\ Shapes
  BY <1>1, RunnerKnows DEF RotationInv
<1>3. PICK v \in FreshValues : SetPending(a, v)
  BY DEF Stage
<1> DEFINE q == [k EXCEPT !.val = v, !.kek = 0, !.pc = IF Mine(a) THEN "apply" ELSE "fail"]
<1>4. /\ attempt' = [attempt EXCEPT ![a] = q]
      /\ policy' = IF Mine(a) THEN [policy EXCEPT !.pending = v, !.pendingKEK = k.kek] ELSE policy
  BY <1>2, <1>3 DEF SetPending, Shapes
<1>5. v \in Credentials
  BY FreshIsFresh
<1>6. Mine(a) <=> policy.id = k.id
  BY DEF Mine
<1> HIDE DEF k
<1>7. /\ q.pc = (IF Mine(a) THEN "apply" ELSE "fail") /\ q.val = v /\ q.type = k.type /\ q.id = k.id
      /\ AttemptShape(q)
  <2>1. AttemptShape(k) /\ 0 \in 0 .. MaxKEK /\ v \in Held
    BY <1>2, <1>5, RotationAssumption DEF Knows, AttemptFits, Held
  <2>2. (IF Mine(a) THEN "apply" ELSE "fail") \in Phases
    BY DEF Phases
  <2> QED
    BY <2>1, <2>2 DEF AttemptShape
<1> HIDE DEF q
<1>8. AttemptFits(q)
  BY <1>1, <1>2, <1>5, <1>7 DEF Knows, AttemptFits
<1>9. /\ policy'.st = policy.st /\ policy'.id = policy.id /\ policy'.type = policy.type
      /\ policy'.pending = IF Mine(a) THEN v ELSE policy.pending
      /\ PolicyShape(policy')
  <2>1. PolicyShape(policy) /\ k.kek \in 0 .. MaxKEK /\ v \in Held
    BY <1>2, <1>5 DEF Knows, AttemptFits, AttemptShape, Shapes, PolicyFits, Held
  <2>2. CASE Mine(a)
    BY <1>4, <2>1, <2>2 DEF PolicyShape
  <2>3. CASE ~Mine(a)
    BY <1>4, <2>1, <2>3
  <2> QED
    BY <2>2, <2>3
<1>10. ASSUME ~excused
       PROVE  /\ Steady(q, policy', secret, accepted, orphaned)
              /\ Recoverable(policy', secret, accepted, Minted(q), orphaned)
  <2>1. policy.st # "none" /\ Mine(a) /\ k.type = policy.type /\ policy.pending = NoValue
    BY <1>1, <1>2, <1>6, <1>10 DEF Knows, Steady
  <2>2. k.type \notin Generating
    BY <1>1, <1>2 DEF Knows, AttemptFits
  <2>3. secret \in accepted
    BY <1>2, <1>10, <2>1, <2>2, RotationAssumption DEF Knows, Recoverable, Shapes
  <2> QED
    BY <1>6, <1>7, <1>9, <2>1, <2>3 DEF Steady, Recoverable
<1>11. PolicyFits(policy')
  <2>1. CASE policy.st # "none"
    BY <1>2, <1>9, <2>1 DEF PolicyFits, Shapes
  <2>2. CASE ~Mine(a)
    BY <1>2, <1>4, <2>2 DEF Shapes
  <2>3. CASE policy.st = "none" /\ Mine(a)
    BY <1>1, <1>2, <1>6, <2>3 DEF Knows, AttemptFits, PolicyFits, Shapes
  <2> QED
    BY <2>1, <2>2, <2>3
<1> QED
  BY <1>1, <1>2, <1>4, <1>8, <1>10, <1>11, AttemptMoves DEF Shapes

\* An attempt goes on to its next step.
LEMMA PhaseChange ==
    ASSUME NEW k, AttemptShape(k), NEW pc \in Phases, NEW q, q = [k EXCEPT !.pc = pc]
    PROVE  /\ AttemptShape(q) /\ q.pc = pc /\ q.id = k.id /\ q.type = k.type /\ q.val = k.val
           /\ q.old = k.old /\ q.pending = k.pending
BY DEF AttemptShape

LEMMA RotatorAppliesKeeps ==
    ASSUME RotationInv, NEW a \in Attempts, RotatorApplies(a)
    PROVE  RotationInv'
<1> DEFINE k == attempt[a]
           q == [k EXCEPT !.pc = "commit"]
<1>1. /\ k.pc = "apply" /\ Running(a)
      /\ UNCHANGED <<policy, secret, projectKEK, configLive, keyringSealed, excused, orphaned, policyID>>
      /\ accepted' = {k.val}
  BY DEF RotatorApplies, Running, ApplyValue, PostgresApply, MySQLApply, RedisApply, WebhookApply, Replaces
<1>2. Knows(k) /\ Shapes
  BY <1>1, RunnerKnows DEF RotationInv
<1>3. attempt' = [attempt EXCEPT ![a] = q]
  BY <1>2 DEF RotatorApplies, Goto, Shapes
<1> HIDE DEF k
<1>4. /\ AttemptShape(q) /\ q.pc = "commit" /\ q.id = k.id /\ q.type = k.type /\ q.val = k.val
  BY <1>2, PhaseChange DEF Knows, AttemptFits, Phases
<1> HIDE DEF q
<1>5. AttemptFits(q)
  BY <1>1, <1>2, <1>4 DEF Knows, AttemptFits
<1>6. ~excused => /\ Steady(q, policy, secret, accepted', orphaned)
                  /\ Recoverable(policy, secret, accepted', Minted(q), orphaned)
  BY <1>1, <1>2, <1>4 DEF Knows, Steady, Recoverable, AttemptFits
<1>7. accepted' \subseteq Credentials /\ IsFiniteSet(accepted')
  BY <1>1, <1>2, FS_Singleton DEF Knows, AttemptFits
<1> QED
  BY <1>1, <1>2, <1>3, <1>5, <1>6, <1>7, AttemptMoves DEF Shapes

LEMMA ApplyFailsKeeps ==
    ASSUME RotationInv, NEW a \in Attempts, ApplyFails(a)
    PROVE  RotationInv'
<1> DEFINE k == attempt[a]
           q == [k EXCEPT !.pc = "fail"]
<1>1. /\ k.pc = "apply" /\ Running(a)
      /\ UNCHANGED <<policy, secret, projectKEK, configLive, keyringSealed, excused, orphaned, policyID>>
      /\ accepted' \in {{k.val}, accepted}
  BY DEF ApplyFails, Running, ApplyValue, PostgresApply, MySQLApply, RedisApply, WebhookApply, Replaces
<1>2. Knows(k) /\ Shapes
  BY <1>1, RunnerKnows DEF RotationInv
<1>3. attempt' = [attempt EXCEPT ![a] = q]
  BY <1>2 DEF ApplyFails, Goto, Shapes
<1> HIDE DEF k
<1>4. /\ AttemptShape(q) /\ q.pc = "fail" /\ q.id = k.id /\ q.type = k.type /\ q.val = k.val
  BY <1>2, PhaseChange DEF Knows, AttemptFits, Phases
<1> HIDE DEF q
<1>5. AttemptFits(q)
  BY <1>1, <1>2, <1>4 DEF Knows, AttemptFits
<1>6. ~excused => /\ Steady(q, policy, secret, accepted', orphaned)
                  /\ Recoverable(policy, secret, accepted', Minted(q), orphaned)
  BY <1>1, <1>2, <1>4 DEF Knows, Steady, Recoverable, AttemptFits
<1>7. accepted' \subseteq Credentials /\ IsFiniteSet(accepted')
  <2>1. CASE accepted' = {k.val}
    BY <1>1, <1>2, <2>1, FS_Singleton DEF Knows, AttemptFits
  <2>2. CASE accepted' = accepted
    BY <1>2, <2>2 DEF Shapes
  <2> QED
    BY <1>1, <2>1, <2>2
<1> QED
  BY <1>1, <1>2, <1>3, <1>5, <1>6, <1>7, AttemptMoves DEF Shapes

\* Before it has minted anything, an attempt finds only lost credentials at a target that
\* refuses the secret.
LEMMA NothingMintedYet ==
    ASSUME NEW k, Knows(k), Shapes, ~excused, k.val = NoValue, k.pc \notin {"idle", "fail"},
           k.type \in Generating, secret \notin accepted
    PROVE  accepted \subseteq orphaned
<1>1. accepted \subseteq orphaned \cup Minted(k)
  BY DEF Knows, Steady, Recoverable
<1> QED
  BY <1>1, RotationAssumption DEF Minted, Shapes

LEMMA OAuthGenerateKeeps ==
    ASSUME RotationInv, NEW a \in Attempts, OAuthGenerate(a)
    PROVE  RotationInv'
<1> DEFINE k == attempt[a]
<1>1. /\ k.pc = "mint" /\ Running(a)
      /\ UNCHANGED <<policy, secret, projectKEK, configLive, keyringSealed, excused, orphaned, policyID>>
  BY DEF OAuthGenerate, Running
<1>2. Knows(k) /\ Shapes
  BY <1>1, RunnerKnows DEF RotationInv
<1>3. PICK v \in FreshValues :
        /\ accepted' = {v} \cup (accepted \cap ({secret} \cup {attempt[b].val : b \in Attempts}))
        /\ attempt' = [attempt EXCEPT ![a].val = v, ![a].kek = 0, ![a].pc = "commit"]
  BY DEF OAuthGenerate
<1> DEFINE q == [k EXCEPT !.val = v, !.kek = 0, !.pc = "commit"]
<1>4. attempt' = [attempt EXCEPT ![a] = q]
  BY <1>2, <1>3 DEF Shapes
<1>5. /\ v \in Credentials /\ v \in accepted' /\ accepted' \subseteq accepted \cup {v}
      /\ secret \in accepted => secret \in accepted'
  BY <1>3, FreshIsFresh
<1> HIDE DEF k
<1>6. /\ AttemptShape(q) /\ q.pc = "commit" /\ q.id = k.id /\ q.type = k.type /\ q.val = v
  <2>1. AttemptShape(k) /\ 0 \in 0 .. MaxKEK /\ v \in Held
    BY <1>2, <1>5, RotationAssumption DEF Knows, AttemptFits, Held
  <2> QED
    BY <2>1 DEF AttemptShape, Phases
<1> HIDE DEF q
<1>7. AttemptFits(q)
  BY <1>1, <1>2, <1>5, <1>6 DEF Knows, AttemptFits
<1>8. ASSUME ~excused
      PROVE  /\ Steady(q, policy, secret, accepted', orphaned)
             /\ Recoverable(policy, secret, accepted', Minted(q), orphaned)
  <2>1. k.type \in Generating /\ k.val = NoValue /\ k.type = policy.type
    BY <1>1, <1>2, <1>8 DEF Knows, AttemptFits, Steady
  <2>2. secret \notin accepted => accepted \subseteq orphaned
    BY <1>1, <1>2, <1>8, <2>1, NothingMintedYet
  <2>3. secret \notin accepted' => accepted' \subseteq orphaned \cup Minted(q)
    BY <1>5, <1>6, <2>1, <2>2 DEF Minted
  <2> QED
    BY <1>1, <1>2, <1>5, <1>6, <1>8, <2>1, <2>3 DEF Knows, Steady, Recoverable
<1>9. accepted' \subseteq Credentials /\ IsFiniteSet(accepted')
  <2>1. IsFiniteSet(accepted \cup {v})
    BY <1>2, FS_AddElement DEF Shapes
  <2> QED
    BY <1>2, <1>5, <2>1, FS_Subset DEF Shapes
<1> QED
  BY <1>1, <1>2, <1>4, <1>7, <1>8, <1>9, AttemptMoves DEF Shapes

LEMMA ListAccessKeysKeeps ==
    ASSUME RotationInv, NEW a \in Attempts, ListAccessKeys(a)
    PROVE  RotationInv'
<1> DEFINE k == attempt[a]
           q == [k EXCEPT !.old = accepted, !.pc = "create"]
<1>1. /\ k.pc = "mint" /\ Running(a)
      /\ UNCHANGED <<policy, secret, accepted, projectKEK, configLive, keyringSealed, excused, orphaned,
                     policyID>>
  BY DEF ListAccessKeys, Running
<1>2. Knows(k) /\ Shapes
  BY <1>1, RunnerKnows DEF RotationInv
<1>3. attempt' = [attempt EXCEPT ![a] = q]
  BY <1>2 DEF ListAccessKeys, Shapes
<1> HIDE DEF k
<1>4. /\ AttemptShape(q) /\ q.pc = "create" /\ q.id = k.id /\ q.type = k.type /\ q.val = k.val
      /\ q.old = accepted
  <2>1. AttemptShape(k) /\ accepted \in SUBSET Credentials
    BY <1>2 DEF Knows, AttemptFits, Shapes
  <2> QED
    BY <2>1 DEF AttemptShape, Phases
<1> HIDE DEF q
<1>5. AttemptFits(q)
  BY <1>1, <1>2, <1>4 DEF Knows, AttemptFits
<1>6. ~excused => /\ Steady(q, policy, secret, accepted, orphaned)
                  /\ Recoverable(policy, secret, accepted, Minted(q), orphaned)
  BY <1>1, <1>2, <1>4 DEF Knows, Steady, Minted
<1> QED
  BY <1>1, <1>2, <1>3, <1>5, <1>6, AttemptMoves DEF Shapes

\* An IAM user with room for another key has at most one, its secret or a lost one.
LEMMA RoomForAKey ==
    ASSUME Shapes, Cardinality(accepted) < KeyCap, secret \in accepted
    PROVE  accepted = {secret}
<1>1. IsFiniteSet(accepted \ {secret}) /\ Cardinality(accepted \ {secret}) = Cardinality(accepted) - 1
  BY FS_RemoveElement DEF Shapes
<1>2. Cardinality(accepted) \in Nat /\ Cardinality(accepted \ {secret}) \in Nat
  BY <1>1, FS_CardinalityType DEF Shapes
<1>3. Cardinality(accepted \ {secret}) = 0
  BY <1>1, <1>2 DEF KeyCap
<1>4. accepted \ {secret} = {}
  BY <1>1, <1>3, FS_EmptySet
<1> QED
  BY <1>4

LEMMA CreateAccessKeyKeeps ==
    ASSUME RotationInv, NEW a \in Attempts, CreateAccessKey(a)
    PROVE  RotationInv'
<1> DEFINE k == attempt[a]
<1>1. /\ k.pc = "create" /\ Running(a)
      /\ UNCHANGED <<policy, secret, projectKEK, configLive, keyringSealed, excused, orphaned, policyID>>
  BY DEF CreateAccessKey, Running
<1>2. Knows(k) /\ Shapes
  BY <1>1, RunnerKnows DEF RotationInv
<1>3. CASE Goto(a, "fail") /\ accepted' = accepted
  BY <1>1, <1>3, GivesUp
<1>4. CASE ~(Goto(a, "fail") /\ accepted' = accepted)
  <2>1. PICK v \in FreshValues :
          /\ accepted' = accepted \cup {v}
          /\ attempt' = [attempt EXCEPT ![a].val = v, ![a].kek = 0, ![a].pc = "prune"]
    BY <1>4 DEF CreateAccessKey
  <2>2. Cardinality(accepted) < KeyCap
    BY <1>4 DEF CreateAccessKey
  <2> DEFINE q == [k EXCEPT !.val = v, !.kek = 0, !.pc = "prune"]
  <2>3. attempt' = [attempt EXCEPT ![a] = q]
    BY <1>2, <2>1 DEF Shapes
  <2>4. v \in Credentials /\ v \notin accepted
    BY FreshIsFresh
  <2> HIDE DEF k
  <2>5. /\ AttemptShape(q) /\ q.pc = "prune" /\ q.id = k.id /\ q.type = k.type /\ q.val = v
        /\ q.old = k.old
    <3>1. AttemptShape(k) /\ 0 \in 0 .. MaxKEK /\ v \in Held
      BY <1>2, <2>4, RotationAssumption DEF Knows, AttemptFits, Held
    <3> QED
      BY <3>1 DEF AttemptShape, Phases
  <2> HIDE DEF q
  <2>6. AttemptFits(q)
    BY <1>1, <1>2, <2>4, <2>5 DEF Knows, AttemptFits
  <2>7. ASSUME ~excused
        PROVE  /\ Steady(q, policy, secret, accepted', orphaned)
               /\ Recoverable(policy, secret, accepted', Minted(q), orphaned)
    <3>1. k.type \in Generating /\ k.val = NoValue /\ k.type = policy.type /\ k.old \subseteq accepted
      BY <1>1, <1>2, <2>7 DEF Knows, AttemptFits, Steady
    <3>2. secret \notin accepted => accepted \subseteq orphaned
      BY <1>1, <1>2, <2>7, <3>1, NothingMintedYet
    <3>3. secret \in accepted => accepted = {secret}
      BY <1>2, <2>2, RoomForAKey
    <3>4. v \notin k.old /\ accepted' \subseteq orphaned \cup {secret, v}
      BY <2>1, <2>4, <3>1, <3>2, <3>3
    <3>5. secret \notin accepted' => accepted' \subseteq orphaned \cup Minted(q)
      BY <2>1, <2>5, <3>1, <3>2 DEF Minted
    <3> QED
      BY <1>1, <1>2, <2>1, <2>5, <2>7, <3>1, <3>4, <3>5 DEF Knows, Steady, Recoverable
  <2>8. accepted' \subseteq Credentials /\ IsFiniteSet(accepted')
    BY <1>2, <2>1, <2>4, FS_AddElement DEF Shapes
  <2> QED
    BY <1>1, <1>2, <2>3, <2>6, <2>7, <2>8, AttemptMoves DEF Shapes
<1> QED
  BY <1>3, <1>4

LEMMA DeleteAccessKeyKeeps ==
    ASSUME RotationInv, NEW a \in Attempts, DeleteAccessKey(a)
    PROVE  RotationInv'
<1> DEFINE k == attempt[a]
<1>1. /\ k.pc = "prune" /\ Running(a)
      /\ UNCHANGED <<policy, secret, projectKEK, configLive, keyringSealed, excused, orphaned, policyID>>
  BY DEF DeleteAccessKey, Running
<1>2. Knows(k) /\ Shapes
  BY <1>1, RunnerKnows DEF RotationInv
<1>3. CASE Goto(a, "fail") /\ accepted' = accepted
  BY <1>1, <1>3, GivesUp
<1>4. CASE Goto(a, "commit") /\ accepted' = accepted
  <2> DEFINE q == [k EXCEPT !.pc = "commit"]
  <2>1. attempt' = [attempt EXCEPT ![a] = q]
    BY <1>2, <1>4 DEF Goto, Shapes
  <2> HIDE DEF k
  <2>2. /\ AttemptShape(q) /\ q.pc = "commit" /\ q.id = k.id /\ q.type = k.type /\ q.val = k.val
    BY <1>2, PhaseChange DEF Knows, AttemptFits, Phases
  <2> HIDE DEF q
  <2>3. AttemptFits(q)
    BY <1>1, <1>2, <2>2 DEF Knows, AttemptFits
  <2>4. ~excused => /\ Steady(q, policy, secret, accepted, orphaned)
                    /\ Recoverable(policy, secret, accepted, Minted(q), orphaned)
    BY <1>1, <1>2, <2>2 DEF Knows, Steady, Minted
  <2> QED
    BY <1>1, <1>2, <1>4, <2>1, <2>3, <2>4, AttemptMoves DEF Shapes
<1>5. ASSUME NEW x \in k.old, x \in accepted, accepted' = accepted \ {x},
             attempt' = [attempt EXCEPT ![a].old = @ \ {x}]
      PROVE  RotationInv'
  <2> DEFINE q == [k EXCEPT !.old = k.old \ {x}]
  <2>1. attempt' = [attempt EXCEPT ![a] = q]
    BY <1>2, <1>5 DEF Shapes
  <2> HIDE DEF k
  <2>2. /\ AttemptShape(q) /\ q.pc = k.pc /\ q.id = k.id /\ q.type = k.type /\ q.val = k.val
        /\ q.old = k.old \ {x}
    BY <1>2 DEF Knows, AttemptFits, AttemptShape
  <2> HIDE DEF q
  <2>3. AttemptFits(q)
    BY <1>1, <1>2, <2>2 DEF Knows, AttemptFits
  <2>4. ASSUME ~excused
        PROVE  /\ Steady(q, policy, secret, accepted', orphaned)
               /\ Recoverable(policy, secret, accepted', Minted(q), orphaned)
    <3>1. /\ k.type \in Generating /\ policy.st # "none" /\ k.id = policy.id /\ k.type = policy.type
          /\ k.val \in accepted /\ k.val \notin k.old /\ accepted \subseteq orphaned \cup {secret, k.val}
      BY <1>1, <1>2, <2>4 DEF Knows, AttemptFits, Steady
    <3>2. k.val \in accepted' /\ accepted' \subseteq orphaned \cup {secret, k.val}
      BY <1>5, <3>1
    <3>3. secret \notin accepted' => accepted' \subseteq orphaned \cup Minted(q)
      BY <2>2, <3>1, <3>2 DEF Minted
    <3> QED
      BY <1>1, <2>2, <3>1, <3>2, <3>3 DEF Steady, Recoverable
  <2>5. accepted' \subseteq Credentials /\ IsFiniteSet(accepted')
    BY <1>2, <1>5, FS_Subset DEF Shapes
  <2> QED
    BY <1>1, <1>2, <2>1, <2>3, <2>4, <2>5, AttemptMoves DEF Shapes
<1> QED
  BY <1>3, <1>4, <1>5 DEF DeleteAccessKey

LEMMA CommitValueKeeps ==
    ASSUME RotationInv, NEW a \in Attempts, CommitValue(a)
    PROVE  RotationInv'
<1> DEFINE k == attempt[a]
<1>1. /\ k.pc = "commit" /\ Running(a)
      /\ UNCHANGED <<policy, accepted, projectKEK, configLive, keyringSealed, excused, orphaned, policyID>>
  BY DEF CommitValue, Running
<1>2. Knows(k) /\ Shapes
  BY <1>1, RunnerKnows DEF RotationInv
<1>3. CASE Goto(a, "fail") /\ secret' = secret
  BY <1>1, <1>3, GivesUp
<1>4. CASE Goto(a, "mark") /\ secret' = k.val
  <2> DEFINE q == [k EXCEPT !.pc = "mark"]
  <2>1. attempt' = [attempt EXCEPT ![a] = q]
    BY <1>2, <1>4 DEF Goto, Shapes
  <2>2. secret' = k.val
    BY <1>4
  <2> HIDE DEF k
  <2>3. /\ AttemptShape(q) /\ q.pc = "mark" /\ q.id = k.id /\ q.type = k.type
    BY <1>2, PhaseChange DEF Knows, AttemptFits, Phases
  <2> HIDE DEF q
  <2>4. AttemptFits(q)
    BY <1>1, <1>2, <2>3 DEF Knows, AttemptFits
  <2>5. ~excused => /\ Steady(q, policy, secret', accepted, orphaned)
                    /\ Recoverable(policy, secret', accepted, Minted(q), orphaned)
    BY <1>1, <1>2, <2>2, <2>3 DEF Knows, Steady, Recoverable
  <2>6. secret' \in Credentials
    BY <1>1, <1>2, <2>2 DEF Knows, AttemptFits
  <2> QED
    BY <1>1, <1>2, <2>1, <2>4, <2>5, <2>6, AttemptMoves DEF Shapes
<1> QED
  BY <1>3, <1>4 DEF CommitValue

LEMMA IdleAttemptFits == AttemptFits(IdleAttempt) /\ IdleAttempt.pc = "idle" /\ Minted(IdleAttempt) = {}
<1>1. 0 \in 0 .. MaxKEK
  BY RotationAssumption
<1>2. AttemptShape(IdleAttempt)
  BY <1>1 DEF AttemptShape, IdleAttempt, Phases, Held, Configs
<1>3. IdleAttempt.pc = "idle" /\ IdleAttempt.type = "none"
  BY DEF IdleAttempt
<1> QED
  BY <1>2, <1>3 DEF AttemptFits, Minted, Generating

LEMMA MarkFailureKeeps ==
    ASSUME RotationInv, NEW a \in Attempts, MarkFailure(a)
    PROVE  RotationInv'
<1> DEFINE k == attempt[a]
<1>1. /\ k.pc = "fail" /\ Running(a)
      /\ attempt' = [attempt EXCEPT ![a] = IdleAttempt]
      /\ orphaned' = orphaned \cup Unstored(a)
      /\ UNCHANGED <<secret, accepted, projectKEK, configLive, keyringSealed, excused, policyID>>
  BY DEF MarkFailure, Running, End
<1>2. Knows(k) /\ Shapes
  BY <1>1, RunnerKnows DEF RotationInv
<1>3. /\ policy'.id = policy.id /\ policy'.type = policy.type /\ policy'.pending = policy.pending
      /\ PolicyFits(policy')
  <2>1. CASE ~Mine(a)
    BY <1>2, <2>1 DEF MarkFailure, Shapes
  <2>2. CASE Mine(a)
    <3>1. policy.st # "none" /\ PolicyShape(policy)
      BY <1>1, <1>2, <2>2 DEF Mine, Knows, AttemptFits, Shapes, PolicyFits
    <3>2. policy' = [policy EXCEPT !.fails = CountFailure,
                       !.st = IF policy.fails + 1 >= Threshold THEN "failed" ELSE policy.st]
      BY <2>2, <3>1 DEF MarkFailure, PolicyShape
    <3>3. /\ CountFailure \in Nat
          /\ (IF policy.fails + 1 >= Threshold THEN "failed" ELSE policy.st)
               \in {"active", "paused", "failed"}
      BY <3>1 DEF CountFailure, PolicyShape
    <3> DEFINE st == IF policy.fails + 1 >= Threshold THEN "failed" ELSE policy.st
    <3>4. policy' = [policy EXCEPT !.fails = CountFailure, !.st = st]
      BY <3>2
    <3>5. st \in {"active", "paused", "failed"}
      BY <3>3
    <3> HIDE DEF st
    <3>6. /\ policy'.id = policy.id /\ policy'.type = policy.type /\ policy'.pending = policy.pending
          /\ policy'.st = st /\ PolicyShape(policy')
      BY <3>1, <3>3, <3>4, <3>5 DEF PolicyShape
    <3> QED
      BY <1>2, <3>1, <3>5, <3>6 DEF PolicyFits, Shapes
  <2> QED
    BY <2>1, <2>2
<1>4. Minted(k) \cap accepted \subseteq Unstored(a) \cup {secret}
  BY <1>2, RotationAssumption DEF Minted, Unstored, Shapes
<1>5. ~excused => /\ Steady(IdleAttempt, policy', secret, accepted, orphaned')
                  /\ Recoverable(policy', secret, accepted, Minted(IdleAttempt), orphaned')
  BY <1>1, <1>2, <1>3, <1>4, IdleAttemptFits DEF Knows, Steady, Recoverable
<1> QED
  BY <1>1, <1>2, <1>3, <1>5, IdleAttemptFits, AttemptMoves DEF Shapes

\* MarkRotated ends what ran alone and succeeded: from then on nothing is excused.
LEMMA MarkRotatedKeeps ==
    ASSUME RotationInv, NEW a \in Attempts, MarkRotated(a)
    PROVE  RotationInv'
<1> DEFINE k == attempt[a]
<1>1. /\ k.pc = "mark" /\ Running(a)
      /\ excused' = (excused /\ ~(Alone(a) /\ secret \in accepted))
      /\ UNCHANGED <<secret, accepted, projectKEK, configLive, keyringSealed, policyID>>
  BY DEF MarkRotated, Running
<1>2. Knows(k) /\ Shapes
  BY <1>1, RunnerKnows DEF RotationInv
<1>3. PICK q : attempt' = [attempt EXCEPT ![a] = q] /\ AttemptFits(q) /\ q.pc \in {"idle", "fail"}
  <2>1. CASE Mine(a)
    <3>1. attempt' = [attempt EXCEPT ![a] = IdleAttempt]
      BY <2>1 DEF MarkRotated, End
    <3> QED
      BY <3>1, IdleAttemptFits
  <2>2. CASE ~Mine(a)
    <3> DEFINE q == [k EXCEPT !.pc = "fail"]
    <3>1. attempt' = [attempt EXCEPT ![a] = q]
      BY <1>2, <2>2 DEF MarkRotated, Goto, Shapes
    <3> HIDE DEF k
    <3>2. AttemptShape(q) /\ q.pc = "fail" /\ q.id = k.id
      BY <1>2, PhaseChange DEF Knows, AttemptFits, Phases
    <3> HIDE DEF q
    <3>3. AttemptFits(q)
      BY <1>1, <1>2, <3>2 DEF Knows, AttemptFits
    <3> QED
      BY <3>1, <3>2, <3>3
  <2> QED
    BY <2>1, <2>2
<1>4. PolicyFits(policy')
  <2>1. CASE ~Mine(a)
    BY <1>2, <2>1 DEF MarkRotated, Shapes
  <2>2. CASE Mine(a)
    <3>1. policy' = [policy EXCEPT !.st = "active", !.fails = 0, !.pending = NoValue, !.pendingKEK = 0]
      BY <2>2 DEF MarkRotated
    <3>2. PolicyShape(policy) /\ 0 \in 0 .. MaxKEK
      BY <1>2, RotationAssumption DEF Shapes, PolicyFits
    <3>3. PolicyShape(policy') /\ policy'.st = "active" /\ policy'.id = policy.id
      BY <3>1, <3>2 DEF PolicyShape, Held
    <3>4. policy.id # 0
      BY <1>1, <1>2, <2>2 DEF Mine, Knows, AttemptFits
    <3> QED
      BY <3>3, <3>4 DEF PolicyFits
  <2> QED
    BY <2>1, <2>2
<1>5. /\ attempt' = [b \in Attempts |-> attempt'[b]]
      /\ \A b \in Attempts : attempt'[b] = IF b = a THEN q ELSE attempt[b]
  BY <1>2, <1>3 DEF Shapes
<1>6. Shapes'
  BY <1>1, <1>2, <1>3, <1>4, <1>5 DEF Shapes
<1>7. ASSUME ~excused' PROVE (OneRuns /\ AllSteady /\ WayBack)'
  <2>1. secret \in accepted /\ \A b \in Attempts \ {a} : attempt[b].pc = "idle"
    <3>1. CASE excused
      BY <1>1, <1>7, <3>1 DEF Alone, Running
    <3>2. CASE ~excused
      BY <1>1, <1>2, <3>2, RunnerKnows DEF Knows, Steady
    <3> QED
      BY <3>1, <3>2
  <2>2. \A b \in Attempts : attempt'[b].pc \in {"idle", "fail"} /\ (b # a => attempt'[b].pc = "idle")
    BY <1>3, <1>5, <2>1
  <2>3. OneRuns'
    BY <2>2 DEF OneRuns, Running
  <2>4. AllSteady'
    BY <2>2 DEF AllSteady, Steady
  <2>5. WayBack'
    BY <1>1, <2>1 DEF WayBack, Recoverable
  <2> QED
    BY <2>3, <2>4, <2>5
<1> QED
  BY <1>6, <1>7 DEF RotationInv

-----------------------------------------------------------------------------
(* Rotation: the handlers, and the rest of the system.                     *)

\* The row is rewritten, but not what an attempt relies on.
LEMMA RowRewritten ==
    ASSUME RotationInv, PolicyFits(policy'), policy'.st # "none", policy'.id = policy.id,
           policy'.type = policy.type, policy'.pending = policy.pending,
           UNCHANGED <<secret, accepted, attempt, projectKEK, configLive, keyringSealed, excused, orphaned,
                       policyID>>
    PROVE  RotationInv'
<1>1. Shapes'
  BY DEF RotationInv, Shapes
<1>2. OneRuns => OneRuns'
  BY DEF OneRuns, Running
<1>3. AllSteady => AllSteady'
  BY DEF AllSteady, Steady
<1>4. WayBack => WayBack'
  BY DEF WayBack, Recoverable, OnTheWay
<1> QED
  BY <1>1, <1>2, <1>3, <1>4 DEF RotationInv

LEMMA RotationCreateKeeps ==
    ASSUME RotationInv, NEW type \in Rotators, NEW config \in {"complete", "incomplete"},
           RotationCreate(type, config)
    PROVE  RotationInv'
<1>1. /\ policy.st = "none"
      /\ policy' = [NoPolicy EXCEPT !.id = policyID, !.st = "active", !.type = type,
                                    !.configKEK = projectKEK, !.config = config]
      /\ policyID' = policyID + 1
      /\ UNCHANGED <<secret, accepted, attempt, projectKEK, configLive, keyringSealed, excused, orphaned>>
  BY DEF RotationCreate, CreatePolicy, InsertPolicy, Exists
<1>2. Shapes
  BY DEF RotationInv
<1>3. /\ policyID \in Nat \ {0} /\ type \in RotatorTypes /\ projectKEK \in 0 .. MaxKEK /\ 0 \in 0 .. MaxKEK
  BY <1>2, RotationAssumption DEF Shapes
<1>4. PolicyShape(policy') /\ policy'.st = "active"
  BY <1>1, <1>3 DEF PolicyShape, NoPolicy, Held, Configs
<1>5. Shapes'
  BY <1>1, <1>2, <1>4 DEF Shapes, PolicyFits
<1>6. ASSUME ~excused PROVE (OneRuns /\ AllSteady /\ WayBack)'
  <2>1. OneRuns'
    BY <1>1, <1>6 DEF RotationInv, OneRuns, Running
  <2>2. \A a \in Attempts : attempt[a].pc \in {"idle", "fail"}
    BY <1>1, <1>6 DEF RotationInv, AllSteady, Steady
  <2>3. AllSteady'
    BY <1>1, <2>2 DEF AllSteady, Steady
  <2>4. policy.type = "none" /\ policy.pending = NoValue
    BY <1>1, <1>2 DEF Shapes, PolicyFits
  <2>5. secret \in accepted
    BY <1>2, <1>6, <2>4, RotationAssumption DEF RotationInv, WayBack, Recoverable, Generating, Shapes
  <2>6. WayBack'
    BY <1>1, <2>5 DEF WayBack, Recoverable
  <2> QED
    BY <2>1, <2>3, <2>6
<1> QED
  BY <1>1, <1>5, <1>6 DEF RotationInv

LEMMA RotationUpdateKeeps ==
    ASSUME RotationInv, NEW status \in {"active", "paused", "unchanged"},
           NEW config \in {"complete", "incomplete", "unchanged"}, RotationUpdate(status, config)
    PROVE  RotationInv'
<1> DEFINE st == IF status = "unchanged" THEN policy.st ELSE status
           cf == IF config = "unchanged" THEN policy.config ELSE config
           kek == IF config = "unchanged" THEN policy.configKEK ELSE projectKEK
<1>1. /\ policy.st # "none"
      /\ policy' = Coalesce(status, config)
      /\ UNCHANGED <<secret, accepted, attempt, projectKEK, configLive, keyringSealed, excused, orphaned,
                     policyID>>
  BY DEF RotationUpdate, RotationResource, Exists, UpdatePolicy
<1>2. PolicyShape(policy) /\ projectKEK \in 0 .. MaxKEK
  BY RotationAssumption DEF RotationInv, Shapes, PolicyFits
<1>3. policy' = [policy EXCEPT !.st = st, !.config = cf, !.configKEK = kek]
  BY <1>1, <1>2 DEF Coalesce, PolicyShape
<1>4. st \in {"active", "paused", "failed"} /\ cf \in Configs /\ kek \in 0 .. MaxKEK
  BY <1>1, <1>2 DEF PolicyShape, Configs
<1> HIDE DEF st, cf, kek
<1>5. /\ PolicyShape(policy') /\ policy'.st = st /\ policy'.id = policy.id /\ policy'.type = policy.type
      /\ policy'.pending = policy.pending
  BY <1>2, <1>3, <1>4 DEF PolicyShape
<1>6. PolicyFits(policy') /\ policy'.st # "none"
  BY <1>1, <1>4, <1>5 DEF RotationInv, Shapes, PolicyFits
<1> QED
  BY <1>1, <1>5, <1>6, RowRewritten

LEMMA RotationDeleteKeeps ==
    ASSUME RotationInv, RotationDelete
    PROVE  RotationInv'
<1>1. policy' = NoPolicy /\ excused' = TRUE
  BY DEF RotationDelete
<1>2. 0 \in 0 .. MaxKEK
  BY RotationAssumption
<1>3. PolicyShape(NoPolicy)
  BY <1>2 DEF PolicyShape, NoPolicy, Held, Configs
<1>4. PolicyFits(NoPolicy)
  BY <1>3 DEF PolicyFits, NoPolicy
<1> QED
  BY <1>1, <1>4 DEF RotationInv, Shapes, RotationDelete

\* An attempt starts from the row as it is.
LEMMA AttemptStarts ==
    ASSUME RotationInv, NEW a \in Attempts, ~Running(a), policy.st # "none",
           attempt' = [attempt EXCEPT ![a] = Snapshot], excused' = (excused \/ ~Alone(a)),
           PolicyFits(policy'), policy'.st # "none", policy'.id = policy.id,
           policy'.type = policy.type, policy'.pending = policy.pending,
           UNCHANGED <<secret, accepted, projectKEK, configLive, keyringSealed, orphaned, policyID>>
    PROVE  RotationInv'
<1>1. Shapes /\ PolicyShape(policy)
  BY DEF RotationInv, Shapes, PolicyFits
<1>2. /\ Snapshot.pc = "open" /\ Snapshot.id = policy.id /\ Snapshot.pending = policy.pending
      /\ Snapshot.type = policy.type /\ Snapshot.val = NoValue
  BY DEF Snapshot, IdleAttempt
<1>3. AttemptShape(Snapshot)
  <2>1. 0 \in 0 .. MaxKEK /\ "open" \in Phases /\ NoValue \in Held /\ {} \in SUBSET Credentials
    BY RotationAssumption DEF Phases, Held
  <2>2. AttemptShape(IdleAttempt)
    BY IdleAttemptFits DEF AttemptFits
  <2>3. /\ policy.id \in Nat /\ policy.pending \in Held /\ policy.configKEK \in 0 .. MaxKEK
        /\ policy.pendingKEK \in 0 .. MaxKEK /\ policy.config \in Configs
        /\ policy.type \in RotatorTypes \cup {"none"}
    BY <1>1 DEF PolicyShape
  <2> QED
    BY <2>1, <2>2, <2>3 DEF AttemptShape, Snapshot
<1>4. AttemptFits(Snapshot)
  <2>1. policy.id # 0
    BY DEF RotationInv, Shapes, PolicyFits
  <2> QED
    BY <1>2, <1>3, <2>1 DEF AttemptFits
<1> DEFINE q == Snapshot
<1> HIDE DEF q
<1>5. /\ attempt' = [b \in Attempts |-> attempt'[b]]
      /\ \A b \in Attempts : attempt'[b] = IF b = a THEN q ELSE attempt[b]
  BY <1>1 DEF Shapes, q
<1>6. Shapes'
  BY <1>1, <1>4, <1>5 DEF Shapes, q
<1>7. ASSUME ~excused' PROVE (OneRuns /\ AllSteady /\ WayBack)'
  <2>1. ~excused /\ \A b \in Attempts \ {a} : attempt[b].pc = "idle"
    BY <1>7 DEF Alone, Running
  <2>2. OneRuns'
    BY <1>5, <2>1 DEF OneRuns, Running
  <2>3. Steady(q, policy', secret, accepted, orphaned)
    BY <1>2 DEF Steady, q
  <2>4. AllSteady'
    BY <1>5, <2>1, <2>3 DEF AllSteady, Steady
  <2>5. WayBack'
    <3>1. \A b \in Attempts : Minted(attempt[b]) = {}
      BY <1>1, <2>1 DEF Shapes, AttemptFits, Minted, Generating, Running
    <3>2. OnTheWay \subseteq {}
      BY <3>1 DEF OnTheWay
    <3> QED
      BY <2>1, <3>2 DEF RotationInv, WayBack, Recoverable
  <2> QED
    BY <2>2, <2>4, <2>5
<1> QED
  BY <1>6, <1>7 DEF RotationInv

LEMMA RunDueRotationKeeps ==
    ASSUME RotationInv, RunDueRotation
    PROVE  RotationInv'
<1>1. PolicyFits(policy) /\ policy.st # "none" /\ policy' = policy
  BY DEF RunDueRotation, ClaimDuePolicy, RotationInv, Shapes
<1>2. Scheduler \in Attempts
  BY DEF Attempts
<1> QED
  BY <1>1, <1>2, AttemptStarts DEF RunDueRotation

LEMMA RotateNowKeeps ==
    ASSUME RotationInv, NEW a \in RotateCalls, RotateNow(a)
    PROVE  RotationInv'
<1>1. PolicyFits(policy) /\ policy.st # "none"
  BY DEF RotateNow, RotationResource, Exists, RotationInv, Shapes
<1>2. /\ PolicyFits(policy') /\ policy'.st # "none" /\ policy'.id = policy.id
      /\ policy'.type = policy.type /\ policy'.pending = policy.pending
  <2>1. CASE policy.st = "failed"
    <3>1. policy' = [policy EXCEPT !.st = "active", !.fails = 0]
      BY <2>1 DEF RotateNow, PrepareRotateNow
    <3>2. PolicyShape(policy') /\ policy'.st = "active"
      BY <1>1, <3>1 DEF PolicyFits, PolicyShape
    <3> QED
      BY <1>1, <3>1, <3>2 DEF PolicyFits, PolicyShape
  <2>2. CASE policy.st # "failed"
    BY <1>1, <2>2 DEF RotateNow, PrepareRotateNow
  <2> QED
    BY <2>1, <2>2
<1>3. a \in Attempts
  BY DEF Attempts
<1> QED
  BY <1>1, <1>2, <1>3, AttemptStarts DEF RotateNow

\* A crash loses the attempts: a minted credential that was not stored is lost with them.
LEMMA ProcessCrashKeeps ==
    ASSUME RotationInv, ProcessCrash
    PROVE  RotationInv'
<1>1. /\ attempt' = [b \in Attempts |-> IdleAttempt] /\ keyringSealed' = TRUE
      /\ orphaned' = orphaned \cup UNION {Unstored(b) : b \in Attempts}
      /\ UNCHANGED <<policy, secret, accepted, projectKEK, configLive, excused, policyID>>
  BY DEF ProcessCrash
<1>2. Shapes'
  BY <1>1, IdleAttemptFits DEF RotationInv, Shapes
<1>3. ASSUME ~excused PROVE (OneRuns /\ AllSteady /\ WayBack)'
  <2>1. OneRuns' /\ AllSteady'
    BY <1>1, IdleAttemptFits DEF OneRuns, AllSteady, Running, Steady
  <2>2. \A b \in Attempts : Minted(attempt[b]) \cap accepted \subseteq Unstored(b) \cup {secret}
    BY RotationAssumption DEF RotationInv, Shapes, Minted, Unstored
  <2>3. OnTheWay \cap accepted \subseteq orphaned' \cup {secret}
    BY <1>1, <2>2 DEF OnTheWay
  <2>4. WayBack'
    BY <1>1, <1>3, <2>3 DEF RotationInv, WayBack, Recoverable
  <2> QED
    BY <2>1, <2>4
<1> QED
  BY <1>1, <1>2, <1>3 DEF RotationInv

LEMMA SurroundingsKeep ==
    ASSUME RotationInv, {configLive', keyringSealed'} \subseteq BOOLEAN, projectKEK' \in 1 .. MaxKEK,
           excused' = TRUE \/ excused' = excused,
           UNCHANGED <<policy, secret, accepted, attempt, orphaned, policyID>>
    PROVE  RotationInv'
<1>1. Shapes'
  BY DEF RotationInv, Shapes
<1>2. OneRuns /\ AllSteady /\ WayBack => (OneRuns /\ AllSteady /\ WayBack)'
  BY DEF OneRuns, AllSteady, WayBack, Running, OnTheWay
<1> QED
  BY <1>1, <1>2 DEF RotationInv

LEMMA RotationStepInv == RotationInv /\ [RotationNext]_rotationVars => RotationInv'
<1> SUFFICES ASSUME RotationInv, [RotationNext]_rotationVars PROVE RotationInv'
  OBVIOUS
<1>1. ASSUME NEW t \in Rotators, NEW c \in {"complete", "incomplete"}, RotationCreate(t, c)
      PROVE  RotationInv'
  BY <1>1, RotationCreateKeeps
<1>2. ASSUME NEW s \in {"active", "paused", "unchanged"}, NEW c \in {"complete", "incomplete", "unchanged"},
             RotationUpdate(s, c)
      PROVE  RotationInv'
  BY <1>2, RotationUpdateKeeps
<1>3. CASE RotationDelete
  BY <1>3, RotationDeleteKeeps
<1>4. CASE RunDueRotation
  BY <1>4, RunDueRotationKeeps
<1>5. ASSUME NEW a \in RotateCalls, RotateNow(a) PROVE RotationInv'
  BY <1>5, RotateNowKeeps
<1>6. ASSUME NEW a \in Attempts, AttemptStep(a) PROVE RotationInv'
  <2>1. CASE OpenConfig(a) \/ ReusePending(a) \/ Stage(a) \/ RotatorApplies(a) \/ ApplyFails(a)
    BY <2>1, OpenConfigKeeps, ReusePendingKeeps, StageKeeps, RotatorAppliesKeeps, ApplyFailsKeeps
  <2>2. CASE ApplyInvalid(a) \/ GenerateFails(a)
    BY <2>2, GivesUp DEF ApplyInvalid, GenerateFails, Running
  <2>3. CASE OAuthGenerate(a) \/ ListAccessKeys(a) \/ CreateAccessKey(a) \/ DeleteAccessKey(a)
    BY <2>3, OAuthGenerateKeeps, ListAccessKeysKeeps, CreateAccessKeyKeeps, DeleteAccessKeyKeeps
  <2>4. CASE CommitValue(a) \/ MarkRotated(a) \/ MarkFailure(a)
    BY <2>4, CommitValueKeeps, MarkRotatedKeeps, MarkFailureKeeps
  <2> QED
    BY <1>6, <2>1, <2>2, <2>3, <2>4 DEF AttemptStep
<1>7. CASE ProcessCrash
  BY <1>7, ProcessCrashKeeps
<1>8. projectKEK \in 1 .. MaxKEK /\ {configLive, keyringSealed} \subseteq BOOLEAN
  BY DEF RotationInv, Shapes
<1>9. CASE SealServer \/ UnsealServer \/ \E b \in BOOLEAN : SetConfigLive(b)
  BY <1>8, <1>9, SurroundingsKeep DEF SealServer, UnsealServer, SetConfigLive
<1>10. CASE RotateProjectKEK
  <2>1. projectKEK' \in 1 .. MaxKEK
    BY <1>8, <1>10, RotationAssumption DEF RotateProjectKEK
  <2> QED
    BY <1>8, <1>10, <2>1, SurroundingsKeep DEF RotateProjectKEK
<1>11. CASE UNCHANGED rotationVars
  BY <1>8, <1>11, SurroundingsKeep DEF rotationVars
<1> QED
  BY <1>1, <1>2, <1>3, <1>4, <1>5, <1>6, <1>7, <1>9, <1>10, <1>11 DEF RotationNext

LEMMA RotationStarts ==
    ASSUME RotationInit
    PROVE  RotationInv
<1>1. 0 \in 0 .. MaxKEK /\ 1 \in 1 .. MaxKEK
  BY RotationAssumption
<1>2. PolicyFits(NoPolicy)
  <2>1. PolicyShape(NoPolicy)
    BY <1>1 DEF PolicyShape, NoPolicy, Held, Configs
  <2> QED
    BY <2>1 DEF PolicyFits, NoPolicy
<1>3. IsFiniteSet(accepted) /\ accepted \subseteq Credentials /\ secret \in accepted
  BY FS_Singleton DEF RotationInit
<1>4. Shapes
  <2>1. /\ attempt = [a \in Attempts |-> attempt[a]]
        /\ \A a \in Attempts : attempt[a] = IdleAttempt
    BY DEF RotationInit
  <2>2. \A a \in Attempts : AttemptFits(attempt[a])
    BY <2>1, IdleAttemptFits
  <2>3. PolicyFits(policy) /\ projectKEK \in 1 .. MaxKEK /\ policyID \in Nat \ {0}
    BY <1>1, <1>2 DEF RotationInit
  <2>4. {configLive, keyringSealed} \subseteq BOOLEAN
    BY DEF RotationInit
  <2> QED
    BY <1>3, <2>1, <2>2, <2>3, <2>4 DEF RotationInit, Shapes
<1>5. OneRuns /\ AllSteady
  BY IdleAttemptFits DEF RotationInit, OneRuns, AllSteady, Running, Steady
<1>6. WayBack
  BY <1>3 DEF WayBack, Recoverable
<1> QED
  BY <1>4, <1>5, <1>6 DEF RotationInv

\* Whatever stops an attempt, and wherever, a credential that works is stored, pending or on
\* its way (Service.rotate, SetPending, the generating rotators), for any number of
\* rotate-now requests, credentials and disturbances.
THEOREM RecoveryHolds == RotationSpec => []RotationRecovers
<1>1. RotationInit => RotationInv
  BY RotationStarts
<1>2. RotationInv => RotationRecovers
  <2> SUFFICES ASSUME RotationInv PROVE RotationRecovers
    OBVIOUS
  <2>1. RotationTypeOK
    BY DEF RotationInv, Shapes, PolicyFits, PolicyShape, AttemptFits, AttemptShape, RotationTypeOK, Held
  <2>2. DriftIsRecoverable
    <3> SUFFICES ASSUME secret \notin accepted, ~excused
                 PROVE  \/ policy.type \notin Generating /\ policy.pending \in accepted
                        \/ /\ policy.type \in Generating
                           /\ \/ accepted \subseteq orphaned
                              \/ \E a \in Attempts : attempt[a].val \in accepted
      BY DEF DriftIsRecoverable, Drift
    <3>1. CASE policy.type \notin Generating
      BY <3>1 DEF RotationInv, WayBack, Recoverable
    <3>2. CASE policy.type \in Generating
      <4>1. accepted \subseteq orphaned \cup OnTheWay
        BY <3>2 DEF RotationInv, WayBack, Recoverable
      <4>2. \A x \in OnTheWay : \E a \in Attempts : attempt[a].val = x
        BY DEF OnTheWay, Minted
      <4> QED
        BY <3>2, <4>1, <4>2
    <3> QED
      BY <3>1, <3>2
  <2> QED
    BY <2>1, <2>2 DEF RotationRecovers
<1> QED
  BY <1>1, <1>2, RotationStepInv, PTL DEF RotationSpec

-----------------------------------------------------------------------------
(* A lemma on bounded sets of numbers.                                     *)

\* A bounded set of numbers has a largest one.
LEMMA NewestOf ==
    ASSUME NEW n \in Nat, NEW S, S \subseteq 0 .. n, S # {}
    PROVE  \E m \in S : \A x \in S : x <= m
<1> DEFINE T == {n - x : x \in S}
           R == {ss \in Nat \X Nat : ss[1] < ss[2]}
<1>1. \A x \in S : x \in Nat /\ n - x \in Nat
  OBVIOUS
<1>2. T \subseteq Nat /\ T # {}
  BY <1>1
<1>3. IsWellFoundedOn(R, Nat)
  BY NatLessThanWellFounded DEF OpToRel
<1>4. PICK t \in T : \A y \in T : ~ (<<y, t>> \in R)
  <2> HIDE DEF T, R
  <2> QED
    BY <1>2, <1>3, WFMin
<1>5. \A y \in T : ~ (y < t)
  BY <1>2, <1>4
<1>6. PICK m \in S : t = n - m
  BY <1>4
<1>7. \A x \in S : x <= m
  BY <1>1, <1>5, <1>6
<1> QED
  BY <1>7

-----------------------------------------------------------------------------
(* Backup: the inductive invariant.                                        *)

\* One origin, for the rows of the database and for those of an artifact.
OriginFits(r) ==
    /\ r \in Row
    /\ r.usersBy \in {0, r.sealBy} /\ r.projectBy \in {0, r.sealBy}
    /\ r.projectBy # 0 => r.kek # 0

ArtifactFits(a) == a \in Artifact /\ OriginFits(a.rows)
\* What the engine uploads is a dump that did not break off, of an instance in use.
WholeFits(a) == ArtifactFits(a) /\ (a.is => a.cut = Groups /\ a.rows.sealBy # 0)
BucketFits(b) == b \in [1 .. MaxClock -> Artifact] /\ \A t \in 1 .. MaxClock : WholeFits(b[t])

StoredIn(b) == {t \in 1 .. MaxClock : b[t].is}
Newer(b, t) == {u \in StoredIn(b) : u > t}

Phase == {"idle", "dump", "put", "list", "delete", "record"}
\* The run: what it has dumped is of the schema the server still runs, what it has put has
\* itself or a newer object in the bucket, and each of its victims has Retention newer
\* objects that are none.
EngineFits(k, b, rows, shut, tick) ==
    /\ k = [pc |-> k.pc, started |-> k.started, art |-> k.art, victims |-> k.victims]
    /\ k.pc \in Phase /\ k.started \in 0 .. tick
    /\ k.pc # "idle" => k.started # 0 /\ ~shut
    /\ k.pc = "put" => WholeFits(k.art) /\ k.art.is /\ k.art.rows.schema = rows.schema
    /\ k.pc \in {"list", "delete", "record"} => \E t \in StoredIn(b) : t >= k.started
    /\ k.pc = "delete" =>
        /\ Retention > 0 /\ k.victims # {} /\ k.victims \subseteq StoredIn(b)
        /\ \A t \in k.victims : Cardinality(Newer(b, t) \ k.victims) >= Retention

RunRecord == [status : {"success", "failure"}, key : 0 .. MaxClock]
RecordsFit(rs, b) ==
    /\ rs \in Seq(RunRecord) /\ Len(rs) <= HistoryCap
    /\ \A i \in 1 .. Len(rs) : rs[i].status = "success" => \E t \in StoredIn(b) : t >= rs[i].key

Surviving(up, b) ==
    /\ up \subseteq 1 .. MaxClock
    /\ Retention > 0 => \A t \in up : Cardinality(Newer(b, t)) < Retention => b[t].is

\* The init and the restore, one at a time under initMu.
BootFits(m, rows, n) ==
    /\ m = [mu |-> m.mu, init |-> m.init, restore |-> m.restore, art |-> m.art]
    /\ m.mu \in {"free", "init", "restore"}
    /\ m.init \in {"none", "put", "admin"} /\ m.restore \in {"none", "tx"}
    /\ m.init # "none" => m.mu = "init"
    /\ m.restore # "none" => m.mu = "restore"
    /\ m.init = "put" => rows.sealBy = 0 /\ n < MaxInits
    /\ m.init = "admin" => rows.sealBy = n
    /\ m.restore = "tx" => ArtifactFits(m.art)

RehearsalFits(h, b, rows, shut) ==
    /\ h \in [pc : {"idle", "get", "done"}, key : 0 .. MaxClock]
    /\ h.pc # "idle" => h.key \in 1 .. MaxClock /\ ~shut
    /\ h.pc = "done" => (b[h.key].is => b[h.key].rows.schema = rows.schema)

InstanceFits(rows, n, shut, tick) ==
    /\ OriginFits(rows) /\ n \in 0 .. MaxInits /\ tick \in 1 .. MaxClock /\ shut \in BOOLEAN
    /\ ~shut => rows.sealBy # 0

BackupInv ==
    /\ InstanceFits(db, inits, instanceSealed, clock)
    /\ BucketFits(bucket)
    /\ EngineFits(run, bucket, db, instanceSealed, clock)
    /\ RecordsFit(runs, bucket)
    /\ Surviving(uploaded, bucket)
    /\ BootFits(bootstrap, db, inits)
    /\ RehearsalFits(rehearsal, bucket, db, instanceSealed)
    /\ ArtifactFits(file) /\ backupFaults \in 0 .. BackupFaults

-----------------------------------------------------------------------------
(* Backup: the objects in the bucket.                                      *)

LEMMA BoundedCounts ==
    ASSUME NEW S, NEW T, T \subseteq 1 .. MaxClock, S \subseteq T
    PROVE  /\ IsFiniteSet(S) /\ Cardinality(S) \in Nat
           /\ Cardinality(T) \in Nat /\ Cardinality(S) <= Cardinality(T)
<1>1. IsFiniteSet(1 .. MaxClock)
  BY FS_Interval, BackupAssumption
<1>2. IsFiniteSet(T)
  BY <1>1, FS_Subset
<1> QED
  BY <1>2, FS_Subset, FS_CardinalityType

LEMMA SomeNewer ==
    ASSUME NEW S, S \subseteq 1 .. MaxClock, Cardinality(S) > 0
    PROVE  S # {}
BY FS_EmptySet

\* An object is added, or overwritten by another.
LEMMA ObjectArrives ==
    ASSUME NEW b, NEW c, BucketFits(b), BucketFits(c), StoredIn(b) \subseteq StoredIn(c)
    PROVE  /\ \A rs : RecordsFit(rs, b) => RecordsFit(rs, c)
           /\ \A up : Surviving(up, b) => Surviving(up, c)
<1>1. ASSUME NEW rs, RecordsFit(rs, b) PROVE RecordsFit(rs, c)
  BY <1>1 DEF RecordsFit
<1>2. ASSUME NEW up, Surviving(up, b) PROVE Surviving(up, c)
  <2> SUFFICES ASSUME Retention > 0, NEW t \in up, Cardinality(Newer(c, t)) < Retention
               PROVE  c[t].is
    BY <1>2 DEF Surviving
  <2>1. Newer(b, t) \subseteq Newer(c, t) /\ Newer(c, t) \subseteq 1 .. MaxClock
    BY DEF Newer, StoredIn
  <2>2. Cardinality(Newer(b, t)) < Retention
    BY <2>1, BoundedCounts, BackupAssumption
  <2>3. t \in StoredIn(b)
    BY <1>2, <2>2 DEF Surviving, StoredIn
  <2> QED
    BY <2>3 DEF StoredIn
<1> QED
  BY <1>1, <1>2

\* The newest of the victims goes.
LEMMA ObjectGoes ==
    ASSUME NEW b, NEW c, BucketFits(b), BucketFits(c), NEW V, V \subseteq StoredIn(b), NEW m \in V,
           Retention > 0, \A t \in V : Cardinality(Newer(b, t) \ V) >= Retention,
           StoredIn(c) = StoredIn(b) \ {m}
    PROVE  /\ \A n \in Nat : (\E t \in StoredIn(b) : t >= n) => \E t \in StoredIn(c) : t >= n
           /\ \A up : Surviving(up, b) => Surviving(up, c)
           /\ \A t \in V \ {m} : Cardinality(Newer(c, t) \ (V \ {m})) >= Retention
<1>1. StoredIn(b) \subseteq 1 .. MaxClock /\ \A t : Newer(b, t) \subseteq 1 .. MaxClock
  BY DEF StoredIn, Newer
<1>2. Cardinality(Newer(b, m) \ V) >= Retention
  OBVIOUS
<1>3. \A t : Newer(c, t) = Newer(b, t) \ {m}
  BY DEF Newer
<1>4. PICK u \in Newer(b, m) : u \notin V
  <2>1. Cardinality(Newer(b, m) \ V) > 0
    <3>1. Cardinality(Newer(b, m) \ V) \in Nat
      BY <1>1, BoundedCounts
    <3> QED
      BY <1>2, <3>1, BackupAssumption
  <2>2. Newer(b, m) \ V # {}
    BY <1>1, <2>1, SomeNewer
  <2> QED
    BY <2>2
<1>5. u \in StoredIn(c) /\ u > m
  BY <1>4 DEF Newer
<1>6. ASSUME NEW n \in Nat, NEW t \in StoredIn(b), t >= n
      PROVE  \E x \in StoredIn(c) : x >= n
  <2>1. CASE t = m
    BY <1>1, <1>5, <1>6, <2>1
  <2>2. CASE t # m
    BY <1>6, <2>2
  <2> QED
    BY <2>1, <2>2
<1>7. ASSUME NEW up, Surviving(up, b) PROVE Surviving(up, c)
  <2> SUFFICES ASSUME NEW t \in up, Cardinality(Newer(c, t)) < Retention
               PROVE  t \in StoredIn(c)
    BY <1>7 DEF Surviving, StoredIn
  <2>1. t \in 1 .. MaxClock /\ m \in 1 .. MaxClock
    BY <1>1, <1>7 DEF Surviving
  <2>2. ~ (t <= m)
    <3> SUFFICES ASSUME t <= m PROVE FALSE
      OBVIOUS
    <3>1. Newer(b, m) \ V \subseteq Newer(c, t)
      BY <1>1, <1>3, <2>1 DEF Newer
    <3>2. Cardinality(Newer(b, m) \ V) <= Cardinality(Newer(c, t)) /\ Cardinality(Newer(b, m) \ V) \in Nat
          /\ Cardinality(Newer(c, t)) \in Nat
      BY <1>1, <1>3, <3>1, BoundedCounts
    <3> QED
      BY <1>2, <3>2, BackupAssumption
  <2>3. Newer(b, t) = Newer(c, t)
    BY <1>3, <2>1, <2>2 DEF Newer
  <2>4. t \in StoredIn(b)
    BY <1>7, <2>1, <2>3 DEF Surviving, StoredIn
  <2> QED
    BY <2>1, <2>2, <2>4
<1>8. ASSUME NEW t \in V \ {m} PROVE Newer(c, t) \ (V \ {m}) = Newer(b, t) \ V
  BY <1>3, <1>8
<1> QED
  BY <1>6, <1>7, <1>8

\* What a listing leaves alone: the Retention newest.
LEMMA ListingSpares ==
    ASSUME BucketFits(bucket), Retention > 0, NEW t \in Victims
    PROVE  Cardinality(Newer(bucket, t) \ Victims) >= Retention
<1>1. /\ Victims \subseteq Stored /\ Stored \subseteq 1 .. MaxClock /\ Stored = StoredIn(bucket)
      /\ \A v \in Victims : Cardinality({u \in Stored : u > v}) >= Retention
  BY DEF Victims, Stored, StoredIn
<1> DEFINE V == {v \in Victims : v >= t}
<1>2. PICK m \in V : \A x \in V : x <= m
  <2>1. V \subseteq 0 .. MaxClock /\ MaxClock \in Nat
    <3>1. V \subseteq 1 .. MaxClock /\ MaxClock \in Nat
      BY <1>1, BackupAssumption
    <3> QED
      BY <3>1
  <2>2. t \in V
    BY <1>1
  <2> HIDE DEF V
  <2> QED
    BY <2>1, <2>2, NewestOf
<1>3. {u \in Stored : u > m} \subseteq Newer(bucket, t) \ Victims
  BY <1>1, <1>2 DEF Newer
<1>4. Newer(bucket, t) \ Victims \subseteq 1 .. MaxClock
  BY <1>1 DEF Newer
<1>5. Cardinality({u \in Stored : u > m}) >= Retention
  BY <1>1, <1>2
<1> QED
  BY <1>3, <1>4, <1>5, BoundedCounts, BackupAssumption

-----------------------------------------------------------------------------
(* Backup: rows and artifacts.                                             *)

LEMMA EmptyFits == OriginFits(Empty) /\ \A n \in 1 .. MaxVersion : OriginFits([Empty EXCEPT !.schema = n])
<1>1. 0 \in 0 .. MaxInits /\ 0 \in 0 .. MaxVersion /\ 1 \in 1 .. MaxVersion
  BY BackupAssumption
<1> QED
  BY <1>1 DEF OriginFits, Empty, Row

LEMMA NoArtifactFits == WholeFits(NoArtifact) /\ ~NoArtifact.is
<1>1. 0 \in 0 .. Groups /\ FALSE \in BOOLEAN /\ Empty \in Row
  BY EmptyFits DEF Groups, OriginFits
<1>2. NoArtifact \in Artifact
  BY <1>1, Zenon DEF NoArtifact, Artifact
<1>3. NoArtifact.is = FALSE /\ NoArtifact.rows = Empty
  BY DEF NoArtifact
<1> QED
  BY <1>2, <1>3, EmptyFits DEF WholeFits, ArtifactFits

LEMMA DumpFits ==
    ASSUME OriginFits(db), NEW cut \in 0 .. Groups
    PROVE  /\ ArtifactFits(Dump(cut)) /\ Dump(cut).is /\ Dump(cut).cut = cut
           /\ Dump(cut).rows.schema = db.schema /\ Dump(cut).rows.sealBy = db.sealBy
<1> DEFINE r == [db EXCEPT !.kept = {}]
<1>1. /\ OriginFits(r) /\ r.schema = db.schema /\ r.sealBy = db.sealBy
  BY DEF OriginFits, Row
<1>2. Dump(cut) = [rows |-> r, cut |-> cut, is |-> TRUE]
  BY DEF Dump
<1> HIDE DEF r
<1>3. Dump(cut) \in Artifact
  <2>1. r \in Row
    BY <1>1 DEF OriginFits
  <2>2. TRUE \in BOOLEAN
    OBVIOUS
  <2>3. [rows |-> r, cut |-> cut, is |-> TRUE] \in Artifact
    BY <2>1, <2>2, Zenon DEF Artifact
  <2> QED
    BY <1>2, <2>3
<1>4. Dump(cut).is = TRUE /\ Dump(cut).cut = cut /\ Dump(cut).rows = r
  BY <1>2
<1> QED
  BY <1>1, <1>3, <1>4 DEF ArtifactFits

\* What is restored, however early the artifact breaks off.
LEMMA RowsFit ==
    ASSUME NEW a, ArtifactFits(a)
    PROVE  /\ OriginFits(Rows(a)) /\ Rows(a).schema = a.rows.schema
           /\ Rows(a).sealBy = IF a.cut >= 1 THEN a.rows.sealBy ELSE 0
<1>1. OriginFits(a.rows) /\ a.cut \in 0 .. Groups
  BY DEF ArtifactFits, Artifact
<1> DEFINE r == a.rows
           n == a.cut
           e1 == IF n >= 1 THEN r.sealBy ELSE 0
           e2 == IF n >= 2 THEN r.usersBy ELSE 0
           e3 == IF n >= 3 THEN r.projectBy ELSE 0
           e4 == IF n >= 3 THEN r.kek ELSE 0
           e5 == IF n >= 4 THEN r.value ELSE 0
<1>2. Rows(a) = [Empty EXCEPT !.schema = r.schema, !.sealBy = e1, !.usersBy = e2, !.projectBy = e3,
                              !.kek = e4, !.value = e5]
  BY DEF Rows
<1>3. /\ e1 \in 0 .. MaxInits /\ e2 \in 0 .. MaxInits /\ e3 \in 0 .. MaxInits
      /\ e4 \in 0 .. MaxVersion /\ e5 \in 0 .. MaxVersion /\ r.schema \in 1 .. MaxVersion
  BY <1>1, BackupAssumption DEF OriginFits, Row
<1>4. e2 \in {0, e1} /\ e3 \in {0, e1} /\ (e3 # 0 => e4 # 0)
  BY <1>1 DEF OriginFits, Groups
<1> HIDE DEF r, n, e1, e2, e3, e4, e5
<1>5. /\ Rows(a) \in Row /\ Rows(a).schema = r.schema /\ Rows(a).sealBy = e1 /\ Rows(a).usersBy = e2
      /\ Rows(a).projectBy = e3 /\ Rows(a).kek = e4
  BY <1>2, <1>3 DEF Row, Empty
<1>6. OriginFits(Rows(a))
  BY <1>4, <1>5 DEF OriginFits
<1> QED
  BY <1>5, <1>6 DEF e1, n, r

-----------------------------------------------------------------------------
(* Backup: the instance.                                                   *)

LEMMA InstanceMoves ==
    ASSUME BackupInv, InstanceFits(db', inits', instanceSealed', clock), BootFits(bootstrap', db', inits'),
           ~instanceSealed => ~instanceSealed' /\ db'.schema = db.schema,
           UNCHANGED <<clock, engineVars, file, rehearsal, backupFaults>>
    PROVE  BackupInv'
<1>1. /\ clock' = clock /\ bucket' = bucket /\ runs' = runs /\ run' = run /\ uploaded' = uploaded
      /\ file' = file /\ rehearsal' = rehearsal /\ backupFaults' = backupFaults
  BY DEF engineVars
<1>2. EngineFits(run, bucket, db', instanceSealed', clock)
  <2>1. EngineFits(run, bucket, db, instanceSealed, clock)
    BY DEF BackupInv
  <2>2. CASE run.pc = "idle"
    BY <2>1, <2>2 DEF EngineFits
  <2>3. CASE run.pc # "idle"
    BY <2>1, <2>3 DEF EngineFits
  <2> QED
    BY <2>2, <2>3
<1>3. RehearsalFits(rehearsal, bucket, db', instanceSealed')
  <2>1. RehearsalFits(rehearsal, bucket, db, instanceSealed)
    BY DEF BackupInv
  <2>2. CASE rehearsal.pc = "idle"
    BY <2>1, <2>2 DEF RehearsalFits
  <2>3. CASE rehearsal.pc # "idle"
    BY <2>1, <2>3 DEF RehearsalFits
  <2> QED
    BY <2>2, <2>3
<1> QED
  BY <1>1, <1>2, <1>3 DEF BackupInv

LEMMA BeginInitKeeps ==
    ASSUME BackupInv, BeginInit
    PROVE  BackupInv'
<1>1. /\ bootstrap.mu = "free" /\ bootstrap.init = "none" /\ inits < MaxInits /\ db.sealBy = 0
      /\ bootstrap' = [bootstrap EXCEPT !.mu = "init", !.init = "put"]
      /\ UNCHANGED <<db, inits, instanceSealed, clock, engineVars, file, rehearsal, backupFaults>>
  BY DEF BeginInit
<1>2. BootFits(bootstrap, db, inits) /\ InstanceFits(db, inits, instanceSealed, clock)
  BY DEF BackupInv
<1>3. bootstrap' = [mu |-> "init", init |-> "put", restore |-> bootstrap.restore, art |-> bootstrap.art]
  BY <1>1, <1>2 DEF BootFits
<1>4. BootFits(bootstrap', db, inits)
  <2>1. bootstrap.restore = "none"
    BY <1>1, <1>2 DEF BootFits
  <2> QED
    BY <1>1, <1>3, <2>1 DEF BootFits
<1> QED
  BY <1>1, <1>2, <1>4, InstanceMoves

LEMMA PutSealConfigKeeps ==
    ASSUME BackupInv, PutSealConfig
    PROVE  BackupInv'
<1> DEFINE q == [bootstrap EXCEPT !.init = "admin"]
           r == [db EXCEPT !.sealBy = inits + 1]
<1>1. /\ bootstrap.init = "put" /\ inits' = inits + 1 /\ db' = r /\ bootstrap' = q
      /\ UNCHANGED <<instanceSealed, clock, engineVars, file, rehearsal, backupFaults>>
  BY DEF PutSealConfig
<1>2. BootFits(bootstrap, db, inits) /\ InstanceFits(db, inits, instanceSealed, clock)
  BY DEF BackupInv
<1>3. inits + 1 \in 0 .. MaxInits /\ inits + 1 # 0 /\ db.sealBy = 0
  BY <1>1, <1>2, BackupAssumption DEF BootFits, InstanceFits
<1>4. r.sealBy = inits + 1 /\ r.schema = db.schema /\ OriginFits(r)
  BY <1>2, <1>3 DEF InstanceFits, OriginFits, Row
<1> HIDE DEF r
<1>5. BootFits(q, r, inits + 1)
  BY <1>1, <1>2, <1>4 DEF BootFits
<1>6. InstanceFits(r, inits + 1, instanceSealed, clock)
  BY <1>2, <1>3, <1>4 DEF InstanceFits
<1> HIDE DEF q
<1> QED
  BY <1>1, <1>4, <1>5, <1>6, InstanceMoves

LEMMA BootstrapAdminKeeps ==
    ASSUME BackupInv, BootstrapAdmin
    PROVE  BackupInv'
<1> DEFINE r == [db EXCEPT !.usersBy = inits]
<1>1. /\ bootstrap.init = "admin" /\ db' = r /\ bootstrap' = [bootstrap EXCEPT !.mu = "free", !.init = "none"]
      /\ UNCHANGED <<inits, instanceSealed, clock, engineVars, file, rehearsal, backupFaults>>
  BY DEF BootstrapAdmin
<1>2. BootFits(bootstrap, db, inits) /\ InstanceFits(db, inits, instanceSealed, clock)
  BY DEF BackupInv
<1>3. db.sealBy = inits
  BY <1>1, <1>2 DEF BootFits
<1>4. r.sealBy = db.sealBy /\ r.schema = db.schema /\ OriginFits(r)
  BY <1>2, <1>3 DEF InstanceFits, OriginFits, Row
<1> HIDE DEF r
<1>5. BootFits(bootstrap', r, inits)
  <2>1. bootstrap' = [mu |-> "free", init |-> "none", restore |-> bootstrap.restore, art |-> bootstrap.art]
    BY <1>1, <1>2 DEF BootFits
  <2>2. bootstrap.restore = "none"
    BY <1>1, <1>2 DEF BootFits
  <2> QED
    BY <2>1, <2>2 DEF BootFits
<1>6. InstanceFits(r, inits, instanceSealed, clock)
  BY <1>2, <1>4 DEF InstanceFits
<1> QED
  BY <1>1, <1>4, <1>5, <1>6, InstanceMoves

LEMMA UseInstanceKeeps ==
    ASSUME BackupInv, UseInstance
    PROVE  BackupInv'
<1>1. /\ ~instanceSealed
      /\ UNCHANGED <<inits, instanceSealed, bootstrap, clock, engineVars, file, rehearsal, backupFaults>>
  BY DEF UseInstance
<1>2. BootFits(bootstrap, db, inits) /\ InstanceFits(db, inits, instanceSealed, clock)
  BY DEF BackupInv
<1>3. OriginFits(db) /\ 1 \in 0 .. MaxVersion
  BY <1>2, BackupAssumption DEF InstanceFits
<1>4. OriginFits(db') /\ db'.schema = db.schema /\ db'.sealBy = db.sealBy
  <2>1. CASE db' = [db EXCEPT !.projectBy = db.sealBy, !.kek = 1]
    <3>1. db.sealBy \in 0 .. MaxInits
      BY <1>3 DEF OriginFits, Row
    <3>2. db' \in Row /\ db'.kek = 1 /\ db'.sealBy = db.sealBy /\ db'.usersBy = db.usersBy
          /\ db'.projectBy = db.sealBy /\ db'.schema = db.schema
      BY <1>3, <2>1, <3>1 DEF OriginFits, Row
    <3> QED
      BY <1>3, <3>2 DEF OriginFits
  <2>2. CASE db' = [db EXCEPT !.value = db.kek]
    BY <1>3, <2>2 DEF OriginFits, Row
  <2>3. CASE /\ db.projectBy # 0 /\ db.kek < MaxVersion
             /\ db' = [db EXCEPT !.kek = @ + 1, !.kept = @ \cup {db.kek}]
    <3>1. /\ db.kek + 1 \in 0 .. MaxVersion /\ db.kek \in 1 .. MaxVersion
          /\ db.kept \cup {db.kek} \in SUBSET (1 .. MaxVersion)
      BY <1>3, <2>3, BackupAssumption DEF OriginFits, Row
    <3>2. db' \in Row /\ db'.kek = db.kek + 1 /\ db'.sealBy = db.sealBy /\ db'.usersBy = db.usersBy
          /\ db'.projectBy = db.projectBy /\ db'.schema = db.schema
      BY <1>3, <2>3, <3>1 DEF OriginFits, Row
    <3> QED
      BY <1>3, <3>1, <3>2 DEF OriginFits
  <2>4. CASE db' = [db EXCEPT !.kept = {}]
    BY <1>3, <2>4 DEF OriginFits, Row
  <2> QED
    BY <2>1, <2>2, <2>3, <2>4 DEF UseInstance
<1>5. BootFits(bootstrap, db', inits)
  BY <1>2, <1>4 DEF BootFits
<1>6. InstanceFits(db', inits, instanceSealed, clock)
  BY <1>2, <1>4 DEF InstanceFits
<1> QED
  BY <1>1, <1>4, <1>5, <1>6, InstanceMoves

LEMMA UnsealInstanceKeeps ==
    ASSUME BackupInv, UnsealInstance
    PROVE  BackupInv'
<1>1. /\ db.sealBy # 0 /\ instanceSealed' = FALSE
      /\ UNCHANGED <<db, inits, bootstrap, clock, engineVars, file, rehearsal, backupFaults>>
  BY DEF UnsealInstance
<1>2. BootFits(bootstrap, db, inits) /\ InstanceFits(db, inits, instanceSealed', clock)
  BY <1>1 DEF BackupInv, InstanceFits
<1> QED
  BY <1>1, <1>2, InstanceMoves

LEMMA BeginRestoreKeeps ==
    ASSUME BackupInv, NEW a \in Artifacts, BeginRestore(a)
    PROVE  BackupInv'
<1>1. /\ bootstrap.mu = "free" /\ bootstrap' = [bootstrap EXCEPT !.mu = "restore", !.restore = "tx", !.art = a]
      /\ UNCHANGED <<db, inits, instanceSealed, clock, engineVars, file, rehearsal, backupFaults>>
  BY DEF BeginRestore
<1>2. BootFits(bootstrap, db, inits) /\ InstanceFits(db, inits, instanceSealed, clock)
  BY DEF BackupInv
<1>3. ArtifactFits(a)
  BY DEF BackupInv, Artifacts, Stored, BucketFits, WholeFits
<1>4. BootFits(bootstrap', db, inits)
  <2>1. bootstrap' = [mu |-> "restore", init |-> bootstrap.init, restore |-> "tx", art |-> a]
    BY <1>1, <1>2 DEF BootFits
  <2>2. bootstrap.init = "none"
    BY <1>1, <1>2 DEF BootFits
  <2> QED
    BY <1>3, <2>1, <2>2 DEF BootFits
<1> QED
  BY <1>1, <1>2, <1>4, InstanceMoves

LEMMA CommitRestoreKeeps ==
    ASSUME BackupInv, CommitRestore
    PROVE  BackupInv'
<1>1. /\ bootstrap.restore = "tx"
      /\ bootstrap' = [bootstrap EXCEPT !.mu = "free", !.restore = "none", !.art = NoArtifact]
      /\ db' = IF IsEmptyForRestore THEN Rows(bootstrap.art) ELSE db
      /\ UNCHANGED <<inits, instanceSealed, clock, engineVars, file, rehearsal, backupFaults>>
  BY DEF CommitRestore
<1>2. BootFits(bootstrap, db, inits) /\ InstanceFits(db, inits, instanceSealed, clock)
  BY DEF BackupInv
<1>3. OriginFits(Rows(bootstrap.art))
  BY <1>1, <1>2, RowsFit DEF BootFits
<1>4. bootstrap.init = "none"
  BY <1>1, <1>2 DEF BootFits
<1>5. BootFits(bootstrap', db', inits)
  <2>1. bootstrap' = [mu |-> "free", init |-> bootstrap.init, restore |-> "none", art |-> NoArtifact]
    BY <1>1, <1>2 DEF BootFits
  <2> QED
    BY <1>4, <2>1 DEF BootFits
<1>6. CASE db' = db
  BY <1>1, <1>2, <1>5, <1>6, InstanceMoves
<1>7. CASE IsEmptyForRestore /\ db' = Rows(bootstrap.art)
  <2>1. instanceSealed
    BY <1>2, <1>7 DEF InstanceFits, IsEmptyForRestore
  <2>2. InstanceFits(db', inits, instanceSealed, clock)
    BY <1>2, <1>3, <1>7, <2>1 DEF InstanceFits
  <2> QED
    BY <1>1, <1>5, <2>1, <2>2, InstanceMoves
<1> QED
  BY <1>1, <1>6, <1>7

-----------------------------------------------------------------------------
(* Backup: the engine.                                                     *)

LEMMA EngineMoves ==
    ASSUME BackupInv, BucketFits(bucket'), EngineFits(run', bucket', db, instanceSealed, clock),
           RecordsFit(runs', bucket'), Surviving(uploaded', bucket'),
           rehearsal.pc = "done" => (bucket'[rehearsal.key].is => \/ bucket[rehearsal.key].is
                                                                     /\ bucket'[rehearsal.key] = bucket[rehearsal.key]
                                                                  \/ bucket'[rehearsal.key].rows.schema = db.schema),
           backupFaults' \in 0 .. BackupFaults, UNCHANGED <<instanceVars, clock, file, rehearsal>>
    PROVE  BackupInv'
<1>1. /\ clock' = clock /\ db' = db /\ inits' = inits /\ instanceSealed' = instanceSealed
      /\ bootstrap' = bootstrap /\ file' = file /\ rehearsal' = rehearsal
  BY DEF instanceVars
<1>2. RehearsalFits(rehearsal, bucket', db, instanceSealed)
  <2>1. RehearsalFits(rehearsal, bucket, db, instanceSealed)
    BY DEF BackupInv
  <2> QED
    BY <2>1 DEF RehearsalFits
<1> QED
  BY <1>1, <1>2 DEF BackupInv

\* The run alone moves.
LEMMA RunMoves ==
    ASSUME BackupInv, EngineFits(run', bucket, db, instanceSealed, clock), backupFaults' \in 0 .. BackupFaults,
           UNCHANGED <<instanceVars, clock, bucket, runs, uploaded, file, rehearsal>>
    PROVE  BackupInv'
BY EngineMoves DEF BackupInv

LEMMA IdleRunFits ==
    ASSUME NEW b, NEW rows, NEW shut, NEW tick \in Nat
    PROVE  EngineFits(IdleRun, b, rows, shut, tick)
BY DEF EngineFits, IdleRun, Phase

LEMMA RecordAdded ==
    ASSUME NEW b, RecordsFit(runs, b), NEW status \in {"success", "failure"}, NEW key \in 0 .. MaxClock,
           status = "success" => \E t \in StoredIn(b) : t >= key, InsertRun(status, key)
    PROVE  RecordsFit(runs', b)
<1> DEFINE e == [status |-> status, key |-> key]
           all == Append(runs, e)
           m == IF Len(all) > HistoryCap THEN Len(all) - HistoryCap + 1 ELSE 1
<1>1. e \in RunRecord /\ runs \in Seq(RunRecord) /\ Len(runs) \in Nat
  BY DEF RecordsFit, RunRecord
<1>2. e.status = status /\ e.key = key
  OBVIOUS
<1> HIDE DEF e
<1>3. /\ all \in Seq(RunRecord) /\ Len(all) = Len(runs) + 1
      /\ \A i \in 1 .. Len(runs) : all[i] = runs[i]
      /\ all[Len(runs) + 1] = e
  BY <1>1, AppendProperties
<1>4. runs' = SubSeq(all, m, Len(all))
  BY DEF InsertRun, e
<1>5. \A i \in 1 .. Len(all) : all[i].status = "success" => \E t \in StoredIn(b) : t >= all[i].key
  <2> SUFFICES ASSUME NEW i \in 1 .. Len(all), all[i].status = "success"
               PROVE  \E t \in StoredIn(b) : t >= all[i].key
    OBVIOUS
  <2>1. CASE i \in 1 .. Len(runs)
    BY <1>3, <2>1 DEF RecordsFit
  <2>2. CASE i = Len(runs) + 1
    BY <1>2, <1>3, <2>2
  <2> HIDE DEF all
  <2> QED
    BY <1>1, <1>3, <2>1, <2>2
<1> HIDE DEF all
<1>6. m \in 1 .. Len(all) /\ Len(all) \in Nat /\ Len(all) - m + 1 <= HistoryCap
  BY <1>1, <1>3, BackupAssumption DEF RecordsFit
<1> HIDE DEF m
<1>7. \A i \in 1 .. Len(all) : all[i] \in RunRecord
  BY <1>3, LenProperties
<1>8. /\ SubSeq(all, m, Len(all)) \in Seq(RunRecord)
      /\ Len(SubSeq(all, m, Len(all))) = Len(all) - m + 1
      /\ \A i \in 1 .. Len(all) - m + 1 : SubSeq(all, m, Len(all))[i] = all[m + i - 1]
  <2>1. m \in Int /\ Len(all) \in Int /\ \A i \in m .. Len(all) : all[i] \in RunRecord
    BY <1>6, <1>7
  <2>2. m <= Len(all)
    BY <1>6
  <2> QED
    BY <2>1, <2>2, SubSeqProperties
<1>9. ASSUME NEW i \in 1 .. Len(runs'), runs'[i].status = "success"
      PROVE  \E t \in StoredIn(b) : t >= runs'[i].key
  <2>1. m + i - 1 \in 1 .. Len(all) /\ runs'[i] = all[m + i - 1]
    BY <1>4, <1>6, <1>8, <1>9
  <2> QED
    BY <1>5, <1>9, <2>1
<1> QED
  BY <1>4, <1>6, <1>8, <1>9 DEF RecordsFit

LEMMA StartRunKeeps ==
    ASSUME BackupInv, StartRun
    PROVE  BackupInv'
<1>1. /\ ~instanceSealed /\ run' = [IdleRun EXCEPT !.pc = "dump", !.started = clock]
      /\ UNCHANGED <<instanceVars, clock, bucket, runs, uploaded, file, rehearsal, backupFaults>>
  BY DEF StartRun
<1>2. clock \in 0 .. clock /\ clock # 0 /\ backupFaults \in 0 .. BackupFaults
  BY BackupAssumption DEF BackupInv, InstanceFits
<1>3. run' = [pc |-> "dump", started |-> clock, art |-> NoArtifact, victims |-> {}]
  BY <1>1 DEF IdleRun
<1>4. EngineFits(run', bucket, db, instanceSealed, clock)
  BY <1>1, <1>2, <1>3 DEF EngineFits, Phase
<1> QED
  BY <1>1, <1>2, <1>4, RunMoves

LEMMA WriteBackupKeeps ==
    ASSUME BackupInv, WriteBackup
    PROVE  BackupInv'
<1> DEFINE d == Dump(Groups)
<1>1. /\ run.pc = "dump" /\ run' = [run EXCEPT !.pc = "put", !.art = d]
      /\ UNCHANGED <<instanceVars, clock, bucket, runs, uploaded, file, rehearsal, backupFaults>>
  BY DEF WriteBackup
<1>2. /\ EngineFits(run, bucket, db, instanceSealed, clock) /\ InstanceFits(db, inits, instanceSealed, clock)
      /\ backupFaults \in 0 .. BackupFaults
  BY DEF BackupInv
<1>3. WholeFits(d) /\ d.is /\ d.rows.schema = db.schema
  <2>1. db.sealBy # 0 /\ Groups \in 0 .. Groups
    BY <1>1, <1>2 DEF EngineFits, InstanceFits, Groups
  <2> QED
    BY <1>2, <2>1, DumpFits DEF InstanceFits, WholeFits
<1> HIDE DEF d
<1>4. run' = [pc |-> "put", started |-> run.started, art |-> d, victims |-> run.victims]
  BY <1>1, <1>2 DEF EngineFits
<1>5. EngineFits(run', bucket, db, instanceSealed, clock)
  <2>1. run.started # 0 /\ ~instanceSealed /\ run.started \in 0 .. clock
    BY <1>1, <1>2 DEF EngineFits
  <2> QED
    BY <1>3, <1>4, <2>1 DEF EngineFits, Phase
<1> QED
  BY <1>1, <1>2, <1>5, RunMoves

\* The artifact is in the bucket, whatever the engine hears of it.
LEMMA ObjectPut ==
    ASSUME BackupInv, run.pc = "put", bucket' = [bucket EXCEPT ![run.started] = run.art]
    PROVE  /\ BucketFits(bucket') /\ StoredIn(bucket') = StoredIn(bucket) \cup {run.started}
           /\ run.started \in 1 .. MaxClock
           /\ \A t \in 1 .. MaxClock : bucket'[t] = bucket[t] \/ bucket'[t].rows.schema = db.schema
<1>1. EngineFits(run, bucket, db, instanceSealed, clock) /\ BucketFits(bucket)
  BY DEF BackupInv
<1>2. run.started \in 1 .. MaxClock
  BY <1>1, BackupAssumption DEF BackupInv, InstanceFits, EngineFits
<1>3. WholeFits(run.art) /\ run.art.is /\ run.art.rows.schema = db.schema
  BY <1>1 DEF EngineFits
<1> DEFINE s == run.started
           x == run.art
<1>4. x \in Artifact
  BY <1>3 DEF WholeFits, ArtifactFits
<1> HIDE DEF s, x
<1>5. /\ bucket' \in [1 .. MaxClock -> Artifact]
      /\ \A t \in 1 .. MaxClock : bucket'[t] = IF t = s THEN x ELSE bucket[t]
  BY <1>1, <1>2, <1>4 DEF BucketFits, s, x
<1> QED
  BY <1>1, <1>2, <1>3, <1>5 DEF BucketFits, StoredIn, s, x

LEMMA PutObjectKeeps ==
    ASSUME BackupInv, PutObject
    PROVE  BackupInv'
<1>1. /\ run.pc = "put" /\ bucket' = [bucket EXCEPT ![run.started] = run.art]
      /\ uploaded' = uploaded \cup {run.started}
      /\ run' = [run EXCEPT !.pc = "list", !.art = NoArtifact]
      /\ UNCHANGED <<instanceVars, clock, runs, file, rehearsal, backupFaults>>
  BY DEF PutObject
<1>2. /\ EngineFits(run, bucket, db, instanceSealed, clock) /\ BucketFits(bucket) /\ RecordsFit(runs, bucket)
      /\ Surviving(uploaded, bucket) /\ backupFaults \in 0 .. BackupFaults
      /\ RehearsalFits(rehearsal, bucket, db, instanceSealed)
  BY DEF BackupInv
<1> DEFINE s == run.started
<1>3. /\ BucketFits(bucket') /\ StoredIn(bucket') = StoredIn(bucket) \cup {s} /\ s \in 1 .. MaxClock
      /\ \A t \in 1 .. MaxClock : bucket'[t] = bucket[t] \/ bucket'[t].rows.schema = db.schema
  BY <1>1, ObjectPut
<1>4. run' = [pc |-> "list", started |-> s, art |-> NoArtifact, victims |-> run.victims]
  BY <1>1, <1>2 DEF EngineFits
<1>5. EngineFits(run', bucket', db, instanceSealed, clock)
  <2>1. s # 0 /\ ~instanceSealed /\ s \in 0 .. clock
    BY <1>1, <1>2 DEF EngineFits
  <2>2. \E t \in StoredIn(bucket') : t >= s
    BY <1>3
  <2> HIDE DEF s
  <2> QED
    BY <1>4, <2>1, <2>2 DEF EngineFits, Phase
<1>6. RecordsFit(runs, bucket') /\ Surviving(uploaded, bucket')
  BY <1>2, <1>3, ObjectArrives
<1>7. Surviving(uploaded \cup {s}, bucket')
  BY <1>3, <1>6 DEF Surviving, StoredIn
<1>8. rehearsal.pc = "done" => bucket'[rehearsal.key] = bucket[rehearsal.key]
                               \/ bucket'[rehearsal.key].rows.schema = db.schema
  BY <1>2, <1>3 DEF RehearsalFits
<1>9. runs' = runs /\ backupFaults' = backupFaults
  BY <1>1
<1> HIDE DEF s
<1> QED
  BY <1>1, <1>2, <1>3, <1>5, <1>6, <1>7, <1>8, <1>9, EngineMoves DEF s

LEMMA FaultCounted ==
    ASSUME BackupInv, BackupDisturb
    PROVE  backupFaults' \in 0 .. BackupFaults
BY BackupAssumption DEF BackupInv, BackupDisturb

LEMMA RunFailsKeeps ==
    ASSUME BackupInv, RunFails
    PROVE  BackupInv'
<1>1. /\ BackupDisturb
      /\ InsertRun("failure", 0) \/ UNCHANGED runs
      /\ UNCHANGED bucket \/ (run.pc = "put" /\ bucket' = [bucket EXCEPT ![run.started] = run.art])
      /\ run' = IdleRun
      /\ UNCHANGED <<instanceVars, clock, uploaded, file, rehearsal>>
  BY DEF RunFails
<1>2. /\ BucketFits(bucket) /\ RecordsFit(runs, bucket)
      /\ Surviving(uploaded, bucket) /\ backupFaults' \in 0 .. BackupFaults
      /\ RehearsalFits(rehearsal, bucket, db, instanceSealed) /\ clock \in Nat
  <2>1. clock \in Nat
    BY BackupAssumption DEF BackupInv, InstanceFits
  <2> QED
    BY <1>1, <2>1, FaultCounted DEF BackupInv
<1>3. EngineFits(run', bucket', db, instanceSealed, clock)
  BY <1>1, <1>2, IdleRunFits
<1>4. /\ BucketFits(bucket') /\ StoredIn(bucket) \subseteq StoredIn(bucket')
      /\ \A t \in 1 .. MaxClock : bucket'[t] = bucket[t] \/ bucket'[t].rows.schema = db.schema
  <2>1. CASE UNCHANGED bucket
    BY <1>2, <2>1
  <2>2. CASE run.pc = "put" /\ bucket' = [bucket EXCEPT ![run.started] = run.art]
    BY <2>2, ObjectPut
  <2> QED
    BY <1>1, <2>1, <2>2
<1>5. RecordsFit(runs, bucket') /\ Surviving(uploaded, bucket')
  BY <1>2, <1>4, ObjectArrives
<1>6. RecordsFit(runs', bucket')
  <2>1. 0 \in 0 .. MaxClock
    BY BackupAssumption
  <2> QED
    BY <1>1, <1>5, <2>1, RecordAdded
<1>7. rehearsal.pc = "done" => bucket'[rehearsal.key] = bucket[rehearsal.key]
                               \/ bucket'[rehearsal.key].rows.schema = db.schema
  BY <1>2, <1>4 DEF RehearsalFits
<1>8. uploaded' = uploaded
  BY <1>1
<1> QED
  BY <1>1, <1>2, <1>3, <1>4, <1>5, <1>6, <1>7, <1>8, EngineMoves

LEMMA ListBackupsKeeps ==
    ASSUME BackupInv, ListBackups
    PROVE  BackupInv'
<1>1. /\ run.pc = "list"
      /\ run' = [run EXCEPT !.pc = IF Victims = {} THEN "record" ELSE "delete", !.victims = Victims]
      /\ UNCHANGED <<instanceVars, clock, bucket, runs, uploaded, file, rehearsal, backupFaults>>
  BY DEF ListBackups
<1>2. /\ EngineFits(run, bucket, db, instanceSealed, clock) /\ BucketFits(bucket)
      /\ backupFaults \in 0 .. BackupFaults
  BY DEF BackupInv
<1> DEFINE pc == IF Victims = {} THEN "record" ELSE "delete"
           V == Victims
<1>3. run' = [pc |-> pc, started |-> run.started, art |-> run.art, victims |-> V]
  BY <1>1, <1>2 DEF EngineFits
<1>4. pc = "delete" => /\ Retention > 0 /\ V # {} /\ V \subseteq StoredIn(bucket)
                       /\ \A t \in V : Cardinality(Newer(bucket, t) \ V) >= Retention
  <2> SUFFICES ASSUME pc = "delete"
               PROVE  /\ Retention > 0 /\ V # {} /\ V \subseteq StoredIn(bucket)
                      /\ \A t \in V : Cardinality(Newer(bucket, t) \ V) >= Retention
    OBVIOUS
  <2>1. V # {}
    OBVIOUS
  <2>2. V \subseteq StoredIn(bucket)
    BY DEF Victims, StoredIn, Stored
  <2>3. Retention > 0
    BY <2>1 DEF Victims
  <2> QED
    BY <1>2, <2>1, <2>2, <2>3, ListingSpares
<1>5. pc \in {"record", "delete"}
  OBVIOUS
<1> HIDE DEF pc, V
<1>6. EngineFits(run', bucket, db, instanceSealed, clock)
  <2>1. /\ run.started # 0 /\ ~instanceSealed /\ run.started \in 0 .. clock
        /\ \E t \in StoredIn(bucket) : t >= run.started
    BY <1>1, <1>2 DEF EngineFits
  <2> QED
    BY <1>3, <1>4, <1>5, <2>1 DEF EngineFits, Phase
<1> QED
  BY <1>1, <1>2, <1>6, RunMoves

LEMMA DeleteObjectKeeps ==
    ASSUME BackupInv, DeleteObject
    PROVE  BackupInv'
<1> DEFINE m == CHOOSE t \in run.victims : \A u \in run.victims : u <= t
           V == run.victims
<1>1. /\ run.pc = "delete" /\ bucket' = [bucket EXCEPT ![m] = NoArtifact]
      /\ run' = [run EXCEPT !.victims = @ \ {m}, !.pc = IF run.victims = {m} THEN "record" ELSE "delete"]
      /\ UNCHANGED <<instanceVars, clock, runs, uploaded, file, rehearsal, backupFaults>>
  BY DEF DeleteObject
<1>2. /\ EngineFits(run, bucket, db, instanceSealed, clock) /\ BucketFits(bucket) /\ RecordsFit(runs, bucket)
      /\ Surviving(uploaded, bucket) /\ backupFaults \in 0 .. BackupFaults
      /\ RehearsalFits(rehearsal, bucket, db, instanceSealed) /\ clock \in Nat
  BY BackupAssumption DEF BackupInv, InstanceFits
<1>3. /\ V # {} /\ V \subseteq StoredIn(bucket) /\ Retention > 0
      /\ \A t \in V : Cardinality(Newer(bucket, t) \ V) >= Retention
  BY <1>1, <1>2 DEF EngineFits
<1>4. m \in V
  <2>1. V \subseteq 0 .. MaxClock /\ MaxClock \in Nat
    <3>1. V \subseteq 1 .. MaxClock /\ MaxClock \in Nat
      BY <1>3, BackupAssumption DEF StoredIn
    <3> QED
      BY <3>1
  <2>2. \E t \in V : \A u \in V : u <= t
    <3> HIDE DEF V
    <3> QED
      BY <1>3, <2>1, NewestOf
  <2> QED
    BY <2>2
<1> DEFINE pc == IF V = {m} THEN "record" ELSE "delete"
           W == V \ {m}
<1>5. run' = [pc |-> pc, started |-> run.started, art |-> run.art, victims |-> W]
  BY <1>1, <1>2 DEF EngineFits
<1> HIDE DEF m
<1>6. /\ BucketFits(bucket') /\ StoredIn(bucket') = StoredIn(bucket) \ {m}
      /\ \A t \in 1 .. MaxClock : bucket'[t] = bucket[t] \/ ~bucket'[t].is
  <2>1. NoArtifact \in Artifact
    BY NoArtifactFits DEF WholeFits, ArtifactFits
  <2>2. m \in 1 .. MaxClock
    BY <1>3, <1>4 DEF StoredIn
  <2>3. /\ bucket' \in [1 .. MaxClock -> Artifact]
        /\ \A t \in 1 .. MaxClock : bucket'[t] = IF t = m THEN NoArtifact ELSE bucket[t]
    BY <1>1, <1>2, <2>1, <2>2 DEF BucketFits
  <2> QED
    BY <1>2, <2>2, <2>3, NoArtifactFits DEF BucketFits, StoredIn
<1> HIDE DEF V
<1>7. /\ \A n \in Nat : (\E t \in StoredIn(bucket) : t >= n) => \E t \in StoredIn(bucket') : t >= n
      /\ Surviving(uploaded, bucket')
      /\ \A t \in W : Cardinality(Newer(bucket', t) \ W) >= Retention
  BY <1>2, <1>3, <1>4, <1>6, ObjectGoes
<1>8. RecordsFit(runs, bucket')
  <2>1. \A i \in 1 .. Len(runs) : runs[i].key \in Nat
    <3>1. \A i \in 1 .. Len(runs) : runs[i] \in RunRecord
      BY <1>2, LenProperties DEF RecordsFit
    <3> QED
      BY <3>1 DEF RunRecord
  <2> QED
    BY <1>2, <1>7, <2>1 DEF RecordsFit
<1>9. W \subseteq StoredIn(bucket') /\ (pc = "delete" => W # {}) /\ pc \in {"record", "delete"}
  BY <1>3, <1>4, <1>6
<1> HIDE DEF pc, W
<1>10. EngineFits(run', bucket', db, instanceSealed, clock)
  <2>1. /\ run.started # 0 /\ ~instanceSealed /\ run.started \in 0 .. clock
        /\ \E t \in StoredIn(bucket) : t >= run.started
    BY <1>1, <1>2 DEF EngineFits
  <2>2. \E t \in StoredIn(bucket') : t >= run.started
    BY <1>2, <1>7, <2>1
  <2> QED
    BY <1>3, <1>5, <1>7, <1>9, <2>1, <2>2 DEF EngineFits, Phase
<1>11. rehearsal.pc = "done" => bucket'[rehearsal.key] = bucket[rehearsal.key]
                                \/ ~bucket'[rehearsal.key].is
  BY <1>2, <1>6 DEF RehearsalFits
<1>12. runs' = runs /\ uploaded' = uploaded /\ backupFaults' = backupFaults
  BY <1>1
<1> QED
  BY <1>1, <1>2, <1>6, <1>7, <1>8, <1>10, <1>11, <1>12, EngineMoves

LEMMA PruneFailsKeeps ==
    ASSUME BackupInv, PruneFails
    PROVE  BackupInv'
<1>1. /\ BackupDisturb /\ run.pc \in {"list", "delete"}
      /\ run' = [run EXCEPT !.pc = "record", !.victims = {}]
      /\ UNCHANGED <<instanceVars, clock, bucket, runs, uploaded, file, rehearsal>>
  BY DEF PruneFails
<1>2. EngineFits(run, bucket, db, instanceSealed, clock) /\ backupFaults' \in 0 .. BackupFaults
  BY <1>1, FaultCounted DEF BackupInv
<1>3. run' = [pc |-> "record", started |-> run.started, art |-> run.art, victims |-> {}]
  BY <1>1, <1>2 DEF EngineFits
<1>4. EngineFits(run', bucket, db, instanceSealed, clock)
  <2>1. /\ run.started # 0 /\ ~instanceSealed /\ run.started \in 0 .. clock
        /\ \E t \in StoredIn(bucket) : t >= run.started
    BY <1>1, <1>2 DEF EngineFits
  <2> QED
    BY <1>3, <2>1 DEF EngineFits, Phase
<1> QED
  BY <1>1, <1>2, <1>4, RunMoves

LEMMA RecordRunKeeps ==
    ASSUME BackupInv, RecordRun
    PROVE  BackupInv'
<1>1. /\ run.pc = "record" /\ run' = IdleRun
      /\ \/ InsertRun("success", run.started) /\ UNCHANGED backupFaults
         \/ BackupDisturb /\ UNCHANGED runs
      /\ UNCHANGED <<instanceVars, clock, bucket, uploaded, file, rehearsal>>
  BY DEF RecordRun
<1>2. /\ EngineFits(run, bucket, db, instanceSealed, clock) /\ BucketFits(bucket) /\ RecordsFit(runs, bucket)
      /\ Surviving(uploaded, bucket) /\ backupFaults \in 0 .. BackupFaults
      /\ clock \in Nat /\ clock <= MaxClock
  BY BackupAssumption DEF BackupInv, InstanceFits
<1>3. EngineFits(run', bucket, db, instanceSealed, clock)
  BY <1>1, <1>2, IdleRunFits
<1>4. backupFaults' \in 0 .. BackupFaults
  BY <1>1, <1>2, FaultCounted
<1>5. RecordsFit(runs', bucket)
  <2>1. CASE InsertRun("success", run.started)
    <3>1. run.started \in 0 .. MaxClock /\ \E t \in StoredIn(bucket) : t >= run.started
      BY <1>1, <1>2, BackupAssumption DEF EngineFits
    <3> QED
      BY <1>2, <2>1, <3>1, RecordAdded
  <2>2. CASE UNCHANGED runs
    BY <1>2, <2>2
  <2> QED
    BY <1>1, <2>1, <2>2
<1>6. bucket' = bucket /\ uploaded' = uploaded
  BY <1>1
<1> QED
  BY <1>1, <1>2, <1>3, <1>4, <1>5, <1>6, EngineMoves

-----------------------------------------------------------------------------
(* Backup: the rehearsal and the disturbances.                             *)

LEMMA RehearsalMoves ==
    ASSUME BackupInv, RehearsalFits(rehearsal', bucket, db, instanceSealed),
           UNCHANGED <<instanceVars, clock, engineVars, file, backupFaults>>
    PROVE  BackupInv'
BY DEF BackupInv, instanceVars, engineVars

LEMMA IdleRehearsalFits ==
    ASSUME NEW b, NEW rows, NEW shut
    PROVE  RehearsalFits(IdleRehearsal, b, rows, shut)
<1>1. IdleRehearsal \in [pc : {"idle", "get", "done"}, key : 0 .. MaxClock] /\ IdleRehearsal.pc = "idle"
  BY BackupAssumption DEF IdleRehearsal
<1> QED
  BY <1>1 DEF RehearsalFits

LEMMA PickObjectKeeps ==
    ASSUME BackupInv, PickObject
    PROVE  BackupInv'
<1> DEFINE m == CHOOSE t \in Stored : \A u \in Stored : u <= t
<1>1. /\ ~instanceSealed /\ Stored # {} /\ rehearsal' = [pc |-> "get", key |-> m]
      /\ UNCHANGED <<instanceVars, clock, engineVars, file, backupFaults>>
  BY DEF PickObject
<1>2. m \in 1 .. MaxClock
  <2>1. Stored \subseteq 1 .. MaxClock /\ MaxClock \in Nat
    BY BackupAssumption DEF Stored
  <2>2. \E t \in Stored : \A u \in Stored : u <= t
    <3>1. Stored \subseteq 0 .. MaxClock
      BY <2>1
    <3> QED
      BY <1>1, <2>1, <3>1, NewestOf
  <2>3. m \in Stored
    BY <2>2
  <2> QED
    BY <2>1, <2>3
<1> HIDE DEF m
<1>3. RehearsalFits(rehearsal', bucket, db, instanceSealed)
  BY <1>1, <1>2, BackupAssumption DEF RehearsalFits
<1> QED
  BY <1>1, <1>3, RehearsalMoves

LEMMA RehearseKeeps ==
    ASSUME BackupInv, Rehearse
    PROVE  BackupInv'
<1>1. /\ rehearsal.pc = "get"
      /\ rehearsal' = IF bucket[rehearsal.key].is /\ Verified(bucket[rehearsal.key])
                      THEN [rehearsal EXCEPT !.pc = "done"] ELSE IdleRehearsal
      /\ UNCHANGED <<instanceVars, clock, engineVars, file, backupFaults>>
  BY DEF Rehearse
<1>2. RehearsalFits(rehearsal, bucket, db, instanceSealed)
  BY DEF BackupInv
<1>3. CASE rehearsal' = IdleRehearsal
  BY <1>1, <1>3, IdleRehearsalFits, RehearsalMoves
<1>4. CASE Verified(bucket[rehearsal.key]) /\ rehearsal' = [rehearsal EXCEPT !.pc = "done"]
  <2>1. /\ rehearsal' \in [pc : {"idle", "get", "done"}, key : 0 .. MaxClock] /\ rehearsal'.pc = "done"
        /\ rehearsal'.key = rehearsal.key
    BY <1>2, <1>4 DEF RehearsalFits
  <2>2. bucket[rehearsal.key].rows.schema = db.schema
    BY <1>4 DEF Verified
  <2>3. RehearsalFits(rehearsal', bucket, db, instanceSealed)
    BY <1>1, <1>2, <2>1, <2>2 DEF RehearsalFits
  <2> QED
    BY <1>1, <2>3, RehearsalMoves
<1> QED
  BY <1>1, <1>3, <1>4

LEMMA EndRehearsalKeeps ==
    ASSUME BackupInv, EndRehearsal
    PROVE  BackupInv'
BY IdleRehearsalFits, RehearsalMoves DEF EndRehearsal

LEMMA IdleBootFits ==
    ASSUME NEW rows, NEW n
    PROVE  BootFits(IdleBoot, rows, n)
BY DEF BootFits, IdleBoot

\* The process stops, with whatever becomes of the tables meanwhile.
LEMMA HaltKeeps ==
    ASSUME BackupInv, Halt, OriginFits(db'), runs' \in {runs, <<>>},
           UNCHANGED <<inits, clock, bucket, file, uploaded>>
    PROVE  BackupInv'
<1>1. /\ run' = IdleRun /\ bootstrap' = IdleBoot /\ rehearsal' = IdleRehearsal /\ instanceSealed' = TRUE
      /\ BackupDisturb
  BY DEF Halt
<1>2. InstanceFits(db', inits, TRUE, clock) /\ clock \in Nat
  BY BackupAssumption DEF BackupInv, InstanceFits
<1>3. RecordsFit(runs', bucket)
  <2>1. RecordsFit(<<>>, bucket)
    BY EmptySeq, BackupAssumption DEF RecordsFit
  <2> QED
    BY <2>1 DEF BackupInv
<1>4. /\ EngineFits(run', bucket, db', TRUE, clock) /\ BootFits(bootstrap', db', inits)
      /\ RehearsalFits(rehearsal', bucket, db', TRUE)
  BY <1>1, <1>2, IdleRunFits, IdleBootFits, IdleRehearsalFits
<1> QED
  BY <1>1, <1>2, <1>3, <1>4, FaultCounted DEF BackupInv

LEMMA BackupDisturbancesKeep ==
    ASSUME BackupInv, StopInstance \/ Upgrade \/ LoseDatabase
    PROVE  BackupInv'
<1>1. OriginFits(db) /\ db.schema \in 1 .. MaxVersion
  BY DEF BackupInv, InstanceFits, OriginFits, Row
<1>2. CASE StopInstance
  BY <1>1, <1>2, HaltKeeps DEF StopInstance
<1>3. CASE Upgrade
  <2>1. db' = [db EXCEPT !.schema = @ + 1] /\ db.schema < MaxVersion
    BY <1>3 DEF Upgrade
  <2>2. db.schema + 1 \in 1 .. MaxVersion
    BY <1>1, <2>1, BackupAssumption
  <2>3. OriginFits(db')
    BY <1>1, <2>1, <2>2 DEF OriginFits, Row
  <2> QED
    BY <1>3, <2>3, HaltKeeps DEF Upgrade
<1>4. CASE LoseDatabase
  BY <1>1, <1>4, EmptyFits, HaltKeeps DEF LoseDatabase
<1> QED
  BY <1>2, <1>3, <1>4

LEMMA PassSecondKeeps ==
    ASSUME BackupInv, PassSecond
    PROVE  BackupInv'
<1>1. /\ clock < MaxClock /\ clock' = clock + 1
      /\ db' = db /\ inits' = inits /\ instanceSealed' = instanceSealed /\ bootstrap' = bootstrap
      /\ bucket' = bucket /\ runs' = runs /\ run' = run /\ uploaded' = uploaded
      /\ file' = file /\ rehearsal' = rehearsal /\ backupFaults' = backupFaults
  BY DEF PassSecond, instanceVars, engineVars
<1>2. clock \in 1 .. MaxClock /\ EngineFits(run, bucket, db, instanceSealed, clock)
  BY DEF BackupInv, InstanceFits
<1>3. clock + 1 \in 1 .. MaxClock /\ 0 .. clock \subseteq 0 .. (clock + 1)
  BY <1>1, <1>2, BackupAssumption
<1>4. EngineFits(run, bucket, db, instanceSealed, clock + 1)
  BY <1>2, <1>3 DEF EngineFits
<1>5. InstanceFits(db, inits, instanceSealed, clock + 1)
  BY <1>3 DEF BackupInv, InstanceFits
<1> QED
  BY <1>1, <1>4, <1>5 DEF BackupInv

LEMMA StreamBackupKeeps ==
    ASSUME BackupInv, NEW cut \in 0 .. Groups, StreamBackup(cut)
    PROVE  BackupInv'
BY DumpFits DEF BackupInv, InstanceFits, StreamBackup, instanceVars, engineVars

LEMMA BackupStarts ==
    ASSUME BackupInit
    PROVE  BackupInv
<1>1. InstanceFits(db, inits, instanceSealed, clock) /\ clock \in Nat
  <2>1. 0 \in 0 .. MaxInits /\ 1 \in 1 .. MaxClock /\ TRUE \in BOOLEAN
    BY BackupAssumption
  <2> QED
    BY <2>1, EmptyFits DEF BackupInit, InstanceFits
<1>2. BucketFits(bucket) /\ ArtifactFits(file)
  <2>1. NoArtifact \in Artifact /\ ArtifactFits(NoArtifact)
    BY NoArtifactFits DEF WholeFits, ArtifactFits
  <2>2. bucket \in [1 .. MaxClock -> Artifact] /\ \A t \in 1 .. MaxClock : bucket[t] = NoArtifact
    BY <2>1 DEF BackupInit
  <2> QED
    BY <2>1, <2>2, NoArtifactFits DEF BackupInit, BucketFits
<1>3. RecordsFit(runs, bucket) /\ Surviving(uploaded, bucket)
  <2>1. runs \in Seq(RunRecord) /\ Len(runs) = 0
    BY EmptySeq DEF BackupInit
  <2> QED
    BY <2>1, BackupAssumption DEF BackupInit, RecordsFit, Surviving
<1>4. /\ EngineFits(run, bucket, db, instanceSealed, clock) /\ BootFits(bootstrap, db, inits)
      /\ RehearsalFits(rehearsal, bucket, db, instanceSealed)
  BY <1>1, IdleRunFits, IdleBootFits, IdleRehearsalFits DEF BackupInit
<1> QED
  <2>1. backupFaults \in 0 .. BackupFaults
    BY BackupAssumption DEF BackupInit
  <2> QED
    BY <1>1, <1>2, <1>3, <1>4, <2>1 DEF BackupInv

LEMMA BackupStepInv ==
    ASSUME BackupInv, [BackupNext]_backupVars
    PROVE  BackupInv'
<1>1. CASE Bootstrap
  BY <1>1, BeginInitKeeps, PutSealConfigKeeps, BootstrapAdminKeeps, CommitRestoreKeeps, BeginRestoreKeeps
  DEF Bootstrap
<1>2. CASE Engine
  BY <1>2, StartRunKeeps, WriteBackupKeeps, PutObjectKeeps, RunFailsKeeps, ListBackupsKeeps,
     DeleteObjectKeeps, PruneFailsKeeps, RecordRunKeeps DEF Engine
<1>3. CASE UnsealInstance \/ UseInstance \/ PassSecond \/ \E cut \in 0 .. Groups : StreamBackup(cut)
  BY <1>3, UnsealInstanceKeeps, UseInstanceKeeps, PassSecondKeeps, StreamBackupKeeps
<1>4. CASE PickObject \/ Rehearse \/ EndRehearsal
  BY <1>4, PickObjectKeeps, RehearseKeeps, EndRehearsalKeeps
<1>5. CASE StopInstance \/ Upgrade \/ LoseDatabase
  BY <1>5, BackupDisturbancesKeep
<1>6. CASE UNCHANGED backupVars
  BY <1>6 DEF backupVars, BackupInv
<1> QED
  BY <1>1, <1>2, <1>3, <1>4, <1>5, <1>6 DEF BackupNext

\* The Retention newest uploads survive every prune, cut short or not; a run recorded as a
\* success has its object, or a newer one; a rehearsal verifies what a restore would take; and
\* an init and a restore never build one instance together (Engine.run, prune, handleInit,
\* handleRestore), for any retention, history cap and number of disturbances.
THEOREM BackupsCountedOn == BackupSpec => []BackupsHold
<1>1. BackupInit => BackupInv
  BY BackupStarts
<1>2. BackupInv => BackupsHold
  <2> SUFFICES ASSUME BackupInv PROVE BackupsHold
    OBVIOUS
  <2>1. BackupTypeOK
    <3>1. /\ db \in Row /\ inits \in 0 .. MaxInits /\ clock \in 1 .. MaxClock /\ instanceSealed \in BOOLEAN
          /\ bucket \in [1 .. MaxClock -> Artifact] /\ file \in Artifact
      BY DEF BackupInv, InstanceFits, OriginFits, BucketFits, ArtifactFits
    <3>2. runs \in Seq(RunRecord) /\ Len(runs) <= HistoryCap
      BY DEF BackupInv, RecordsFit
    <3>3. run.pc \in Phase /\ run.started \in 0 .. clock
      BY DEF BackupInv, EngineFits
    <3>4. /\ bootstrap.mu \in {"free", "init", "restore"}
          /\ rehearsal \in [pc : {"idle", "get", "done"}, key : 0 .. MaxClock]
          /\ backupFaults \in 0 .. BackupFaults /\ uploaded \subseteq 1 .. MaxClock
      BY DEF BackupInv, BootFits, RehearsalFits, Surviving
    <3> QED
      BY <3>1, <3>2, <3>3, <3>4 DEF BackupTypeOK, RunRecord, Phase
  <2>2. NewestBackupsSurvive
    BY DEF BackupInv, Surviving, Newer, StoredIn, Stored, NewestBackupsSurvive
  <2>3. SuccessIsStored
    <3>1. DOMAIN runs = 1 .. Len(runs)
      BY LenProperties DEF BackupInv, RecordsFit
    <3> QED
      BY <3>1 DEF BackupInv, RecordsFit, StoredIn, Stored, SuccessIsStored
  <2>4. VerifiedWouldRestore
    <3> DEFINE a == bucket[rehearsal.key]
    <3> SUFFICES ASSUME rehearsal.pc = "done", a.is
                 PROVE  a.rows.schema = db.schema /\ Rows(a).sealBy # 0
      BY DEF VerifiedWouldRestore
    <3>1. rehearsal.key \in 1 .. MaxClock /\ a.rows.schema = db.schema
      BY DEF BackupInv, RehearsalFits
    <3>2. WholeFits(a)
      BY <3>1 DEF BackupInv, BucketFits
    <3> HIDE DEF a
    <3>3. a.cut = Groups /\ a.rows.sealBy # 0 /\ ArtifactFits(a)
      BY <3>2 DEF WholeFits
    <3> QED
      BY <3>1, <3>3, RowsFit DEF Groups
  <2>5. OneOrigin
    <3>1. PICK x \in {0, db.sealBy} : {db.sealBy, db.usersBy, db.projectBy} \ {0} \in {{}, {x}}
      BY DEF BackupInv, InstanceFits, OriginFits
    <3>2. Cardinality({}) = 0 /\ Cardinality({x}) = 1
      BY FS_EmptySet, FS_Singleton
    <3> QED
      BY <3>1, <3>2 DEF OneOrigin
  <2> QED
    BY <2>1, <2>2, <2>3, <2>4, <2>5 DEF BackupsHold
<1> QED
  BY <1>1, <1>2, BackupStepInv, PTL DEF BackupSpec

-----------------------------------------------------------------------------
(* Notification: the inductive invariant.                                  *)

Distinct(q) == \A i, j \in DOMAIN q : q[i] = q[j] => i = j

LogFits(l, pr, cur) ==
    /\ l \in Seq(Kinds \cup {Quiet}) /\ Len(l) \in 0 .. MaxEvents
    /\ pr \in 0 .. Len(l) /\ cur \in 0 .. Len(l)
ChannelsFit(ch) ==
    ch \in [Channels -> [row : {"none", "enabled", "disabled", "gone"}, events : SUBSET Kinds]]

\* A row of the outbox: there only while its channel is, with attempts left while it is
\* pending, and sent to nobody before it was there.
RowFits(ro, n, row) ==
    /\ ro \in [status : {"none", "pending", "delivered", "failed"}, attempts : 0 .. MaxAttempts]
    /\ n \in Nat
    /\ ro.status = "pending" => ro.attempts < MaxAttempts
    /\ ro.status # "none" => row \notin {"none", "gone"}
    /\ ro.status = "none" /\ row # "gone" => n = 0
    /\ ro.status = "delivered" => n > 0
OutboxFits(de, ar, ch) ==
    /\ de = [d \in Notices |-> de[d]] /\ ar = [d \in Notices |-> ar[d]]
    /\ \A d \in Notices : RowFits(de[d], ar[d], ch[d[1]].row)

QueueFits(q, de) ==
    /\ q \in Seq(Notices) /\ Distinct(q)
    /\ \A i \in 1 .. Len(q) : de[q[i]].status = "pending"

\* What a channel is owed it still subscribes to, unless its row is in the outbox; and it is
\* there once the cursor has passed the event.
OwedFits(ow, l, pr, cur, ch, de) ==
    /\ ow \subseteq Notices
    /\ \A d \in ow :
        /\ d[2] <= Len(l) /\ (d[2] > pr \/ d[2] <= cur)
        /\ \/ de[d].status # "none"
           \/ d[2] > cur /\ ch[d[1]].row = "enabled" /\ l[d[2]] \in ch[d[1]].events

PassShape(p) ==
    /\ p = [at |-> p.at, seqs |-> p.seqs, listed |-> p.listed, due |-> p.due, seen |-> p.seen]
    /\ p.at \in {"idle", "tailed", "listed", "queued", "delivering", "sent"}
    /\ p.seen = [c \in Channels |-> p.seen[c]]
\* The batch is every event after the cursor up to its last, and the listing has every
\* channel that is owed one of them.
BatchFits(p, ow, l, pr, cur, ch, de) ==
    /\ p.at \in {"tailed", "listed"} =>
        /\ p.seqs \subseteq 1 .. Len(l)
        /\ \A s \in p.seqs : \A t \in 1 .. s : t > pr /\ t > cur => t \in p.seqs
    /\ p.at = "listed" =>
        /\ p.listed = [c \in Channels |-> p.listed[c]]
        /\ \A c \in Channels : p.listed[c] # {} => ch[c].row # "none"
        /\ \A d \in ow : d[2] \in p.seqs /\ de[d].status = "none" => l[d[2]] \in p.listed[d[1]]
\* What the pass claimed is still to be settled by it, unless its channel has gone.
DueFits(p, de, ar, ch) ==
    p.at \in {"delivering", "sent"} =>
        /\ p.due \in Seq(Notices) /\ Distinct(p.due) /\ p.due # <<>>
        /\ \A i \in 1 .. Len(p.due) :
            LET d == p.due[i] IN
            de[d].status = "pending" \/ (de[d].status = "none" /\ ch[d[1]].row = "gone")
        /\ p.at = "sent" /\ de[p.due[1]].status # "none" => ar[p.due[1]] > 0

Underway(p, d) == IF p.at = "sent" /\ p.due[1] = d THEN 1 ELSE 0
RepeatsFit(p, de, ar, nf) ==
    \A d \in Notices : de[d].status # "none" => ar[d] <= de[d].attempts + nf + Underway(p, d)

NotifyInv ==
    /\ LogFits(log, pruned, cursor) /\ ChannelsFit(channel)
    /\ OutboxFits(delivery, arrived, channel) /\ QueueFits(queue, delivery)
    /\ OwedFits(owed, log, pruned, cursor, channel, delivery)
    /\ PassShape(pass)
    /\ BatchFits(pass, owed, log, pruned, cursor, channel, delivery)
    /\ DueFits(pass, delivery, arrived, channel)
    /\ RepeatsFit(pass, delivery, arrived, notifyFaults)
    /\ notifyFaults \in 0 .. NotifyFaults /\ edits \in 0 .. MaxEdits

-----------------------------------------------------------------------------
(* Notification: the queue without some of its entries.                    *)

LEMMA WithoutFits ==
    ASSUME NEW S, NEW q \in Seq(S), Distinct(q), NEW G
    PROVE  /\ Without(q, G) \in Seq(S) /\ Distinct(Without(q, G))
           /\ \A n \in 1 .. Len(Without(q, G)) :
                Without(q, G)[n] \notin G /\ \E i \in 1 .. Len(q) : Without(q, G)[n] = q[i]
<1> DEFINE K == {i \in DOMAIN q : q[i] \notin G}
           rank(i) == Cardinality({j \in K : j <= i})
           N == Cardinality(K)
           position(n) == CHOOSE i \in K : rank(i) = n
           f == [i \in K |-> rank(i)]
<1>1. /\ DOMAIN q = 1 .. Len(q) /\ Len(q) \in Nat /\ \A i \in 1 .. Len(q) : q[i] \in S
      /\ K \subseteq 1 .. Len(q)
  BY LenProperties
<1>2. IsFiniteSet(K) /\ N \in Nat
  <2>1. IsFiniteSet(1 .. Len(q))
    BY <1>1, FS_Interval
  <2> QED
    BY <1>1, <2>1, FS_Subset, FS_CardinalityType
<1>3. Without(q, G) = [n \in 1 .. N |-> q[position(n)]]
  BY DEF Without
<1> HIDE DEF K
<1>4. \A i \in K : IsFiniteSet({j \in K : j <= i}) /\ rank(i) \in 1 .. N
  <2> TAKE i \in K
  <2>1. {j \in K : j <= i} \subseteq K /\ i \in {j \in K : j <= i}
    BY <1>1
  <2>2. /\ IsFiniteSet({j \in K : j <= i}) /\ rank(i) \in Nat /\ rank(i) <= N
    BY <1>2, <2>1, FS_Subset, FS_CardinalityType
  <2>3. rank(i) # 0
    BY <2>1, <2>2, FS_EmptySet
  <2> QED
    BY <1>2, <2>2, <2>3
<1>5. \A i, j \in K : i < j => rank(i) < rank(j)
  <2> SUFFICES ASSUME NEW i \in K, NEW j \in K, i < j PROVE rank(i) < rank(j)
    OBVIOUS
  <2>1. {x \in K : x <= i} \subseteq {x \in K : x <= j}
    <3>1. \A x \in K : x \in Int
      BY <1>1
    <3> QED
      BY <3>1
  <2>2. j \in {x \in K : x <= j} /\ j \notin {x \in K : x <= i}
    BY <1>1
  <2>3. rank(i) <= rank(j) /\ rank(i) # rank(j)
    BY <1>4, <2>1, <2>2, FS_Subset
  <2>4. rank(i) \in 1 .. N /\ rank(j) \in 1 .. N /\ N \in Nat
    BY <1>2, <1>4
  <2> HIDE DEF rank, N
  <2> QED
    BY <2>3, <2>4
<1>6. f \in Injection(K, 1 .. N)
  <2>1. f \in [K -> 1 .. N]
    BY <1>4
  <2>2. \A i, j \in K : f[i] = f[j] => i = j
    <3> SUFFICES ASSUME NEW i \in K, NEW j \in K, rank(i) = rank(j) PROVE i = j
      OBVIOUS
    <3>1. ~ (i < j) /\ ~ (j < i)
      <4>1. rank(i) \in 1 .. N /\ rank(j) \in 1 .. N /\ N \in Nat
        BY <1>2, <1>4
      <4> HIDE DEF rank, N
      <4> QED
        BY <1>5, <4>1
    <3> QED
      BY <1>1, <3>1
  <2> QED
    BY <2>1, <2>2 DEF Injection, IsInjective
<1>7. f \in Surjection(K, 1 .. N)
  <2>1. IsFiniteSet(1 .. N) /\ Cardinality(1 .. N) = N
    BY <1>2, FS_Interval
  <2> HIDE DEF f
  <2> QED
    BY <1>6, <2>1, FS_Injection
<1>8. \A n \in 1 .. N : position(n) \in K /\ rank(position(n)) = n
  <2> SUFFICES ASSUME NEW n \in 1 .. N PROVE \E i \in K : rank(i) = n
    OBVIOUS
  <2>1. \E i \in K : f[i] = n
    <3> HIDE DEF f
    <3> QED
      BY <1>7 DEF Surjection
  <2> QED
    BY <2>1
<1> HIDE DEF rank, position, N
<1> DEFINE w == [n \in 1 .. N |-> q[position(n)]]
<1>9. \A n \in 1 .. N : w[n] \in S /\ w[n] \notin G /\ \E i \in 1 .. Len(q) : w[n] = q[i]
  BY <1>1, <1>8 DEF K
<1>10. w \in Seq(S) /\ Len(w) = N /\ DOMAIN w = 1 .. N
  BY <1>2, <1>9
<1>11. Distinct(w)
  <2> SUFFICES ASSUME NEW m \in 1 .. N, NEW n \in 1 .. N, w[m] = w[n] PROVE m = n
    BY <1>10 DEF Distinct
  <2>1. position(m) = position(n)
    BY <1>1, <1>8 DEF Distinct
  <2> QED
    BY <1>8, <2>1
<1> HIDE DEF w
<1> QED
  BY <1>3, <1>9, <1>10, <1>11 DEF w

\* The first so many of them.
LEMMA PrefixFits ==
    ASSUME NEW S, NEW q \in Seq(S), Distinct(q), NEW n \in 0 .. Len(q)
    PROVE  /\ SubSeq(q, 1, n) \in Seq(S) /\ Distinct(SubSeq(q, 1, n)) /\ Len(SubSeq(q, 1, n)) = n
           /\ \A i \in 1 .. n : SubSeq(q, 1, n)[i] = q[i]
<1>1. Len(q) \in Nat /\ DOMAIN q = 1 .. Len(q) /\ \A i \in 1 .. Len(q) : q[i] \in S
  BY LenProperties
<1>2. n \in Nat /\ n <= Len(q)
  BY <1>1
<1> DEFINE p == SubSeq(q, 1, n)
<1>3. p \in Seq(S) /\ Len(p) = n /\ \A i \in 1 .. n : p[i] = q[i]
  <2>1. 1 \in Int /\ n \in Int /\ \A i \in 1 .. n : q[i] \in S
    BY <1>1, <1>2
  <2>2. /\ p \in Seq(S) /\ Len(p) = IF 1 <= n THEN n - 1 + 1 ELSE 0
        /\ \A i \in 1 .. n - 1 + 1 : p[i] = q[1 + i - 1]
    BY <2>1, SubSeqProperties
  <2> HIDE DEF p
  <2> QED
    BY <1>2, <2>2
<1> HIDE DEF p
<1>4. Distinct(p)
  <2>1. DOMAIN p = 1 .. n
    BY <1>3, LenProperties
  <2> QED
    BY <1>1, <1>2, <1>3, <2>1 DEF Distinct
<1> QED
  BY <1>3, <1>4 DEF p

LEMMA RestFits ==
    ASSUME NEW S, NEW q \in Seq(S), Distinct(q), q # <<>>
    PROVE  /\ Tail(q) \in Seq(S) /\ Distinct(Tail(q)) /\ Head(q) = q[1] /\ q[1] \in S
           /\ \A i \in 1 .. Len(Tail(q)) : i + 1 \in 1 .. Len(q) /\ Tail(q)[i] = q[i + 1] /\ Tail(q)[i] # q[1]
           /\ Len(q) \in Nat \ {0} /\ (Len(q) # 1 => Tail(q) # <<>>)
<1>1. Len(q) \in Nat /\ DOMAIN q = 1 .. Len(q) /\ Len(q) # 0
  BY LenProperties, EmptySeq
<1>2. /\ Tail(q) \in Seq(S) /\ Len(Tail(q)) = Len(q) - 1
      /\ \A i \in 1 .. Len(Tail(q)) : Tail(q)[i] = q[i + 1]
  BY HeadTailProperties
<1>3. DOMAIN Tail(q) = 1 .. Len(Tail(q))
  BY <1>2, LenProperties
<1>4. Distinct(Tail(q))
  BY <1>1, <1>2, <1>3 DEF Distinct
<1>5. \A i \in 1 .. Len(Tail(q)) : i + 1 \in 1 .. Len(q) /\ q[i + 1] # q[1]
  BY <1>1, <1>2 DEF Distinct
<1>6. Len(q) # 1 => Tail(q) # <<>>
  <2>1. Len(q) # 1 => Len(Tail(q)) # 0
    BY <1>1, <1>2
  <2> QED
    BY <2>1, EmptySeq
<1>7. Head(q) = q[1] /\ q[1] \in S
  BY <1>1, LenProperties
<1> QED
  BY <1>1, <1>2, <1>4, <1>5, <1>6, <1>7

LEMMA JoinedFits ==
    ASSUME NEW S, NEW q \in Seq(S), Distinct(q), NEW p \in Seq(S), Distinct(p),
           \A i \in 1 .. Len(q), j \in 1 .. Len(p) : q[i] # p[j]
    PROVE  /\ q \o p \in Seq(S) /\ Distinct(q \o p)
           /\ \A n \in 1 .. Len(q \o p) : \/ \E i \in 1 .. Len(q) : (q \o p)[n] = q[i]
                                          \/ \E j \in 1 .. Len(p) : (q \o p)[n] = p[j]
<1> DEFINE r == q \o p
<1>1. /\ r \in Seq(S) /\ Len(r) = Len(q) + Len(p)
      /\ \A i \in 1 .. Len(q) + Len(p) : r[i] = IF i <= Len(q) THEN q[i] ELSE p[i - Len(q)]
  BY ConcatProperties
<1>2. /\ DOMAIN r = 1 .. Len(r) /\ DOMAIN q = 1 .. Len(q) /\ DOMAIN p = 1 .. Len(p)
      /\ Len(q) \in Nat /\ Len(p) \in Nat
  BY <1>1, LenProperties
<1> HIDE DEF r
<1>3. \A n \in 1 .. Len(r) : \/ n \in 1 .. Len(q) /\ r[n] = q[n]
                             \/ n - Len(q) \in 1 .. Len(p) /\ r[n] = p[n - Len(q)]
  BY <1>1, <1>2
<1>4. Distinct(r)
  <2> SUFFICES ASSUME NEW m \in 1 .. Len(r), NEW n \in 1 .. Len(r), r[m] = r[n] PROVE m = n
    BY <1>2 DEF Distinct
  <2>1. CASE m \in 1 .. Len(q) /\ n \in 1 .. Len(q) /\ r[m] = q[m] /\ r[n] = q[n]
    BY <1>2, <2>1 DEF Distinct
  <2>2. CASE /\ m - Len(q) \in 1 .. Len(p) /\ n - Len(q) \in 1 .. Len(p)
             /\ r[m] = p[m - Len(q)] /\ r[n] = p[n - Len(q)]
    <3>1. m - Len(q) = n - Len(q)
      BY <1>2, <2>2 DEF Distinct
    <3> QED
      BY <1>1, <1>2, <3>1
  <2> QED
    BY <1>3, <2>1, <2>2
<1> QED
  BY <1>1, <1>3, <1>4 DEF r

LEMMA AppendedFits ==
    ASSUME NEW S, NEW q \in Seq(S), Distinct(q), NEW d \in S, \A i \in 1 .. Len(q) : q[i] # d
    PROVE  /\ Append(q, d) \in Seq(S) /\ Distinct(Append(q, d))
           /\ \A n \in 1 .. Len(Append(q, d)) : Append(q, d)[n] = d \/ \E i \in 1 .. Len(q) : Append(q, d)[n] = q[i]
<1> DEFINE r == Append(q, d)
<1>1. /\ r \in Seq(S) /\ Len(r) = Len(q) + 1 /\ \A i \in 1 .. Len(q) : r[i] = q[i]
      /\ r[Len(q) + 1] = d
  BY AppendProperties
<1>2. DOMAIN r = 1 .. Len(r) /\ DOMAIN q = 1 .. Len(q) /\ Len(q) \in Nat
  BY <1>1, LenProperties
<1> HIDE DEF r
<1>3. \A n \in 1 .. Len(r) : n \in 1 .. Len(q) \/ n = Len(q) + 1
  BY <1>1, <1>2
<1>4. Distinct(r)
  BY <1>1, <1>2, <1>3 DEF Distinct
<1> QED
  BY <1>1, <1>3, <1>4 DEF r

-----------------------------------------------------------------------------
(* Notification: the dispatcher's pass over the rows it claimed.           *)

LEMMA PassMoves ==
    ASSUME NotifyInv, notifyFaults' \in notifyFaults .. NotifyFaults, PassShape(pass'),
           BatchFits(pass', owed, log, pruned, cursor, channel, delivery),
           DueFits(pass', delivery, arrived, channel),
           RepeatsFit(pass', delivery, arrived, notifyFaults'),
           UNCHANGED <<log, pruned, channel, cursor, edits, owed, delivery, queue, arrived>>
    PROVE  NotifyInv'
<1>1. notifyFaults' \in 0 .. NotifyFaults
  BY NotificationAssumption DEF NotifyInv
<1> QED
  BY <1>1 DEF NotifyInv

\* A pass that has settled nothing yet, or settles nothing more.
LEMMA QuietPass ==
    ASSUME NotifyInv, PassShape(pass'), pass'.at \in {"idle", "queued"},
           \/ pass.at # "sent" /\ notifyFaults' \in notifyFaults .. NotifyFaults
           \/ notifyFaults' = notifyFaults + 1 /\ notifyFaults' <= NotifyFaults,
           UNCHANGED <<log, pruned, channel, cursor, edits, owed, delivery, queue, arrived>>
    PROVE  NotifyInv'
<1>1. notifyFaults \in Nat /\ NotifyFaults \in Nat /\ OutboxFits(delivery, arrived, channel)
      /\ RepeatsFit(pass, delivery, arrived, notifyFaults)
  BY NotificationAssumption DEF NotifyInv
<1>2. notifyFaults' \in notifyFaults .. NotifyFaults
  BY <1>1
<1>3. BatchFits(pass', owed, log, pruned, cursor, channel, delivery) /\ DueFits(pass', delivery, arrived, channel)
  BY DEF BatchFits, DueFits
<1>4. RepeatsFit(pass', delivery, arrived, notifyFaults')
  <2> SUFFICES ASSUME NEW d \in Notices, delivery[d].status # "none"
               PROVE  arrived[d] <= delivery[d].attempts + notifyFaults'
    BY <1>1 DEF RepeatsFit, Underway, OutboxFits, RowFits
  <2>1. arrived[d] \in Nat /\ delivery[d].attempts \in Nat
    BY <1>1, NotificationAssumption DEF OutboxFits, RowFits
  <2>2. arrived[d] <= delivery[d].attempts + notifyFaults + Underway(pass, d)
    BY <1>1 DEF RepeatsFit
  <2>3. Underway(pass, d) \in {0, 1} /\ (pass.at # "sent" => Underway(pass, d) = 0)
    BY DEF Underway
  <2> HIDE DEF Underway
  <2> QED
    BY <1>1, <1>2, <2>1, <2>2, <2>3
<1> QED
  BY <1>2, <1>3, <1>4, PassMoves

LEMMA IdlePassFits == PassShape(IdlePass) /\ IdlePass.at = "idle"
BY DEF PassShape, IdlePass

LEMMA NotifyTickKeeps ==
    ASSUME NotifyInv, NotifyTick
    PROVE  NotifyInv'
<1> DEFINE batch == {s \in Unscanned : Cardinality({t \in Unscanned : t < s}) < FanoutBatch}
<1>1. /\ pass.at = "idle"
      /\ pass' = [IdlePass EXCEPT !.at = IF batch = {} THEN "queued" ELSE "tailed", !.seqs = batch]
      /\ UNCHANGED <<log, pruned, channel, cursor, edits, owed, delivery, queue, arrived, notifyFaults>>
  BY DEF NotifyTick, outboxVars
<1>2. /\ notifyFaults \in 0 .. NotifyFaults /\ NotifyFaults \in Nat
      /\ RepeatsFit(pass, delivery, arrived, notifyFaults) /\ LogFits(log, pruned, cursor)
      /\ OutboxFits(delivery, arrived, channel)
  BY NotificationAssumption DEF NotifyInv
<1>3. batch \subseteq 1 .. Len(log)
  BY <1>2 DEF Unscanned, LogFits
<1>4. ASSUME NEW s \in batch, NEW t \in 1 .. s, t > pruned, t > cursor
      PROVE  t \in batch
  <2>1. /\ Unscanned \subseteq 1 .. Len(log) /\ Len(log) \in Nat /\ pruned \in Nat
        /\ s \in Unscanned /\ Cardinality({x \in Unscanned : x < s}) < FanoutBatch
    BY <1>2, <1>4, NotificationAssumption DEF Unscanned, LogFits
  <2>2. s \in Int /\ t \in Int /\ t <= s /\ t \in Unscanned /\ \A x \in Unscanned : x \in Int
    BY <1>4, <2>1 DEF Unscanned
  <2>3. {x \in Unscanned : x < t} \subseteq {x \in Unscanned : x < s}
    <3> SUFFICES ASSUME NEW x \in Unscanned, x < t PROVE x < s
      OBVIOUS
    <3>1. x \in Int
      BY <2>2
    <3> HIDE DEF batch
    <3> QED
      BY <2>2, <3>1
  <2>4. IsFiniteSet({x \in Unscanned : x < s})
    <3>1. IsFiniteSet(1 .. Len(log))
      BY <2>1, FS_Interval
    <3> QED
      BY <2>1, <3>1, FS_Subset
  <2>5. /\ Cardinality({x \in Unscanned : x < t}) <= Cardinality({x \in Unscanned : x < s})
        /\ Cardinality({x \in Unscanned : x < t}) \in Nat /\ Cardinality({x \in Unscanned : x < s}) \in Nat
    BY <2>3, <2>4, FS_Subset, FS_CardinalityType
  <2>6. Cardinality({x \in Unscanned : x < t}) < FanoutBatch
    BY <2>1, <2>5, NotificationAssumption
  <2> QED
    BY <2>2, <2>6
<1> DEFINE at == IF batch = {} THEN "queued" ELSE "tailed"
<1>5. pass' = [at |-> at, seqs |-> batch, listed |-> [c \in Channels |-> {}], due |-> <<>>,
               seen |-> [c \in Channels |-> {}]]
  BY <1>1 DEF IdlePass
<1>6. at \in {"queued", "tailed"}
  OBVIOUS
<1> HIDE DEF batch, at
<1>7. PassShape(pass') /\ pass'.at = at /\ pass'.seqs = batch
  BY <1>5, <1>6 DEF PassShape
<1>8. /\ BatchFits(pass', owed, log, pruned, cursor, channel, delivery)
      /\ DueFits(pass', delivery, arrived, channel)
  BY <1>3, <1>4, <1>6, <1>7 DEF BatchFits, DueFits
<1>9. RepeatsFit(pass', delivery, arrived, notifyFaults')
  BY <1>1, <1>2, <1>6, <1>7 DEF RepeatsFit, Underway
<1> QED
  BY <1>1, <1>2, <1>7, <1>8, <1>9, PassMoves

LEMMA ListEnabledChannelsKeeps ==
    ASSUME NotifyInv, ListEnabledChannels
    PROVE  NotifyInv'
<1> DEFINE ls == [c \in Channels |-> IF channel[c].row = "enabled" THEN channel[c].events ELSE {}]
<1>1. /\ pass.at = "tailed" /\ pass' = [pass EXCEPT !.at = "listed", !.listed = ls]
      /\ UNCHANGED <<log, pruned, channel, cursor, edits, owed, delivery, queue, arrived, notifyFaults>>
  BY DEF ListEnabledChannels, outboxVars
<1>2. /\ notifyFaults \in 0 .. NotifyFaults /\ NotifyFaults \in Nat /\ PassShape(pass)
      /\ RepeatsFit(pass, delivery, arrived, notifyFaults)
      /\ BatchFits(pass, owed, log, pruned, cursor, channel, delivery)
      /\ OwedFits(owed, log, pruned, cursor, channel, delivery)
  BY NotificationAssumption DEF NotifyInv
<1>3. pass' = [at |-> "listed", seqs |-> pass.seqs, listed |-> ls, due |-> pass.due, seen |-> pass.seen]
  BY <1>1, <1>2 DEF PassShape
<1>4. /\ ls = [c \in Channels |-> ls[c]]
      /\ \A c \in Channels : ls[c] = IF channel[c].row = "enabled" THEN channel[c].events ELSE {}
  OBVIOUS
<1> HIDE DEF ls
<1>5. PassShape(pass')
  BY <1>2, <1>3 DEF PassShape
<1>6. BatchFits(pass', owed, log, pruned, cursor, channel, delivery)
  <2>1. /\ pass.seqs \subseteq 1 .. Len(log)
        /\ \A s \in pass.seqs : \A t \in 1 .. s : t > pruned /\ t > cursor => t \in pass.seqs
    BY <1>1, <1>2 DEF BatchFits
  <2>2. \A c \in Channels : ls[c] # {} => channel[c].row # "none"
    BY <1>4
  <2>3. \A d \in owed : d[2] \in pass.seqs /\ delivery[d].status = "none" => log[d[2]] \in ls[d[1]]
    <3>1. \A d \in owed : d[1] \in Channels
      BY <1>2 DEF OwedFits, Notices
    <3> QED
      BY <1>2, <1>4, <3>1 DEF OwedFits
  <2> QED
    BY <1>3, <1>4, <2>1, <2>2, <2>3 DEF BatchFits
<1>7. DueFits(pass', delivery, arrived, channel) /\ RepeatsFit(pass', delivery, arrived, notifyFaults')
  BY <1>1, <1>2, <1>3 DEF DueFits, RepeatsFit, Underway
<1> QED
  BY <1>1, <1>2, <1>5, <1>6, <1>7, PassMoves

LEMMA ClaimDueDeliveriesKeeps ==
    ASSUME NotifyInv, ClaimDueDeliveries
    PROVE  NotifyInv'
<1> DEFINE n == IF Len(queue) < DeliverBatch THEN Len(queue) ELSE DeliverBatch
           due == SubSeq(queue, 1, n)
           at == IF due = <<>> THEN "idle" ELSE "delivering"
<1>1. /\ pass.at = "queued" /\ pass' = [pass EXCEPT !.at = at, !.due = due]
      /\ UNCHANGED <<log, pruned, channel, cursor, edits, owed, delivery, queue, arrived, notifyFaults>>
  BY DEF ClaimDueDeliveries, outboxVars
<1>2. /\ notifyFaults \in 0 .. NotifyFaults /\ NotifyFaults \in Nat /\ PassShape(pass)
      /\ RepeatsFit(pass, delivery, arrived, notifyFaults) /\ QueueFits(queue, delivery)
  BY NotificationAssumption DEF NotifyInv
<1>3. n \in 0 .. Len(queue) /\ Len(queue) \in Nat
  <2>1. Len(queue) \in Nat
    BY <1>2, LenProperties DEF QueueFits
  <2> QED
    BY <2>1, NotificationAssumption
<1>4. pass' = [at |-> at, seqs |-> pass.seqs, listed |-> pass.listed, due |-> due, seen |-> pass.seen]
  BY <1>1, <1>2 DEF PassShape
<1> HIDE DEF n
<1>5. due \in Seq(Notices) /\ Distinct(due) /\ \A i \in 1 .. Len(due) : delivery[due[i]].status = "pending"
  <2>1. /\ due \in Seq(Notices) /\ Distinct(due) /\ Len(due) = n
        /\ \A i \in 1 .. n : due[i] = queue[i]
    BY <1>2, <1>3, PrefixFits DEF QueueFits
  <2> HIDE DEF due
  <2> QED
    BY <1>2, <1>3, <2>1 DEF QueueFits
<1>6. at \in {"idle", "delivering"} /\ (at = "delivering" => due # <<>>)
  OBVIOUS
<1> HIDE DEF due, at
<1>7. PassShape(pass') /\ BatchFits(pass', owed, log, pruned, cursor, channel, delivery)
  BY <1>2, <1>4, <1>6 DEF PassShape, BatchFits
<1>8. DueFits(pass', delivery, arrived, channel)
  BY <1>4, <1>5, <1>6 DEF DueFits
<1>9. RepeatsFit(pass', delivery, arrived, notifyFaults')
  BY <1>1, <1>2, <1>4, <1>6 DEF RepeatsFit, Underway
<1> QED
  BY <1>1, <1>2, <1>7, <1>8, <1>9, PassMoves

\* The pass goes on to its next row, or is over.
MovesOn ==
    IF Len(pass.due) = 1 THEN pass' = IdlePass
    ELSE PassShape(pass') /\ pass'.at = "delivering" /\ pass'.due = Tail(pass.due)

LEMMA NextDueMovesOn ==
    ASSUME PassShape(pass), NextDue
    PROVE  MovesOn
<1>1. CASE Len(pass.due) = 1
  BY <1>1 DEF NextDue, MovesOn
<1>2. CASE Len(pass.due) # 1
  <2>1. pass' = [at |-> "delivering", seqs |-> pass.seqs, listed |-> pass.listed, due |-> Tail(pass.due),
                 seen |-> pass.seen]
    BY <1>2 DEF NextDue, PassShape
  <2> QED
    BY <1>2, <2>1 DEF MovesOn, PassShape
<1> QED
  BY <1>1, <1>2

LEMMA CurrentFits ==
    ASSUME NotifyInv, pass.at \in {"delivering", "sent"}
    PROVE  /\ Current = pass.due[1] /\ Current \in Notices /\ PassShape(pass) /\ DueFits(pass, delivery, arrived, channel)
           /\ \/ delivery[Current].status = "pending"
              \/ delivery[Current].status = "none" /\ channel[Current[1]].row = "gone"
           /\ \A i \in 1 .. Len(Tail(pass.due)) :
                i + 1 \in 1 .. Len(pass.due) /\ Tail(pass.due)[i] = pass.due[i + 1] /\ Tail(pass.due)[i] # Current
           /\ Tail(pass.due) \in Seq(Notices) /\ Distinct(Tail(pass.due))
           /\ Len(pass.due) # 1 => Tail(pass.due) # <<>>
<1>1. DueFits(pass, delivery, arrived, channel) /\ PassShape(pass)
  BY DEF NotifyInv
<1>2. pass.due \in Seq(Notices) /\ Distinct(pass.due) /\ pass.due # <<>>
  BY <1>1 DEF DueFits
<1>3. 1 \in 1 .. Len(pass.due) /\ Current = pass.due[1] /\ Current \in Notices
  BY <1>2, RestFits DEF Current
<1> QED
  BY <1>1, <1>2, <1>3, RestFits DEF DueFits

\* The rows still due after the one at hand, when only its row has changed.
LEMMA RestStaysDue ==
    ASSUME NotifyInv, pass.at \in {"delivering", "sent"}, MovesOn, NEW de, NEW ar,
           \A d \in Notices \ {Current} : de[d] = delivery[d]
    PROVE  /\ PassShape(pass') /\ pass'.at \in {"idle", "delivering"}
           /\ DueFits(pass', de, ar, channel)
<1>1. CASE Len(pass.due) = 1
  BY <1>1, IdlePassFits DEF MovesOn, DueFits
<1>2. CASE Len(pass.due) # 1
  <2>1. PassShape(pass') /\ pass'.at = "delivering" /\ pass'.due = Tail(pass.due)
    BY <1>2 DEF MovesOn
  <2>2. ASSUME NEW i \in 1 .. Len(Tail(pass.due))
        PROVE  LET d == Tail(pass.due)[i] IN
               de[d].status = "pending" \/ (de[d].status = "none" /\ channel[d[1]].row = "gone")
    <3>1. Tail(pass.due)[i] \in Notices \ {Current}
      <4>1. Tail(pass.due)[i] \in Notices
        BY CurrentFits, LenProperties
      <4> QED
        BY <4>1, CurrentFits
    <3> QED
      BY <3>1, CurrentFits DEF DueFits
  <2> QED
    BY <1>2, <2>1, <2>2, CurrentFits DEF DueFits
<1> QED
  BY <1>1, <1>2

\* A row is settled, having been sent or not.
LEMMA SettleKeeps ==
    ASSUME NotifyInv, pass.at \in {"delivering", "sent"}, MovesOn,
           NEW status \in {"pending", "delivered", "failed"}, Settle(Current, status),
           status = "pending" => delivery[Current].attempts + 1 < MaxAttempts,
           status = "delivered" => pass.at = "sent",
           \/ UNCHANGED arrived
           \/ pass.at = "delivering" /\ arrived' = [arrived EXCEPT ![Current] = @ + 1],
           UNCHANGED <<outboxVars, notifyFaults>>
    PROVE  NotifyInv'
<1> DEFINE d == Current
           row == delivery[d]
<1>1. /\ d = pass.due[1] /\ d \in Notices /\ row.status \in {"pending", "none"}
      /\ row.status = "none" => channel[d[1]].row = "gone"
      /\ DueFits(pass, delivery, arrived, channel)
  BY CurrentFits
<1>2. /\ OutboxFits(delivery, arrived, channel) /\ QueueFits(queue, delivery)
      /\ OwedFits(owed, log, pruned, cursor, channel, delivery)
      /\ RepeatsFit(pass, delivery, arrived, notifyFaults) /\ notifyFaults \in Nat
  BY NotificationAssumption DEF NotifyInv
<1>3. /\ delivery' = (IF row.status = "none" THEN delivery
                      ELSE [delivery EXCEPT ![d] = [status |-> status, attempts |-> row.attempts + 1]])
      /\ queue' = Without(queue, {d})
      /\ UNCHANGED <<log, pruned, channel, cursor, krSealed, edits, owed, notifyFaults>>
  BY DEF Settle, outboxVars
<1> HIDE DEF d, row
<1>4. /\ delivery' = [e \in Notices |-> delivery'[e]]
      /\ \A e \in Notices : delivery'[e] = IF e = d /\ row.status # "none"
                                           THEN [status |-> status, attempts |-> row.attempts + 1]
                                           ELSE delivery[e]
  BY <1>1, <1>2, <1>3 DEF OutboxFits, d, row
<1>5. /\ arrived' = [e \in Notices |-> arrived'[e]]
      /\ \A e \in Notices : e # d => arrived'[e] = arrived[e]
      /\ arrived'[d] = arrived[d] \/ (pass.at = "delivering" /\ arrived'[d] = arrived[d] + 1)
  BY <1>1, <1>2 DEF OutboxFits, d
<1>6. /\ row = delivery[d] /\ RowFits(row, arrived[d], channel[d[1]].row)
      /\ arrived[d] \in Nat /\ row.attempts \in Nat
  BY <1>1, <1>2, NotificationAssumption DEF OutboxFits, RowFits, row, d
<1>7. OutboxFits(delivery', arrived', channel)
  <2>1. ASSUME row.status = "pending"
        PROVE  RowFits(delivery'[d], arrived'[d], channel[d[1]].row)
    <3>1. delivery'[d].status = status /\ delivery'[d].attempts = row.attempts + 1
      BY <1>1, <1>4, <2>1
    <3>2. row.attempts + 1 \in 0 .. MaxAttempts /\ arrived'[d] \in Nat
      BY <1>5, <1>6, <2>1, NotificationAssumption DEF RowFits
    <3>3. status = "delivered" => arrived'[d] > 0
      BY <1>1, <1>5, <1>6, <2>1 DEF DueFits, row, d
    <3>4. channel[d[1]].row \notin {"none", "gone"}
      BY <1>6, <2>1 DEF RowFits
    <3>5. status = "pending" => row.attempts + 1 < MaxAttempts
      BY DEF row, d
    <3>6. delivery'[d] = [status |-> status, attempts |-> row.attempts + 1]
      BY <1>1, <1>4, <2>1
    <3> QED
      BY <3>1, <3>2, <3>3, <3>4, <3>5, <3>6 DEF RowFits
  <2>2. ASSUME row.status = "none"
        PROVE  RowFits(delivery'[d], arrived'[d], channel[d[1]].row)
    <3>1. delivery'[d] = row /\ channel[d[1]].row = "gone" /\ arrived'[d] \in Nat
      BY <1>1, <1>4, <1>5, <1>6, <2>2
    <3> QED
      BY <1>6, <2>2, <3>1 DEF RowFits
  <2>3. \A e \in Notices : RowFits(delivery'[e], arrived'[e], channel[e[1]].row)
    BY <1>1, <1>2, <1>4, <1>5, <2>1, <2>2 DEF OutboxFits
  <2> QED
    BY <1>4, <1>5, <2>3 DEF OutboxFits
<1>8. QueueFits(queue', delivery')
  <2>1. /\ queue' \in Seq(Notices) /\ Distinct(queue')
        /\ \A n \in 1 .. Len(queue') : queue'[n] \notin {d} /\ \E i \in 1 .. Len(queue) : queue'[n] = queue[i]
    <3>1. queue \in Seq(Notices) /\ Distinct(queue)
      BY <1>2 DEF QueueFits
    <3> DEFINE G == {d}
    <3>2. queue' = Without(queue, G)
      BY <1>3
    <3> HIDE DEF G
    <3>3. /\ queue' \in Seq(Notices) /\ Distinct(queue')
          /\ \A n \in 1 .. Len(queue') : queue'[n] \notin G /\ \E i \in 1 .. Len(queue) : queue'[n] = queue[i]
      BY <3>1, <3>2, WithoutFits
    <3> QED
      BY <3>3 DEF G
  <2>2. \A n \in 1 .. Len(queue') : queue'[n] \in Notices
    BY <2>1, LenProperties
  <2> QED
    BY <1>2, <1>4, <2>1, <2>2 DEF QueueFits
<1>9. \A e \in Notices : delivery'[e].status = "none" <=> delivery[e].status = "none"
  BY <1>1, <1>4, <1>6
<1>10. OwedFits(owed, log, pruned, cursor, channel, delivery')
  BY <1>2, <1>9 DEF OwedFits
<1>11. /\ PassShape(pass') /\ pass'.at \in {"idle", "delivering"} /\ DueFits(pass', delivery', arrived', channel)
  BY <1>4, RestStaysDue DEF d
<1>12. BatchFits(pass', owed, log, pruned, cursor, channel, delivery')
  BY <1>11 DEF BatchFits
<1>13. RepeatsFit(pass', delivery', arrived', notifyFaults)
  <2> SUFFICES ASSUME NEW e \in Notices, delivery'[e].status # "none"
               PROVE  arrived'[e] <= delivery'[e].attempts + notifyFaults
    BY <1>7, <1>11, <1>2, NotificationAssumption DEF RepeatsFit, Underway, OutboxFits, RowFits
  <2>1. arrived[e] <= delivery[e].attempts + notifyFaults + Underway(pass, e)
    BY <1>2, <1>9 DEF RepeatsFit
  <2>2. arrived[e] \in Nat /\ delivery[e].attempts \in Nat
    BY <1>2, NotificationAssumption DEF OutboxFits, RowFits
  <2>3. CASE e = d
    <3>1. delivery'[e].attempts = row.attempts + 1
      BY <1>1, <1>4, <1>6, <2>3
    <3>2. Underway(pass, e) = IF pass.at = "sent" THEN 1 ELSE 0
      BY <1>1, <2>3 DEF Underway
    <3> QED
      BY <1>2, <1>5, <1>6, <2>1, <2>2, <2>3, <3>1, <3>2
  <2>4. CASE e # d
    <3>1. Underway(pass, e) = 0
      BY <1>1, <2>4 DEF Underway
    <3> QED
      BY <1>2, <1>4, <1>5, <2>1, <2>2, <2>4, <3>1
  <2> QED
    BY <2>3, <2>4
<1> QED
  BY <1>3, <1>7, <1>8, <1>10, <1>11, <1>12, <1>13 DEF NotifyInv

LEMMA RescheduleKeeps ==
    ASSUME NotifyInv, pass.at = "delivering", MovesOn, Reschedule(Current),
           UNCHANGED arrived \/ arrived' = [arrived EXCEPT ![Current] = @ + 1],
           UNCHANGED <<outboxVars, notifyFaults>>
    PROVE  NotifyInv'
<1> DEFINE status == IF delivery[Current].attempts + 1 >= MaxAttempts THEN "failed" ELSE "pending"
<1>1. Settle(Current, status)
  BY DEF Reschedule
<1>2. status \in {"pending", "delivered", "failed"} /\ status # "delivered"
  OBVIOUS
<1>3. status = "pending" => delivery[Current].attempts + 1 < MaxAttempts
  <2>1. Current \in Notices
    BY CurrentFits
  <2>2. delivery[Current].attempts \in Nat
    BY <2>1, NotificationAssumption DEF NotifyInv, OutboxFits, RowFits
  <2> QED
    BY <2>2, NotificationAssumption
<1> HIDE DEF status
<1> QED
  BY <1>1, <1>2, <1>3, SettleKeeps

LEMMA SkipGoneKeeps ==
    ASSUME NotifyInv, SkipGone
    PROVE  NotifyInv'
<1>1. /\ pass.at = "delivering" /\ NextDue
      /\ UNCHANGED <<log, pruned, channel, cursor, edits, owed, delivery, queue, arrived, notifyFaults>>
  BY DEF SkipGone, outboxVars
<1>2. /\ PassShape(pass) /\ RepeatsFit(pass, delivery, arrived, notifyFaults)
      /\ notifyFaults \in 0 .. NotifyFaults /\ NotifyFaults \in Nat
  BY NotificationAssumption DEF NotifyInv
<1>3. MovesOn
  BY <1>1, <1>2, NextDueMovesOn
<1>4. /\ PassShape(pass') /\ pass'.at \in {"idle", "delivering"} /\ DueFits(pass', delivery, arrived, channel)
  BY <1>1, <1>3, RestStaysDue
<1>5. BatchFits(pass', owed, log, pruned, cursor, channel, delivery)
  BY <1>4 DEF BatchFits
<1>6. RepeatsFit(pass', delivery, arrived, notifyFaults')
  BY <1>1, <1>2, <1>4 DEF RepeatsFit, Underway
<1> QED
  BY <1>1, <1>2, <1>4, <1>5, <1>6, PassMoves

LEMMA OpenChannelKeeps ==
    ASSUME NotifyInv, OpenChannel
    PROVE  NotifyInv'
<1> DEFINE read == {"read"} \cup {channel[Current[1]].row} \cup (IF krSealed THEN {} ELSE {"opened"})
           p == [pass EXCEPT !.seen[Current[1]] = read]
<1>1. /\ pass.at = "delivering" /\ UNCHANGED <<outboxVars, notifyFaults, arrived>>
      /\ \/ pass' = p /\ UNCHANGED <<delivery, queue>>
         \/ /\ Reschedule(Current)
            /\ pass' = IF Len(pass.due) = 1 THEN IdlePass ELSE [p EXCEPT !.due = Tail(pass.due)]
  BY DEF OpenChannel
<1>2. /\ PassShape(pass) /\ RepeatsFit(pass, delivery, arrived, notifyFaults)
      /\ DueFits(pass, delivery, arrived, channel)
      /\ notifyFaults \in 0 .. NotifyFaults /\ NotifyFaults \in Nat
  BY NotificationAssumption DEF NotifyInv
<1>3. \E sn : /\ p = [at |-> pass.at, seqs |-> pass.seqs, listed |-> pass.listed, due |-> pass.due, seen |-> sn]
              /\ sn = [c \in Channels |-> sn[c]]
  <2> DEFINE sn == [pass.seen EXCEPT ![Current[1]] = read]
  <2>1. pass.seen = [c \in Channels |-> pass.seen[c]]
    BY <1>2 DEF PassShape
  <2> HIDE DEF read
  <2>2. sn = [c \in Channels |-> sn[c]]
    BY <2>1
  <2>3. p = [at |-> pass.at, seqs |-> pass.seqs, listed |-> pass.listed, due |-> pass.due, seen |-> sn]
    BY <1>2 DEF PassShape
  <2> QED
    BY <2>2, <2>3
<1> HIDE DEF read, p
<1>4. PassShape(p) /\ p.at = "delivering" /\ p.due = pass.due
  BY <1>1, <1>2, <1>3 DEF PassShape
<1>5. CASE pass' = p /\ UNCHANGED <<delivery, queue>>
  <2>1. /\ DueFits(pass', delivery, arrived, channel) /\ BatchFits(pass', owed, log, pruned, cursor, channel, delivery)
        /\ RepeatsFit(pass', delivery, arrived, notifyFaults)
    BY <1>1, <1>2, <1>4, <1>5 DEF DueFits, BatchFits, RepeatsFit, Underway
  <2> QED
    BY <1>1, <1>2, <1>4, <1>5, <2>1, PassMoves DEF outboxVars
<1>6. CASE /\ Reschedule(Current)
           /\ pass' = IF Len(pass.due) = 1 THEN IdlePass ELSE [p EXCEPT !.due = Tail(pass.due)]
  <2>1. Len(pass.due) # 1 => PassShape(pass') /\ pass'.at = "delivering" /\ pass'.due = Tail(pass.due)
    BY <1>4, <1>6 DEF PassShape
  <2>2. MovesOn
    BY <1>6, <2>1 DEF MovesOn
  <2> QED
    BY <1>1, <1>6, <2>2, RescheduleKeeps
<1> QED
  BY <1>1, <1>5, <1>6

LEMMA DropDisabledKeeps ==
    ASSUME NotifyInv, DropDisabled
    PROVE  NotifyInv'
<1>1. /\ pass.at = "delivering" /\ Settle(Current, "failed") /\ NextDue
      /\ UNCHANGED <<outboxVars, notifyFaults, arrived>>
  BY DEF DropDisabled
<1>2. MovesOn
  BY <1>1, NextDueMovesOn DEF NotifyInv
<1> QED
  BY <1>1, <1>2, SettleKeeps

LEMMA SendFailsKeeps ==
    ASSUME NotifyInv, SendFails
    PROVE  NotifyInv'
<1>1. /\ pass.at = "delivering" /\ Reschedule(Current) /\ NextDue
      /\ UNCHANGED arrived \/ arrived' = [arrived EXCEPT ![Current] = @ + 1]
      /\ UNCHANGED <<outboxVars, notifyFaults>>
  BY DEF SendFails
<1>2. MovesOn
  BY <1>1, NextDueMovesOn DEF NotifyInv
<1> QED
  BY <1>1, <1>2, RescheduleKeeps

LEMMA MarkDeliveredKeeps ==
    ASSUME NotifyInv, MarkDelivered
    PROVE  NotifyInv'
<1>1. /\ pass.at = "sent" /\ Settle(Current, "delivered") /\ NextDue
      /\ UNCHANGED <<outboxVars, notifyFaults, arrived>>
  BY DEF MarkDelivered
<1>2. MovesOn
  BY <1>1, NextDueMovesOn DEF NotifyInv
<1> QED
  BY <1>1, <1>2, SettleKeeps

LEMMA SendAcceptedKeeps ==
    ASSUME NotifyInv, SendAccepted
    PROVE  NotifyInv'
<1> DEFINE d == Current
<1>1. /\ pass.at = "delivering" /\ arrived' = [arrived EXCEPT ![d] = @ + 1]
      /\ pass' = [pass EXCEPT !.at = "sent"]
      /\ UNCHANGED <<outboxVars, delivery, queue, notifyFaults>>
  BY DEF SendAccepted
<1>2. /\ d = pass.due[1] /\ d \in Notices /\ DueFits(pass, delivery, arrived, channel) /\ PassShape(pass)
      /\ delivery[d].status = "none" => channel[d[1]].row = "gone"
      /\ delivery[d].status \in {"pending", "none"}
  BY <1>1, CurrentFits
<1>3. OutboxFits(delivery, arrived, channel) /\ RepeatsFit(pass, delivery, arrived, notifyFaults)
      /\ notifyFaults \in Nat
  BY NotificationAssumption DEF NotifyInv
<1> HIDE DEF d
<1>4. pass' = [at |-> "sent", seqs |-> pass.seqs, listed |-> pass.listed, due |-> pass.due, seen |-> pass.seen]
  BY <1>1, <1>2 DEF PassShape
<1>5. /\ arrived' = [e \in Notices |-> arrived'[e]]
      /\ \A e \in Notices : arrived'[e] = IF e = d THEN arrived[d] + 1 ELSE arrived[e]
      /\ \A e \in Notices : arrived[e] \in Nat /\ delivery[e].attempts \in Nat
  BY <1>1, <1>2, <1>3, NotificationAssumption DEF OutboxFits, RowFits
<1>6. OutboxFits(delivery, arrived', channel)
  BY <1>2, <1>3, <1>5 DEF OutboxFits, RowFits
<1>7. PassShape(pass') /\ BatchFits(pass', owed, log, pruned, cursor, channel, delivery)
  BY <1>2, <1>4 DEF PassShape, BatchFits
<1>8. DueFits(pass', delivery, arrived', channel)
  BY <1>1, <1>2, <1>4, <1>5 DEF DueFits
<1>9. RepeatsFit(pass', delivery, arrived', notifyFaults)
  <2> SUFFICES ASSUME NEW e \in Notices, delivery[e].status # "none"
               PROVE  arrived'[e] <= delivery[e].attempts + notifyFaults + Underway(pass', e)
    BY DEF RepeatsFit
  <2>1. Underway(pass', e) = IF e = d THEN 1 ELSE 0
    BY <1>2, <1>4 DEF Underway
  <2>2. Underway(pass, e) = 0
    BY <1>1 DEF Underway
  <2>3. arrived[e] <= delivery[e].attempts + notifyFaults + 0
    BY <1>3, <2>2 DEF RepeatsFit
  <2> QED
    BY <1>3, <1>5, <2>1, <2>3
<1> QED
  BY <1>1, <1>6, <1>7, <1>8, <1>9 DEF NotifyInv, outboxVars

-----------------------------------------------------------------------------
(* Notification: the fan-out.                                              *)

LEMMA FanOutStepKeeps ==
    ASSUME NotifyInv, FanOutStep
    PROVE  NotifyInv'
<1> DEFINE new == {d \in Matched : delivery[d].status = "none"}
           aborts == \E d \in Matched : channel[d[1]].row = "gone"
<1>1. /\ pass.at = "listed" /\ pass' = [IdlePass EXCEPT !.at = "queued"]
      /\ UNCHANGED <<log, pruned, channel, krSealed, edits, owed, notifyFaults, arrived>>
      /\ IF aborts THEN UNCHANGED <<delivery, queue, cursor>>
         ELSE /\ delivery' = [d \in Notices |-> IF d \in new THEN [status |-> "pending", attempts |-> 0]
                                                ELSE delivery[d]]
              /\ queue' \in {queue \o q : q \in SetToSeqs(new)}
              /\ cursor' = Max(pass.seqs \cup {cursor})
  BY DEF FanOutStep, FanOut
<1>2. /\ PassShape(pass') /\ pass'.at = "queued"
  BY <1>1 DEF PassShape, IdlePass
<1>3. /\ LogFits(log, pruned, cursor) /\ OutboxFits(delivery, arrived, channel) /\ QueueFits(queue, delivery)
      /\ OwedFits(owed, log, pruned, cursor, channel, delivery)
      /\ BatchFits(pass, owed, log, pruned, cursor, channel, delivery)
      /\ RepeatsFit(pass, delivery, arrived, notifyFaults)
      /\ notifyFaults \in 0 .. NotifyFaults /\ NotifyFaults \in Nat
  BY NotificationAssumption DEF NotifyInv
<1>4. CASE aborts
  BY <1>1, <1>2, <1>3, <1>4, QuietPass
<1>5. CASE ~aborts
  <2>1. /\ delivery' = [d \in Notices |-> IF d \in new THEN [status |-> "pending", attempts |-> 0]
                                          ELSE delivery[d]]
        /\ queue' \in {queue \o q : q \in SetToSeqs(new)}
        /\ cursor' = Max(pass.seqs \cup {cursor})
    BY <1>1, <1>5
  <2>2. pass.seqs \subseteq 1 .. Len(log) /\ Len(log) \in 0 .. MaxEvents /\ MaxEvents \in Nat
    BY <1>1, <1>3, NotificationAssumption DEF BatchFits, LogFits
  <2>3. /\ Matched \subseteq Notices /\ new \subseteq Notices
        /\ \A d \in new : channel[d[1]].row \notin {"none", "gone"} /\ delivery[d].status = "none"
    <3>1. Matched \subseteq Notices
      BY <2>2 DEF Matched, Notices
    <3>2. \A d \in Matched : channel[d[1]].row # "none"
      BY <1>1, <1>3 DEF Matched, BatchFits
    <3>3. \A d \in Matched : channel[d[1]].row # "gone"
      BY <1>5
    <3> QED
      BY <3>1, <3>2, <3>3
  <2>4. \A d \in owed : d[2] \in pass.seqs /\ delivery[d].status = "none" => d \in new
    <3> SUFFICES ASSUME NEW d \in owed, d[2] \in pass.seqs, delivery[d].status = "none" PROVE d \in Matched
      OBVIOUS
    <3>1. d = <<d[1], d[2]>> /\ d[1] \in Channels
      BY <1>3 DEF OwedFits, Notices
    <3>2. log[d[2]] \in pass.listed[d[1]]
      BY <1>1, <1>3 DEF BatchFits
    <3> QED
      BY <3>1, <3>2 DEF Matched
  <2> HIDE DEF new, aborts
  <2>5. /\ cursor' \in pass.seqs \cup {cursor} /\ \A s \in pass.seqs \cup {cursor} : cursor' >= s
    <3> DEFINE S == pass.seqs \cup {cursor}
    <3>1. S \subseteq 0 .. Len(log) /\ S # {} /\ Len(log) \in Nat
      BY <1>3, <2>2 DEF LogFits
    <3> HIDE DEF S
    <3>2. PICK m \in S : \A s \in S : s <= m
      BY <3>1, NewestOf
    <3>3. Max(S) \in S /\ \A s \in S : Max(S) >= s
      BY <3>2 DEF Max
    <3> QED
      BY <2>1, <3>3 DEF S
  <2>6. LogFits(log, pruned, cursor') /\ cursor' >= cursor
    BY <1>3, <2>2, <2>5 DEF LogFits
  <2>7. /\ delivery' = [d \in Notices |-> delivery'[d]]
        /\ \A d \in Notices : delivery'[d] = IF d \in new THEN [status |-> "pending", attempts |-> 0]
                                             ELSE delivery[d]
    BY <2>1
  <2>8. OutboxFits(delivery', arrived, channel)
    <3>1. ASSUME NEW d \in new
          PROVE  RowFits(delivery'[d], arrived[d], channel[d[1]].row)
      <4>1. delivery'[d] = [status |-> "pending", attempts |-> 0]
        BY <2>3, <2>7
      <4>2. 0 \in 0 .. MaxAttempts /\ 0 < MaxAttempts
        BY NotificationAssumption
      <4>3. arrived[d] \in Nat /\ channel[d[1]].row \notin {"none", "gone"}
        BY <1>3, <2>3 DEF OutboxFits, RowFits
      <4> QED
        BY <4>1, <4>2, <4>3 DEF RowFits
    <3> QED
      BY <1>3, <2>7, <3>1 DEF OutboxFits
  <2>9. QueueFits(queue', delivery')
    <3>1. PICK q \in SetToSeqs(new) : queue' = queue \o q
      BY <2>1
    <3>2. q \in Seq(Notices) /\ Distinct(q) /\ \A i \in 1 .. Len(q) : q[i] \in new
      <4>1. IsFiniteSet(new)
        <5>1. IsFiniteSet(1 .. MaxChannels) /\ IsFiniteSet(1 .. MaxEvents)
          BY FS_Interval, NotificationAssumption
        <5>2. IsFiniteSet(Notices)
          BY <5>1, FS_Product DEF Notices, Channels
        <5> QED
          BY <2>3, <5>2, FS_Subset
      <4>2. Cardinality(new) \in Nat
        BY <4>1, FS_CardinalityType
      <4> DEFINE N == Cardinality(new)
      <4>3. q \in [1 .. N -> new] /\ \A i, j \in 1 .. N : i # j => q[i] # q[j]
        BY DEF SetToSeqs
      <4> HIDE DEF N
      <4>4. DOMAIN q = 1 .. N /\ N \in Nat /\ \A i \in 1 .. N : q[i] \in new
        BY <4>2, <4>3 DEF N
      <4>5. q \in Seq(Notices) /\ Len(q) = N
        BY <2>3, <4>3, <4>4
      <4> QED
        BY <4>3, <4>4, <4>5 DEF Distinct
    <3>3. queue \in Seq(Notices) /\ Distinct(queue) /\ \A i \in 1 .. Len(queue) : queue[i] \in Notices
      BY <1>3, LenProperties DEF QueueFits
    <3>4. \A i \in 1 .. Len(queue) : delivery[queue[i]].status = "pending" /\ queue[i] \notin new
      BY <1>3, <2>3 DEF QueueFits
    <3>5. \A i \in 1 .. Len(queue), j \in 1 .. Len(q) : queue[i] # q[j]
      BY <3>2, <3>4
    <3>6. /\ queue' \in Seq(Notices) /\ Distinct(queue')
          /\ \A n \in 1 .. Len(queue') : \/ \E i \in 1 .. Len(queue) : queue'[n] = queue[i]
                                         \/ \E j \in 1 .. Len(q) : queue'[n] = q[j]
      BY <3>1, <3>2, <3>3, <3>5, JoinedFits
    <3>7. \A d \in new : delivery'[d].status = "pending"
      BY <2>3, <2>7
    <3>8. \A i \in 1 .. Len(queue) : delivery'[queue[i]].status = "pending"
      BY <2>7, <3>3, <3>4
    <3> QED
      BY <3>2, <3>6, <3>7, <3>8 DEF QueueFits
  <2>10. OwedFits(owed, log, pruned, cursor', channel, delivery')
    <3> SUFFICES ASSUME NEW d \in owed
                 PROVE  /\ d[2] <= Len(log) /\ (d[2] > pruned \/ d[2] <= cursor')
                        /\ \/ delivery'[d].status # "none"
                           \/ d[2] > cursor' /\ channel[d[1]].row = "enabled" /\ log[d[2]] \in channel[d[1]].events
      BY <1>3 DEF OwedFits
    <3>1. /\ d \in Notices /\ d[2] \in Nat /\ d[2] >= 1
          /\ d[2] <= Len(log) /\ (d[2] > pruned \/ d[2] <= cursor)
          /\ \/ delivery[d].status # "none"
             \/ d[2] > cursor /\ channel[d[1]].row = "enabled" /\ log[d[2]] \in channel[d[1]].events
      BY <1>3 DEF OwedFits, Notices
    <3>2. cursor \in Nat /\ cursor' \in Nat /\ cursor' >= cursor
      BY <1>3, <2>6 DEF LogFits
    <3>3. CASE delivery[d].status # "none"
      <4>1. delivery'[d].status # "none"
        BY <2>7, <3>1, <3>3
      <4> QED
        BY <3>1, <3>2, <4>1
    <3>4. CASE delivery[d].status = "none" /\ d[2] > cursor'
      BY <3>1, <3>2, <3>4
    <3>5. CASE delivery[d].status = "none" /\ ~ (d[2] > cursor')
      <4>1. d[2] > cursor /\ d[2] > pruned
        BY <3>1, <3>2, <3>5, <1>3 DEF LogFits
      <4>2. cursor' \in pass.seqs /\ d[2] \in 1 .. cursor'
        BY <2>5, <3>1, <3>2, <3>5, <4>1
      <4>3. d[2] \in pass.seqs
        BY <1>1, <1>3, <4>1, <4>2 DEF BatchFits
      <4>4. d \in new
        BY <2>4, <3>5, <4>3
      <4>5. delivery'[d].status = "pending"
        BY <2>7, <3>1, <4>4
      <4> QED
        BY <3>1, <3>2, <3>5, <4>5
    <3> QED
      BY <3>3, <3>4, <3>5
  <2>11. /\ BatchFits(pass', owed, log, pruned, cursor', channel, delivery')
         /\ DueFits(pass', delivery', arrived, channel)
    BY <1>2 DEF BatchFits, DueFits
  <2>12. RepeatsFit(pass', delivery', arrived, notifyFaults)
    <3> SUFFICES ASSUME NEW d \in Notices, delivery'[d].status # "none"
                 PROVE  arrived[d] <= delivery'[d].attempts + notifyFaults + Underway(pass', d)
      BY DEF RepeatsFit
    <3>1. Underway(pass', d) = 0 /\ Underway(pass, d) = 0
      BY <1>1, <1>2 DEF Underway
    <3>2. arrived[d] \in Nat /\ delivery[d].attempts \in Nat /\ notifyFaults \in Nat
      BY <1>3, NotificationAssumption DEF OutboxFits, RowFits
    <3>3. CASE d \in new
      <4>1. delivery'[d].attempts = 0
        BY <2>7, <3>3
      <4>2. /\ RowFits(delivery[d], arrived[d], channel[d[1]].row)
            /\ delivery[d].status = "none" /\ channel[d[1]].row # "gone"
        BY <1>3, <2>3, <3>3 DEF OutboxFits
      <4>3. arrived[d] = 0
        BY <4>2 DEF RowFits
      <4> QED
        BY <3>1, <3>2, <4>1, <4>3
    <3>4. CASE d \notin new
      BY <1>3, <2>7, <3>1, <3>4 DEF RepeatsFit
    <3> QED
      BY <3>3, <3>4
  <2> QED
    BY <1>1, <1>2, <2>6, <2>8, <2>9, <2>10, <2>11, <2>12 DEF NotifyInv
<1> QED
  BY <1>4, <1>5

-----------------------------------------------------------------------------
(* Notification: the audit log and the channels.                           *)

LEMMA RecordEventKeeps ==
    ASSUME NotifyInv, NEW k \in Kinds \cup {Quiet}, RecordEvent(k)
    PROVE  NotifyInv'
<1>1. /\ Len(log) < MaxEvents /\ log' = Append(log, k)
      /\ owed' = owed \cup (Subscribers(k) \X {Len(log) + 1})
      /\ UNCHANGED <<pruned, channel, cursor, delivery, queue, pass, krSealed, notifyFaults, edits, arrived>>
  BY DEF RecordEvent
<1>2. /\ LogFits(log, pruned, cursor) /\ OutboxFits(delivery, arrived, channel)
      /\ OwedFits(owed, log, pruned, cursor, channel, delivery)
      /\ BatchFits(pass, owed, log, pruned, cursor, channel, delivery)
  BY DEF NotifyInv
<1>3. /\ log' \in Seq(Kinds \cup {Quiet}) /\ Len(log') = Len(log) + 1 /\ Len(log) \in Nat
      /\ \A i \in 1 .. Len(log) : log'[i] = log[i]
      /\ log'[Len(log) + 1] = k
  BY <1>1, <1>2, AppendProperties, LenProperties DEF LogFits
<1>4. LogFits(log', pruned, cursor)
  BY <1>1, <1>2, <1>3, NotificationAssumption DEF LogFits
<1>5. OwedFits(owed', log', pruned, cursor, channel, delivery)
  <2> DEFINE n == Len(log) + 1
  <2>1. n \in 1 .. MaxEvents /\ pruned \in 0 .. Len(log) /\ cursor \in 0 .. Len(log)
    BY <1>1, <1>2, <1>3, NotificationAssumption DEF LogFits
  <2>2. owed' \subseteq Notices
    BY <1>1, <1>2, <2>1 DEF OwedFits, Notices, Subscribers
  <2>3. ASSUME NEW d \in owed'
        PROVE  /\ d[2] <= Len(log') /\ (d[2] > pruned \/ d[2] <= cursor)
               /\ \/ delivery[d].status # "none"
                  \/ d[2] > cursor /\ channel[d[1]].row = "enabled" /\ log'[d[2]] \in channel[d[1]].events
    <3>1. CASE d \in owed
      <4>1. d[2] \in 1 .. Len(log) /\ d[2] <= Len(log) + 1
        BY <1>2, <1>3, <3>1 DEF OwedFits, Notices
      <4>2. log'[d[2]] = log[d[2]]
        BY <1>3, <4>1
      <4> QED
        BY <1>2, <1>3, <3>1, <4>1, <4>2 DEF OwedFits
    <3>2. CASE d \in Subscribers(k) \X {n}
      <4>1. d[2] = n /\ channel[d[1]].row = "enabled" /\ k \in channel[d[1]].events
        BY <3>2 DEF Subscribers
      <4> QED
        BY <1>3, <2>1, <4>1
    <3> QED
      BY <1>1, <2>3, <3>1, <3>2
  <2> QED
    BY <2>2, <2>3 DEF OwedFits
<1>6. BatchFits(pass, owed', log', pruned, cursor, channel, delivery)
  <2>1. pass.at \in {"tailed", "listed"} =>
          /\ pass.seqs \subseteq 1 .. Len(log) /\ pass.seqs \subseteq 1 .. Len(log')
          /\ \A s \in pass.seqs : \A t \in 1 .. s : t > pruned /\ t > cursor => t \in pass.seqs
    BY <1>2, <1>3 DEF BatchFits
  <2>2. ASSUME pass.at = "listed"
        PROVE  \A d \in owed' : d[2] \in pass.seqs /\ delivery[d].status = "none" => log'[d[2]] \in pass.listed[d[1]]
    <3> SUFFICES ASSUME NEW d \in owed', d[2] \in pass.seqs, delivery[d].status = "none"
                 PROVE  log'[d[2]] \in pass.listed[d[1]]
      OBVIOUS
    <3>1. d[2] \in 1 .. Len(log)
      BY <2>1, <2>2
    <3>2. d \in owed
      BY <1>1, <1>3, <3>1
    <3> QED
      BY <1>2, <1>3, <2>2, <3>1, <3>2 DEF BatchFits
  <2> QED
    BY <1>2, <2>1, <2>2 DEF BatchFits
<1> QED
  BY <1>1, <1>4, <1>5, <1>6 DEF NotifyInv

\* Nothing but the events scanned, the channels and what they are owed changes.
LEMMA FewerOwed ==
    ASSUME NotifyInv, NEW pr, LogFits(log, pr, cursor), pr >= pruned, NEW ow, ow \subseteq owed,
           \A d \in ow : d[2] > pr \/ d[2] <= cursor
    PROVE  /\ OwedFits(ow, log, pr, cursor, channel, delivery)
           /\ BatchFits(pass, ow, log, pr, cursor, channel, delivery)
<1>1. /\ OwedFits(owed, log, pruned, cursor, channel, delivery) /\ LogFits(log, pruned, cursor)
      /\ BatchFits(pass, owed, log, pruned, cursor, channel, delivery)
  BY DEF NotifyInv
<1>2. pr \in Int /\ pruned \in Int /\ Len(log) \in Int /\ \A t : t \in 1 .. Len(log) => t \in Int
  BY <1>1 DEF LogFits
<1>3. OwedFits(ow, log, pr, cursor, channel, delivery)
  BY <1>1 DEF OwedFits
<1>4. pass.at \in {"tailed", "listed"} =>
        \A s \in pass.seqs : \A t \in 1 .. s : t > pr /\ t > cursor => t \in pass.seqs
  <2> SUFFICES ASSUME pass.at \in {"tailed", "listed"}, NEW s \in pass.seqs, NEW t \in 1 .. s, t > pr, t > cursor
               PROVE  t \in pass.seqs
    OBVIOUS
  <2>1. s \in 1 .. Len(log)
    BY <1>1 DEF BatchFits
  <2>2. t > pruned
    BY <1>2, <2>1
  <2> QED
    BY <1>1, <2>2 DEF BatchFits
<1> QED
  BY <1>1, <1>3, <1>4 DEF BatchFits

LEMMA PruneLogKeeps ==
    ASSUME NotifyInv, NEW n \in pruned + 1 .. Len(log), PruneLog(n)
    PROVE  NotifyInv'
<1>1. /\ pruned' = n /\ owed' = {d \in owed : d[2] > n \/ d[2] <= cursor}
      /\ UNCHANGED <<log, channel, cursor, delivery, queue, pass, krSealed, notifyFaults, edits, arrived>>
  BY DEF PruneLog
<1>2. LogFits(log, n, cursor) /\ n >= pruned
  BY DEF NotifyInv, LogFits
<1>3. /\ OwedFits(owed', log, n, cursor, channel, delivery)
      /\ BatchFits(pass, owed', log, n, cursor, channel, delivery)
  <2>1. owed' \subseteq owed /\ \A d \in owed' : d[2] > n \/ d[2] <= cursor
    BY <1>1
  <2> QED
    BY <1>2, <2>1, FewerOwed
<1> QED
  BY <1>1, <1>2, <1>3 DEF NotifyInv

\* A channel's row changes, and with it what of its deliveries is left.
LEMMA ChannelMoves ==
    ASSUME NotifyInv, NEW c \in Channels, ChannelsFit(channel'),
           \A b \in Channels \ {c} : channel'[b] = channel[b], channel'[c].row # "none",
           OutboxFits(delivery', arrived', channel'), QueueFits(queue', delivery'),
           \A d \in Notices :
              \/ delivery'[d] = delivery[d] /\ arrived'[d] = arrived[d]
              \/ delivery'[d].status = "none" /\ d \notin owed' /\ channel'[d[1]].row = "gone",
           channel[c].row = "gone" => channel'[c].row = "gone",
           owed' \subseteq owed,
           \A d \in owed' : d[1] = c /\ delivery[d].status = "none" =>
                channel'[c].row = "enabled" /\ log[d[2]] \in channel'[c].events,
           edits' \in 0 .. MaxEdits, UNCHANGED adminVars
    PROVE  NotifyInv'
<1>1. /\ log' = log /\ pruned' = pruned /\ cursor' = cursor /\ pass' = pass /\ notifyFaults' = notifyFaults
  BY DEF adminVars
<1>2. /\ LogFits(log, pruned, cursor) /\ OutboxFits(delivery, arrived, channel)
      /\ OwedFits(owed, log, pruned, cursor, channel, delivery)
      /\ BatchFits(pass, owed, log, pruned, cursor, channel, delivery)
      /\ DueFits(pass, delivery, arrived, channel)
      /\ RepeatsFit(pass, delivery, arrived, notifyFaults)
  BY DEF NotifyInv
<1>3. \A d \in Notices : d[1] \in Channels
  BY DEF Notices
<1>4. \A d \in owed' : d \in Notices /\ delivery'[d] = delivery[d] /\ d \in owed
  BY <1>2 DEF OwedFits
<1>5. OwedFits(owed', log, pruned, cursor, channel', delivery')
  <2> SUFFICES ASSUME NEW d \in owed'
               PROVE  /\ d[2] <= Len(log) /\ (d[2] > pruned \/ d[2] <= cursor)
                      /\ \/ delivery'[d].status # "none"
                         \/ d[2] > cursor /\ channel'[d[1]].row = "enabled" /\ log[d[2]] \in channel'[d[1]].events
    BY <1>4 DEF OwedFits
  <2>1. /\ d[2] <= Len(log) /\ (d[2] > pruned \/ d[2] <= cursor)
        /\ \/ delivery[d].status # "none"
           \/ d[2] > cursor /\ channel[d[1]].row = "enabled" /\ log[d[2]] \in channel[d[1]].events
    BY <1>2, <1>4 DEF OwedFits
  <2> QED
    BY <1>3, <1>4, <2>1
<1>6. BatchFits(pass, owed', log, pruned, cursor, channel', delivery')
  <2>1. ASSUME pass.at = "listed", NEW b \in Channels, pass.listed[b] # {} PROVE channel'[b].row # "none"
    BY <1>2, <2>1 DEF BatchFits
  <2> QED
    BY <1>2, <1>4, <2>1 DEF BatchFits
<1>7. DueFits(pass, delivery', arrived', channel')
  <2> SUFFICES ASSUME pass.at \in {"delivering", "sent"}
               PROVE  DueFits(pass, delivery', arrived', channel')
    BY DEF DueFits
  <2>1. pass.due \in Seq(Notices) /\ Distinct(pass.due) /\ pass.due # <<>>
    BY <1>2 DEF DueFits
  <2>2. ASSUME NEW i \in 1 .. Len(pass.due)
        PROVE  LET d == pass.due[i] IN
               delivery'[d].status = "pending" \/ (delivery'[d].status = "none" /\ channel'[d[1]].row = "gone")
    <3>1. pass.due[i] \in Notices /\ pass.due[i][1] \in Channels
      BY <1>3, <2>1, LenProperties
    <3>2. delivery[pass.due[i]].status = "pending"
          \/ (delivery[pass.due[i]].status = "none" /\ channel[pass.due[i][1]].row = "gone")
      BY <1>2 DEF DueFits
    <3>3. channel[pass.due[i][1]].row = "gone" => channel'[pass.due[i][1]].row = "gone"
      BY <3>1
    <3>4. delivery'[pass.due[i]] = delivery[pass.due[i]]
          \/ (delivery'[pass.due[i]].status = "none" /\ channel'[pass.due[i][1]].row = "gone")
      BY <3>1
    <3> QED
      BY <3>2, <3>3, <3>4
  <2>3. pass.at = "sent" /\ delivery'[pass.due[1]].status # "none" => arrived'[pass.due[1]] > 0
    <3>1. pass.due[1] \in Notices
      BY <2>1, RestFits
    <3> QED
      BY <1>2, <3>1 DEF DueFits
  <2> QED
    BY <2>1, <2>2, <2>3 DEF DueFits
<1>8. RepeatsFit(pass, delivery', arrived', notifyFaults)
  BY <1>2 DEF RepeatsFit
<1> QED
  BY <1>1, <1>5, <1>6, <1>7, <1>8 DEF NotifyInv

\* A row of the outbox fits whichever row of the two kinds its channel has.
LEMMA RowStaysFit ==
    ASSUME NEW ro, NEW n, NEW row, NEW row2, RowFits(ro, n, row), row2 \notin {"none", "gone"}, row # "gone"
    PROVE  RowFits(ro, n, row2)
BY DEF RowFits

LEMMA CreateChannelKeeps ==
    ASSUME NotifyInv, NEW c \in Channels, NEW events \in SUBSET Kinds, CreateChannel(c, events)
    PROVE  NotifyInv'
<1>1. /\ channel[c].row = "none" /\ channel' = [channel EXCEPT ![c] = [row |-> "enabled", events |-> events]]
      /\ UNCHANGED <<adminVars, delivery, queue, edits, owed, arrived>>
  BY DEF CreateChannel
<1>2. /\ ChannelsFit(channel) /\ OutboxFits(delivery, arrived, channel) /\ QueueFits(queue, delivery)
      /\ OwedFits(owed, log, pruned, cursor, channel, delivery) /\ edits \in 0 .. MaxEdits
  BY DEF NotifyInv
<1>3. /\ ChannelsFit(channel') /\ \A b \in Channels \ {c} : channel'[b] = channel[b]
      /\ channel'[c].row = "enabled"
  BY <1>1, <1>2 DEF ChannelsFit
<1>4. OutboxFits(delivery, arrived, channel')
  <2>1. \A d \in Notices : d[1] \in Channels
    BY DEF Notices
  <2>2. \A d \in Notices : RowFits(delivery[d], arrived[d], channel'[d[1]].row)
    <3> SUFFICES ASSUME NEW d \in Notices PROVE RowFits(delivery[d], arrived[d], channel'[d[1]].row)
      OBVIOUS
    <3>1. RowFits(delivery[d], arrived[d], channel[d[1]].row)
      BY <1>2 DEF OutboxFits
    <3>2. CASE d[1] = c
      BY <1>1, <1>3, <3>1, <3>2, RowStaysFit
    <3>3. CASE d[1] # c
      BY <1>3, <2>1, <3>1, <3>3
    <3> QED
      BY <3>2, <3>3
  <2> QED
    BY <1>2, <2>2 DEF OutboxFits
<1>5. \A d \in owed : ~ (d[1] = c /\ delivery[d].status = "none")
  BY <1>1, <1>2 DEF OwedFits
<1>6. /\ delivery' = delivery /\ arrived' = arrived /\ queue' = queue /\ owed' = owed /\ edits' = edits
      /\ UNCHANGED adminVars
  BY <1>1
<1>7. /\ OutboxFits(delivery', arrived', channel') /\ QueueFits(queue', delivery')
      /\ owed' \subseteq owed /\ edits' \in 0 .. MaxEdits
      /\ \A d \in Notices : delivery'[d] = delivery[d] /\ arrived'[d] = arrived[d]
      /\ \A d \in owed' : ~ (d[1] = c /\ delivery[d].status = "none")
  BY <1>2, <1>4, <1>5, <1>6
<1>8. channel[c].row # "gone" /\ channel'[c].row # "none"
  BY <1>1, <1>3
<1> QED
  BY <1>3, <1>6, <1>7, <1>8, ChannelMoves

LEMMA UpdateChannelKeeps ==
    ASSUME NotifyInv, NEW c \in Channels, NEW row \in {"enabled", "disabled"}, NEW events \in SUBSET Kinds,
           UpdateChannel(c, row, events)
    PROVE  NotifyInv'
<1>1. /\ channel[c].row \in {"enabled", "disabled"} /\ edits < MaxEdits /\ edits' = edits + 1
      /\ channel' = [channel EXCEPT ![c] = [row |-> row, events |-> events]]
      /\ owed' = StillOwed(c, IF row = "enabled" THEN events ELSE {})
      /\ UNCHANGED <<adminVars, delivery, queue, arrived>>
  BY DEF UpdateChannel, Edit, Present
<1>2. /\ ChannelsFit(channel) /\ OutboxFits(delivery, arrived, channel) /\ QueueFits(queue, delivery)
      /\ OwedFits(owed, log, pruned, cursor, channel, delivery) /\ edits \in 0 .. MaxEdits
  BY DEF NotifyInv
<1>3. /\ ChannelsFit(channel') /\ \A b \in Channels \ {c} : channel'[b] = channel[b]
      /\ channel'[c].row = row /\ channel'[c].events = events
  BY <1>1, <1>2 DEF ChannelsFit
<1>4. OutboxFits(delivery, arrived, channel')
  <2>1. \A d \in Notices : d[1] \in Channels
    BY DEF Notices
  <2>2. \A d \in Notices : RowFits(delivery[d], arrived[d], channel'[d[1]].row)
    <3> SUFFICES ASSUME NEW d \in Notices PROVE RowFits(delivery[d], arrived[d], channel'[d[1]].row)
      OBVIOUS
    <3>1. RowFits(delivery[d], arrived[d], channel[d[1]].row)
      BY <1>2 DEF OutboxFits
    <3>2. CASE d[1] = c
      BY <1>1, <1>3, <3>1, <3>2, RowStaysFit
    <3>3. CASE d[1] # c
      BY <1>3, <2>1, <3>1, <3>3
    <3> QED
      BY <3>2, <3>3
  <2> QED
    BY <1>2, <2>2 DEF OutboxFits
<1>5. /\ owed' \subseteq owed
      /\ \A d \in owed' : d[1] = c /\ delivery[d].status = "none" =>
           channel'[c].row = "enabled" /\ log[d[2]] \in channel'[c].events
  BY <1>1, <1>3 DEF StillOwed
<1>6. edits' \in 0 .. MaxEdits
  BY <1>1, <1>2, NotificationAssumption
<1>7. /\ delivery' = delivery /\ arrived' = arrived /\ queue' = queue /\ UNCHANGED adminVars
  BY <1>1
<1>8. /\ OutboxFits(delivery', arrived', channel') /\ QueueFits(queue', delivery')
      /\ \A d \in Notices : delivery'[d] = delivery[d] /\ arrived'[d] = arrived[d]
  BY <1>2, <1>4, <1>7
<1>9. channel[c].row # "gone" /\ channel'[c].row # "none"
  BY <1>1, <1>3
<1> QED
  BY <1>3, <1>5, <1>6, <1>7, <1>8, <1>9, ChannelMoves

LEMMA DeleteChannelKeeps ==
    ASSUME NotifyInv, NEW c \in Channels, DeleteChannel(c)
    PROVE  NotifyInv'
<1> DEFINE G == {c} \X (1 .. MaxEvents)
<1>1. /\ channel[c].row \in {"enabled", "disabled"} /\ edits < MaxEdits /\ edits' = edits + 1
      /\ channel' = [channel EXCEPT ![c] = [row |-> "gone", events |-> {}]]
      /\ delivery' = [d \in Notices |-> IF d[1] = c THEN NoDelivery ELSE delivery[d]]
      /\ queue' = Without(queue, G)
      /\ owed' = {d \in owed : d[1] # c}
      /\ arrived' = [d \in Notices |-> IF d[1] = c THEN 0 ELSE arrived[d]]
      /\ UNCHANGED adminVars
  BY DEF DeleteChannel, Edit, Present
<1>2. /\ ChannelsFit(channel) /\ OutboxFits(delivery, arrived, channel) /\ QueueFits(queue, delivery)
      /\ OwedFits(owed, log, pruned, cursor, channel, delivery) /\ edits \in 0 .. MaxEdits
  BY DEF NotifyInv
<1>3. /\ ChannelsFit(channel') /\ \A b \in Channels \ {c} : channel'[b] = channel[b]
      /\ channel'[c].row = "gone"
  BY <1>1, <1>2 DEF ChannelsFit
<1>4. \A d \in Notices : /\ delivery'[d] = IF d[1] = c THEN NoDelivery ELSE delivery[d]
                         /\ arrived'[d] = IF d[1] = c THEN 0 ELSE arrived[d]
                         /\ d[1] \in Channels /\ (d[1] = c => d \in G)
  BY <1>1 DEF Notices
<1>5. OutboxFits(delivery', arrived', channel')
  <2>1. ASSUME NEW d \in Notices PROVE RowFits(delivery'[d], arrived'[d], channel'[d[1]].row)
    <3>1. CASE d[1] = c
      <4>1. 0 \in 0 .. MaxAttempts
        BY NotificationAssumption
      <4>2. delivery'[d] = [status |-> "none", attempts |-> 0] /\ arrived'[d] = 0
        BY <1>4, <3>1 DEF NoDelivery
      <4> QED
        BY <1>3, <3>1, <4>1, <4>2 DEF RowFits
    <3>2. CASE d[1] # c
      BY <1>2, <1>3, <1>4, <3>2 DEF OutboxFits
    <3> QED
      BY <3>1, <3>2
  <2> QED
    BY <1>1, <2>1 DEF OutboxFits
<1>6. QueueFits(queue', delivery')
  <2> HIDE DEF G
  <2>1. queue \in Seq(Notices) /\ Distinct(queue)
    BY <1>2 DEF QueueFits
  <2>2. /\ queue' \in Seq(Notices) /\ Distinct(queue')
        /\ \A n \in 1 .. Len(queue') : queue'[n] \notin G /\ \E i \in 1 .. Len(queue) : queue'[n] = queue[i]
    BY <1>1, <2>1, WithoutFits
  <2>3. \A n \in 1 .. Len(queue') : queue'[n] \in Notices
    BY <2>2, LenProperties
  <2>4. ASSUME NEW n \in 1 .. Len(queue') PROVE delivery'[queue'[n]].status = "pending"
    <3>1. queue'[n] \in Notices /\ queue'[n][1] # c
      BY <1>4, <2>2, <2>3
    <3>2. delivery[queue'[n]].status = "pending"
      BY <1>2, <2>2 DEF QueueFits
    <3> QED
      BY <1>4, <3>1, <3>2
  <2> QED
    BY <2>2, <2>4 DEF QueueFits
<1>7. \A d \in Notices : \/ delivery'[d] = delivery[d] /\ arrived'[d] = arrived[d]
                         \/ delivery'[d].status = "none" /\ d \notin owed' /\ channel'[d[1]].row = "gone"
  <2> SUFFICES ASSUME NEW d \in Notices, d[1] = c
               PROVE  delivery'[d].status = "none" /\ d \notin owed' /\ channel'[d[1]].row = "gone"
    BY <1>4
  <2>1. delivery'[d].status = "none"
    BY <1>4 DEF NoDelivery
  <2>2. d \notin owed'
    BY <1>1
  <2> QED
    BY <1>3, <2>1, <2>2
<1>8. edits' \in 0 .. MaxEdits
  BY <1>1, <1>2, NotificationAssumption
<1>9. owed' \subseteq owed /\ \A d \in owed' : d[1] # c
  BY <1>1
<1> HIDE DEF G
<1> QED
  BY <1>1, <1>3, <1>5, <1>6, <1>7, <1>8, <1>9, ChannelMoves

LEMMA ElapseKeeps ==
    ASSUME NotifyInv, NEW d \in Notices, Elapse(d)
    PROVE  NotifyInv'
<1>1. /\ delivery[d].status = "pending" /\ ~Contains(queue, d) /\ queue' = Append(queue, d)
      /\ UNCHANGED <<outboxVars, delivery, pass, notifyFaults, arrived>>
  BY DEF Elapse
<1>2. queue \in Seq(Notices) /\ Distinct(queue) /\ QueueFits(queue, delivery)
  BY DEF NotifyInv, QueueFits
<1>3. \A i \in 1 .. Len(queue) : queue[i] # d
  BY <1>1 DEF Contains
<1>4. /\ queue' \in Seq(Notices) /\ Distinct(queue')
      /\ \A n \in 1 .. Len(queue') : queue'[n] = d \/ \E i \in 1 .. Len(queue) : queue'[n] = queue[i]
  BY <1>1, <1>2, <1>3, AppendedFits
<1>5. QueueFits(queue', delivery)
  BY <1>1, <1>2, <1>4 DEF QueueFits
<1> QED
  BY <1>1, <1>5 DEF NotifyInv, outboxVars

-----------------------------------------------------------------------------
(* Notification: the disturbances, and the theorem.                        *)

LEMMA StatementFailsKeeps ==
    ASSUME NotifyInv, StatementFails
    PROVE  NotifyInv'
<1>1. /\ notifyFaults < NotifyFaults /\ notifyFaults' = notifyFaults + 1
      /\ UNCHANGED <<log, pruned, channel, cursor, edits, owed, delivery, queue, arrived>>
  BY DEF StatementFails, Disturb, outboxVars
<1>2. notifyFaults \in Nat /\ NotifyFaults \in Nat /\ PassShape(pass)
  BY NotificationAssumption DEF NotifyInv
<1>3. notifyFaults' <= NotifyFaults /\ notifyFaults' \in notifyFaults .. NotifyFaults
  BY <1>1, <1>2
<1>4. CASE pass' = [IdlePass EXCEPT !.at = "queued"]
  <2>1. PassShape(pass') /\ pass'.at = "queued"
    BY <1>4 DEF PassShape, IdlePass
  <2> QED
    BY <1>1, <1>3, <2>1, QuietPass
<1>5. CASE pass' = IdlePass
  BY <1>1, <1>3, <1>5, IdlePassFits, QuietPass
<1>6. CASE pass.at = "sent" /\ NextDue
  <2>1. MovesOn
    BY <1>2, <1>6, NextDueMovesOn
  <2>2. /\ PassShape(pass') /\ pass'.at \in {"idle", "delivering"} /\ DueFits(pass', delivery, arrived, channel)
    BY <1>6, <2>1, RestStaysDue
  <2>3. BatchFits(pass', owed, log, pruned, cursor, channel, delivery)
    BY <2>2 DEF BatchFits
  <2>4. RepeatsFit(pass', delivery, arrived, notifyFaults')
    <3> SUFFICES ASSUME NEW d \in Notices, delivery[d].status # "none"
                 PROVE  arrived[d] <= delivery[d].attempts + notifyFaults' + Underway(pass', d)
      BY DEF RepeatsFit
    <3>1. arrived[d] \in Nat /\ delivery[d].attempts \in Nat
      BY NotificationAssumption DEF NotifyInv, OutboxFits, RowFits
    <3>2. arrived[d] <= delivery[d].attempts + notifyFaults + Underway(pass, d)
      BY DEF NotifyInv, RepeatsFit
    <3>3. Underway(pass, d) \in {0, 1} /\ Underway(pass', d) = 0
      BY <2>2 DEF Underway
    <3> QED
      BY <1>1, <1>2, <3>1, <3>2, <3>3
  <2> QED
    BY <1>1, <1>3, <2>2, <2>3, <2>4, PassMoves
<1> QED
  BY <1>4, <1>5, <1>6 DEF StatementFails

LEMMA NoticeDisturbancesKeep ==
    ASSUME NotifyInv, SealKeyring \/ NotifyUnseal \/ Stop
    PROVE  NotifyInv'
<1>1. /\ notifyFaults \in Nat /\ NotifyFaults \in Nat /\ PassShape(pass) /\ OutboxFits(delivery, arrived, channel)
      /\ RepeatsFit(pass, delivery, arrived, notifyFaults)
      /\ BatchFits(pass, owed, log, pruned, cursor, channel, delivery)
      /\ DueFits(pass, delivery, arrived, channel)
      /\ notifyFaults <= NotifyFaults
  BY NotificationAssumption DEF NotifyInv
<1>2. CASE SealKeyring \/ NotifyUnseal
  <2>1. /\ pass' = pass /\ UNCHANGED <<log, pruned, channel, cursor, edits, owed, delivery, queue, arrived>>
        /\ notifyFaults' \in notifyFaults .. NotifyFaults
    BY <1>1, <1>2 DEF SealKeyring, NotifyUnseal, Disturb
  <2>2. RepeatsFit(pass, delivery, arrived, notifyFaults')
    <3> SUFFICES ASSUME NEW d \in Notices, delivery[d].status # "none"
                 PROVE  arrived[d] <= delivery[d].attempts + notifyFaults' + Underway(pass, d)
      BY DEF RepeatsFit
    <3>1. arrived[d] \in Nat /\ delivery[d].attempts \in Nat
      BY <1>1, NotificationAssumption DEF OutboxFits, RowFits
    <3>2. arrived[d] <= delivery[d].attempts + notifyFaults + Underway(pass, d)
      BY <1>1 DEF RepeatsFit
    <3>3. Underway(pass, d) \in {0, 1}
      BY DEF Underway
    <3> HIDE DEF Underway
    <3> QED
      BY <1>1, <2>1, <3>1, <3>2, <3>3
  <2> QED
    BY <1>1, <2>1, <2>2, PassMoves
<1>3. CASE Stop
  <2>1. /\ pass' = IdlePass /\ UNCHANGED <<log, pruned, channel, cursor, edits, owed, delivery, queue, arrived>>
        /\ notifyFaults' = notifyFaults + 1 /\ notifyFaults' <= NotifyFaults
    BY <1>1, <1>3 DEF Stop, Disturb
  <2> QED
    BY <2>1, IdlePassFits, QuietPass
<1> QED
  BY <1>2, <1>3

LEMMA NotifyStarts ==
    ASSUME NotifyInit
    PROVE  NotifyInv
<1>1. 0 \in 0 .. NotifyFaults /\ 0 \in 0 .. MaxEdits /\ 0 \in 0 .. MaxAttempts /\ 0 \in 0 .. MaxEvents
  BY NotificationAssumption
<1>2. LogFits(log, pruned, cursor) /\ ChannelsFit(channel)
  <2>1. log \in Seq(Kinds \cup {Quiet}) /\ Len(log) = 0
    BY EmptySeq DEF NotifyInit
  <2> QED
    BY <1>1, <2>1 DEF NotifyInit, LogFits, ChannelsFit, NoChannel
<1>3. OutboxFits(delivery, arrived, channel)
  <2>1. RowFits(NoDelivery, 0, "none")
    BY <1>1 DEF RowFits, NoDelivery
  <2>2. /\ delivery = [d \in Notices |-> delivery[d]] /\ arrived = [d \in Notices |-> arrived[d]]
        /\ \A d \in Notices : delivery[d] = NoDelivery /\ arrived[d] = 0 /\ channel[d[1]].row = "none"
    BY DEF NotifyInit, NoChannel, Notices
  <2> QED
    BY <2>1, <2>2 DEF OutboxFits
<1>4. QueueFits(queue, delivery)
  <2>1. queue \in Seq(Notices) /\ Len(queue) = 0 /\ DOMAIN queue = {}
    BY EmptySeq DEF NotifyInit
  <2> QED
    BY <2>1 DEF QueueFits, Distinct
<1>5. /\ PassShape(pass) /\ pass.at = "idle"
  BY IdlePassFits DEF NotifyInit
<1>6. /\ BatchFits(pass, owed, log, pruned, cursor, channel, delivery) /\ DueFits(pass, delivery, arrived, channel)
  BY <1>5 DEF BatchFits, DueFits
<1>7. RepeatsFit(pass, delivery, arrived, notifyFaults) /\ OwedFits(owed, log, pruned, cursor, channel, delivery)
  BY DEF NotifyInit, RepeatsFit, OwedFits, NoDelivery
<1> QED
  BY <1>1, <1>2, <1>3, <1>4, <1>5, <1>6, <1>7 DEF NotifyInit, NotifyInv

LEMMA NotifyStepInv ==
    ASSUME NotifyInv, [NotifyNext]_notifyVars
    PROVE  NotifyInv'
<1>1. CASE Dispatch
  BY <1>1, NotifyTickKeeps, ListEnabledChannelsKeeps, FanOutStepKeeps, ClaimDueDeliveriesKeeps, SkipGoneKeeps,
     OpenChannelKeeps, DropDisabledKeeps, SendAcceptedKeeps, SendFailsKeeps, MarkDeliveredKeeps DEF Dispatch
<1>2. CASE Administer
  BY <1>2, DeleteChannelKeeps, CreateChannelKeeps, UpdateChannelKeeps DEF Administer
<1>3. CASE \E k \in Kinds \cup {Quiet} : RecordEvent(k)
  BY <1>3, RecordEventKeeps
<1>4. CASE \E n \in pruned + 1 .. Len(log) : PruneLog(n)
  BY <1>4, PruneLogKeeps
<1>5. CASE \E d \in Notices : Elapse(d)
  BY <1>5, ElapseKeeps
<1>6. CASE StatementFails \/ SealKeyring \/ NotifyUnseal \/ Stop
  BY <1>6, StatementFailsKeeps, NoticeDisturbancesKeep
<1>7. CASE UNCHANGED notifyVars
  BY <1>7 DEF notifyVars, NotifyInv
<1> QED
  BY <1>1, <1>2, <1>3, <1>4, <1>5, <1>6, <1>7 DEF NotifyNext

\* The outbox loses and invents nothing: what the cursor has passed is queued for everybody
\* still subscribed, "delivered" is said of what arrived, and a message comes again no oftener
\* than failed attempts and disturbances account for (fanOut, deliver), whatever the number of
\* channels, events, attempts and disturbances.
THEOREM NoticesHold == NotifySpec => []NoticesAreAccountedFor
<1>1. NotifyInit => NotifyInv
  BY NotifyStarts
<1>2. NotifyInv => NoticesAreAccountedFor
  <2> SUFFICES ASSUME NotifyInv PROVE NoticesAreAccountedFor
    OBVIOUS
  <2>1. NotifyTypeOK
    <3>1. /\ log \in Seq(Kinds \cup {Quiet}) /\ Len(log) <= MaxEvents
          /\ pruned \in 0 .. Len(log) /\ cursor \in 0 .. Len(log)
          /\ channel \in [Channels -> [row : {"none", "enabled", "disabled", "gone"}, events : SUBSET Kinds]]
          /\ owed \subseteq Notices /\ notifyFaults \in 0 .. NotifyFaults /\ edits \in 0 .. MaxEdits
          /\ pass.at \in {"idle", "tailed", "listed", "queued", "delivering", "sent"}
      BY NotificationAssumption DEF NotifyInv, LogFits, ChannelsFit, OwedFits, PassShape
    <3>2. /\ delivery \in [Notices -> [status : {"none", "pending", "delivered", "failed"},
                                       attempts : 0 .. MaxAttempts]]
          /\ arrived \in [Notices -> Nat]
          /\ \A d \in Notices : delivery[d].status # "none" => channel[d[1]].row \notin {"none", "gone"}
      BY DEF NotifyInv, OutboxFits, RowFits
    <3>3. \A i \in DOMAIN queue : delivery[queue[i]].status = "pending"
      BY LenProperties DEF NotifyInv, QueueFits
    <3> QED
      BY <3>1, <3>2, <3>3 DEF NotifyTypeOK
  <2>2. NothingPassesUnqueued
    <3> SUFFICES ASSUME NEW d \in owed, d[2] <= cursor, delivery[d].status = "none" PROVE FALSE
      BY DEF NothingPassesUnqueued
    <3>1. d[2] \in Nat /\ cursor \in Nat /\ d[2] > cursor
      BY DEF NotifyInv, OwedFits, LogFits, Notices
    <3> QED
      BY <3>1
  <2>3. DeliveredMeansArrived
    BY DEF NotifyInv, OutboxFits, RowFits, DeliveredMeansArrived
  <2>4. RepeatsAreAccountedFor
    <3>1. pass.at = "sent" => Current = pass.due[1]
      BY CurrentFits
    <3> QED
      BY <3>1 DEF NotifyInv, RepeatsFit, Underway, RepeatsAreAccountedFor
  <2> QED
    BY <2>1, <2>2, <2>3, <2>4 DEF NoticesAreAccountedFor
<1> QED
  BY <1>1, <1>2, NotifyStepInv, PTL DEF NotifySpec

=============================================================================
