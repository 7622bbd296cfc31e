------------------------------- MODULE Access -------------------------------
(***************************************************************************)
(* Who may do what: direct role bindings, bindings of groups and their     *)
(* members, and the break-glass grants laid over both; the handlers that   *)
(* change them, with the two guards those repeat (nobody hands out a role  *)
(* above the one bound to him, the last instance owner stays), and the     *)
(* access review that reports the result.                                  *)
(*                                                                         *)
(* Roles are their ranks. The role bundles of the code are cumulative, so  *)
(* an action is the least rank that carries it. A handler is admitted,     *)
(* passes the last-owner guard where it has one, and writes: three steps,  *)
(* each a query of its own.                                                *)
(***************************************************************************)
EXTENDS Naturals, FiniteSets

CONSTANTS
    People,         \* user accounts
    Oldest,         \* the first account, the one bootstrap and reconcile bind
    Teams,          \* groups that may exist
    Directory,      \* those of kind oidc, whose members come from logins
    Projects, Envs,
    ProjectOf,      \* the project of each environment
    RoleRanks,      \* the roles in play, of the four ranks
    AccessCalls,    \* concurrent requests
    MaxGrants,      \* bound on break-glass grants activated
    MaxBoots        \* bound on restarts

Viewer == 1
Admin == 3
Owner == 4
ASSUME AccessAssumption ==
    /\ Oldest \in People /\ Directory \subseteq Teams
    /\ ProjectOf \in [Envs -> Projects]
    /\ "instance" \notin Projects \cup Envs /\ Projects \cap Envs = {}
    /\ RoleRanks \subseteq 1..Owner /\ {Viewer, Admin, Owner} \subseteq RoleRanks
    /\ MaxGrants \in Nat /\ MaxBoots \in Nat

Instance == "instance"
Scopes == {Instance} \cup Projects \cup Envs
NobodyElse == "nobody"

VARIABLES
    direct,      \* role_bindings: the rank of each person at each scope, 0 for no row
    teamRole,    \* group_role_bindings, the same by group
    teams,       \* groups that exist
    roster,      \* group_members
    fresh,       \* people whose oidc membership was synced within the accepted age
    off,         \* disabled accounts
    grants,      \* break-glass grants not revoked; those past expiry have live = FALSE
    activated,   \* grants activated so far
    boots,
    request,     \* local state of each call
    crossed      \* history: a last-owner guard was passed while another removal was pending

accessVars == <<direct, teamRole, teams, roster, fresh, off, grants, activated, boots,
                request, crossed>>

IdleRequest == [pc |-> "idle", op |-> "none", by |-> NobodyElse, subject |-> NobodyElse,
                scope |-> Instance, role |-> 0, rows |-> {}, held |-> 0]

AccessInit ==
    /\ direct = [p \in People |-> [s \in Scopes |-> IF p = Oldest /\ s = Instance THEN Owner ELSE 0]]
    /\ teamRole = [t \in Teams |-> [s \in Scopes |-> 0]]
    /\ teams = Teams /\ roster = [t \in Teams |-> {}] /\ fresh = {} /\ off = {}
    /\ grants = {} /\ activated = 0 /\ boots = 0
    /\ request = [c \in AccessCalls |-> IdleRequest] /\ crossed = FALSE

-----------------------------------------------------------------------------
(* The decision.                                                           *)

\* A row at scope s is in force for resource r: everywhere, in its project, in its environment.
BindingApplies(s, r) == s = Instance \/ s = r \/ (r \in Envs /\ s = ProjectOf[r])

\* The groups through which p holds anything: a membership of kind oidc counts while fresh.
GroupsOf(p) == {t \in teams : p \in roster[t] /\ (t \in Directory => p \in fresh)}
Reaching(r) == {s \in Scopes : BindingApplies(s, r)}

\* bindingsFor and userAllows: some applicable row, direct or of a group, carries the rank.
UserAllows(p, rank, r) ==
    \E s \in Reaching(r) : direct[p][s] >= rank \/ \E t \in GroupsOf(p) : teamRole[t][s] >= rank
\* grantsAllow: some live grant at an applicable scope does.
GrantsAllow(p, rank, r) ==
    \E g \in grants : g.person = p /\ g.live /\ g.role >= rank /\ BindingApplies(g.scope, r)
Can(p, rank, r) == UserAllows(p, rank, r) \/ GrantsAllow(p, rank, r)

BoundRole(p, r) == Cardinality({n \in 1..Owner : UserAllows(p, n, r)})
EffectiveRole(p, r) == Cardinality({n \in 1..Owner : Can(p, n, r)})

\* What the console offers: the actions allowed at the instance or at the own scope of some
\* row or grant, the environment of a row named without its project.
CandidateScopes(p) ==
    {s \in Scopes : \/ direct[p][s] > 0 \/ \E t \in GroupsOf(p) : teamRole[t][s] > 0
                    \/ \E g \in grants : g.person = p /\ g.live /\ g.scope = s}
AllowedAlone(p, n, s) ==
    \E x \in {Instance, s} : \/ direct[p][x] >= n \/ \E t \in GroupsOf(p) : teamRole[t][x] >= n
                             \/ \E g \in grants : g.person = p /\ g.live /\ g.scope = x /\ g.role >= n
Anywhere(p) == {n \in 1..Owner : \E s \in {Instance} \cup CandidateScopes(p) : AllowedAlone(p, n, s)}

InstanceOwners == {p \in People : direct[p][Instance] = Owner}
\* isLastInstanceOwner counts rows; whether their accounts can still sign in is not asked.
IsLastInstanceOwner(p) == Cardinality(InstanceOwners) <= 1 /\ p \in InstanceOwners

-----------------------------------------------------------------------------
(* Handlers: admission.                                                    *)

Goto(c, r) == request' = [request EXCEPT ![c] = r]
Finish(c) == Goto(c, IdleRequest)
\* A disabled account is refused by the session check of every request.
Admitted(c, by, rank, r) == request[c].pc = "idle" /\ by \notin off /\ Can(by, rank, r)

\* Mutant of MayGrant: the cap counts a break-glass grant.
MayGrantEffective(by, s, role) == Can(by, role, s)
\* memberPut: authority at the scope, then the cap measured against the BOUND role.
MayGrant(by, s, role) == UserAllows(by, role, s)
\* Mutant of MemberPut: a demotion in place is not taken for a removal.
MemberPutUnguarded(c, by, subject, s, role) ==
    /\ Admitted(c, by, Admin, s) /\ MayGrant(by, s, role)
    /\ Goto(c, [IdleRequest EXCEPT !.pc = "write",
                !.op = "put", !.by = by, !.subject = subject, !.scope = s, !.role = role,
                !.held = BoundRole(by, s)])
    /\ UNCHANGED <<direct, teamRole, teams, roster, fresh, off, grants, activated, boots, crossed>>
MemberPut(c, by, subject, s, role) ==
    /\ Admitted(c, by, Admin, s) /\ MayGrant(by, s, role)
    /\ Goto(c, [IdleRequest EXCEPT
                !.pc = IF s = Instance /\ role # Owner THEN "guard" ELSE "write",
                !.op = "put", !.by = by, !.subject = subject, !.scope = s, !.role = role,
                !.held = BoundRole(by, s)])
    /\ UNCHANGED <<direct, teamRole, teams, roster, fresh, off, grants, activated, boots, crossed>>

\* memberDelete: no cap, only the guard.
MemberDelete(c, by, subject, s) ==
    /\ Admitted(c, by, Admin, s)
    /\ Goto(c, [IdleRequest EXCEPT !.pc = IF s = Instance THEN "guard" ELSE "write",
                !.op = "delete", !.by = by, !.subject = subject, !.scope = s])
    /\ UNCHANGED <<direct, teamRole, teams, roster, fresh, off, grants, activated, boots, crossed>>

\* handleUserDisable: never oneself, never the last owner.
UserDisable(c, by, subject) ==
    /\ Admitted(c, by, Admin, Instance) /\ subject # by
    /\ Goto(c, [IdleRequest EXCEPT !.pc = "guard", !.op = "disable", !.by = by, !.subject = subject])
    /\ UNCHANGED <<direct, teamRole, teams, roster, fresh, off, grants, activated, boots, crossed>>

\* The scopes one caller may manage: the instance, and the projects with their environments,
\* optionally narrowed to one project. An authority over an environment alone opens nothing.
AccessView(by, rank, wanted) ==
    LET whole == Can(by, rank, Instance)
        ps == {p \in Projects : (whole \/ Can(by, rank, p)) /\ (wanted # NobodyElse => p = wanted)}
    IN  (IF whole THEN {Instance} ELSE {}) \cup ps \cup {e \in Envs : ProjectOf[e] \in ps}

\* What the review finds for a person in a view. It does not apply the oidc age.
ListForScopes(p, view) ==
    {[scope |-> s, role |-> direct[p][s]] : s \in {x \in view : direct[p][x] > 0}}
\* Mutant of DerivedForScopes: members that come from logins are left out.
DerivedForScopesOfLocal(p, view) ==
    {[scope |-> s, role |-> teamRole[t][s]] : t \in {x \in teams \ Directory : p \in roster[x]}, s \in view}
DerivedForScopes(p, view) ==
    {[scope |-> s, role |-> teamRole[t][s]] : t \in {x \in teams : p \in roster[x]}, s \in view}
\* One cell of the matrix shows the rank.
ReviewCell(p, view, rank, r) ==
    \E b \in ListForScopes(p, view) \cup DerivedForScopes(p, view) : b.role >= rank /\ BindingApplies(b.scope, r)

\* handleAccessRevokeAll: the view, then the direct rows found in it.
RevokeAll(c, by, subject, wanted) ==
    LET view == AccessView(by, Admin, wanted)
        rows == ListForScopes(subject, view)
    IN  /\ request[c].pc = "idle" /\ by \notin off /\ view \ {Instance} # {}
        /\ Goto(c, [IdleRequest EXCEPT
                    !.pc = IF [scope |-> Instance, role |-> Owner] \in rows THEN "guard" ELSE "caps",
                    !.op = "revokeAll", !.by = by, !.subject = subject, !.rows = rows])
        /\ UNCHANGED <<direct, teamRole, teams, roster, fresh, off, grants, activated, boots, crossed>>

-----------------------------------------------------------------------------
(* Handlers: guard and write.                                              *)

\* A call that will take away or lower a row at the instance.
Lowers(d) ==
    \/ request[d].pc = "write" /\ request[d].op = "delete" /\ request[d].scope = Instance
    \/ request[d].pc = "write" /\ request[d].op = "put" /\ request[d].scope = Instance /\ request[d].role < Owner
    \/ request[d].pc \in {"caps", "sweep"} /\ \E b \in request[d].rows : b.scope = Instance

OwnerGuard(c) ==
    /\ request[c].pc = "guard"
    /\ IF IsLastInstanceOwner(request[c].subject)
       THEN Finish(c) /\ UNCHANGED crossed
       ELSE /\ Goto(c, [request[c] EXCEPT !.pc = IF request[c].op = "revokeAll" THEN "caps" ELSE "write"])
            /\ crossed' = (crossed \/ (request[c].op # "disable" /\ \E d \in AccessCalls \ {c} : Lowers(d)))
    /\ UNCHANGED <<direct, teamRole, teams, roster, fresh, off, grants, activated, boots>>

\* The row is inserted or its role replaced in place.
WriteBinding(c) ==
    /\ request[c].pc = "write" /\ request[c].op = "put"
    /\ direct' = [direct EXCEPT ![request[c].subject][request[c].scope] = request[c].role]
    /\ Finish(c)
    /\ UNCHANGED <<teamRole, teams, roster, fresh, off, grants, activated, boots, crossed>>

DeleteBinding(c) ==
    /\ request[c].pc = "write" /\ request[c].op = "delete"
    /\ direct' = [direct EXCEPT ![request[c].subject][request[c].scope] = 0]
    /\ Finish(c)
    /\ UNCHANGED <<teamRole, teams, roster, fresh, off, grants, activated, boots, crossed>>

DisablePerson(c) ==
    /\ request[c].pc = "write" /\ request[c].op = "disable"
    /\ off' = off \cup {request[c].subject} /\ Finish(c)
    /\ UNCHANGED <<direct, teamRole, teams, roster, fresh, grants, activated, boots, crossed>>

\* The caps of every scope in play are read once; rows above them are skipped.
RevokeCaps(c) ==
    /\ request[c].pc = "caps"
    /\ Goto(c, [request[c] EXCEPT !.pc = "sweep", !.rows =
                {b \in @ : \A n \in {Admin, b.role} : UserAllows(request[c].by, n, b.scope)}])
    /\ UNCHANGED <<direct, teamRole, teams, roster, fresh, off, grants, activated, boots, crossed>>

\* One revocation at a time, by scope: whatever role the row has by now.
RevokeOne(c) ==
    /\ request[c].pc = "sweep" /\ request[c].rows # {}
    /\ \E b \in request[c].rows :
         /\ direct' = [direct EXCEPT ![request[c].subject][b.scope] = 0]
         /\ Goto(c, [request[c] EXCEPT !.rows = @ \ {b}])
    /\ UNCHANGED <<teamRole, teams, roster, fresh, off, grants, activated, boots, crossed>>

\* The summary, or an error or a stop that leaves the remaining rows.
RevokeDone(c) ==
    /\ request[c].pc = "sweep" /\ Finish(c)
    /\ UNCHANGED <<direct, teamRole, teams, roster, fresh, off, grants, activated, boots, crossed>>

\* A stop or a failed query before the write.
RequestDies(c) ==
    /\ request[c].pc \in {"guard", "write", "caps", "create"} /\ Finish(c)
    /\ UNCHANGED <<direct, teamRole, teams, roster, fresh, off, grants, activated, boots, crossed>>

-----------------------------------------------------------------------------
(* Groups.                                                                 *)

GroupMayGrant(role) == role # Owner
\* groupMemberPut: the role stops at admin, the same cap as for a person.
GroupMemberPut(c, by, t, s, role) ==
    /\ Admitted(c, by, Admin, s) /\ GroupMayGrant(role) /\ MayGrant(by, s, role) /\ t \in teams
    /\ Goto(c, [IdleRequest EXCEPT !.pc = "write", !.op = "groupPut", !.by = by, !.subject = t,
                !.scope = s, !.role = role, !.held = BoundRole(by, s)])
    /\ UNCHANGED <<direct, teamRole, teams, roster, fresh, off, grants, activated, boots, crossed>>

\* A group dropped meanwhile fails the foreign key.
WriteGroupBinding(c) ==
    /\ request[c].pc = "write" /\ request[c].op = "groupPut" /\ Finish(c)
    /\ teamRole' = IF request[c].subject \in teams
                   THEN [teamRole EXCEPT ![request[c].subject][request[c].scope] = request[c].role]
                   ELSE teamRole
    /\ UNCHANGED <<direct, teams, roster, fresh, off, grants, activated, boots, crossed>>

GroupMemberDelete(by, t, s) ==
    /\ by \notin off /\ Can(by, Admin, s) /\ teamRole[t][s] > 0
    /\ teamRole' = [teamRole EXCEPT ![t][s] = 0]
    /\ UNCHANGED <<direct, teams, roster, fresh, off, grants, activated, boots, request, crossed>>

\* The catalog, under group:manage at the instance. Only a local group is edited by hand.
GroupCreate(by, t) ==
    /\ by \notin off /\ Can(by, Admin, Instance) /\ t \notin teams
    /\ teams' = teams \cup {t}
    /\ UNCHANGED <<direct, teamRole, roster, fresh, off, grants, activated, boots, request, crossed>>

\* Members and bindings go with the group.
GroupDelete(by, t) ==
    /\ by \notin off /\ Can(by, Admin, Instance) /\ t \in teams
    /\ teams' = teams \ {t}
    /\ roster' = [roster EXCEPT ![t] = {}]
    /\ teamRole' = [teamRole EXCEPT ![t] = [s \in Scopes |-> 0]]
    /\ UNCHANGED <<direct, fresh, off, grants, activated, boots, request, crossed>>

GroupRosterSet(by, t, p) ==
    /\ by \notin off /\ Can(by, Admin, Instance) /\ t \in teams \ Directory
    /\ roster' = [roster EXCEPT ![t] = IF p \in @ THEN @ \ {p} ELSE @ \cup {p}]
    /\ UNCHANGED <<direct, teamRole, teams, fresh, off, grants, activated, boots, request, crossed>>

\* A login through the provider replaces the person's oidc membership and its age.
DirectorySync(p, ts) ==
    /\ p \notin off /\ ts \subseteq Directory \cap teams
    /\ roster' = [t \in Teams |-> IF t \notin Directory THEN roster[t]
                                  ELSE IF t \in ts THEN roster[t] \cup {p} ELSE roster[t] \ {p}]
    /\ fresh' = fresh \cup {p}
    /\ UNCHANGED <<direct, teamRole, teams, off, grants, activated, boots, request, crossed>>

SyncAges(p) ==
    /\ p \in fresh /\ fresh' = fresh \ {p}
    /\ UNCHANGED <<direct, teamRole, teams, roster, off, grants, activated, boots, request, crossed>>

-----------------------------------------------------------------------------
(* Break-glass.                                                            *)

\* Measured against the bound role, which must exist and be lower: grants do not stack.
BreakGlassActivate(c, by, s, role) ==
    /\ request[c].pc = "idle" /\ by \notin off
    /\ BoundRole(by, s) > 0 /\ role > BoundRole(by, s)
    /\ Goto(c, [IdleRequest EXCEPT !.pc = "create", !.op = "elevate", !.by = by, !.scope = s, !.role = role])
    /\ UNCHANGED <<direct, teamRole, teams, roster, fresh, off, grants, activated, boots, crossed>>

GrantOf(c) == [id |-> activated + 1, person |-> request[c].by, scope |-> request[c].scope,
               role |-> request[c].role, live |-> TRUE]
CreateGrant(c) ==
    /\ request[c].pc = "create" /\ activated < MaxGrants
    /\ activated' = activated + 1 /\ grants' = grants \cup {GrantOf(c)}
    /\ Goto(c, [request[c] EXCEPT !.pc = "audit", !.held = activated + 1])
    /\ UNCHANGED <<direct, teamRole, teams, roster, fresh, off, boots, crossed>>

\* The audit write fails and the grant is revoked, or it succeeds; a stop, or a revocation
\* that fails too, leaves the grant as it is.
AuditGrant(c) ==
    /\ request[c].pc = "audit" /\ Finish(c)
    /\ \/ UNCHANGED grants
       \/ grants' = {g \in grants : g.id # request[c].held}
    /\ UNCHANGED <<direct, teamRole, teams, roster, fresh, off, activated, boots, crossed>>

GrantLapses(g) ==
    /\ g \in grants /\ g.live
    /\ grants' = (grants \ {g}) \cup {[g EXCEPT !.live = FALSE]}
    /\ UNCHANGED <<direct, teamRole, teams, roster, fresh, off, activated, boots, request, crossed>>

BreakGlassRevoke(by, g) ==
    /\ by \notin off /\ g \in grants /\ (g.person = by \/ Can(by, Admin, Instance))
    /\ grants' = grants \ {g}
    /\ UNCHANGED <<direct, teamRole, teams, roster, fresh, off, activated, boots, request, crossed>>

\* A start: lapsed grants are marked ended and, when there is no owner row, the oldest
\* account is bound owner. Requests in flight are gone.
Boot ==
    /\ boots < MaxBoots /\ boots' = boots + 1
    /\ grants' = {g \in grants : g.live}
    /\ direct' = IF InstanceOwners = {} THEN [direct EXCEPT ![Oldest][Instance] = Owner] ELSE direct
    /\ request' = [c \in AccessCalls |-> IdleRequest]
    /\ UNCHANGED <<teamRole, teams, roster, fresh, off, activated, crossed>>

-----------------------------------------------------------------------------
AccessNext ==
    \/ \E c \in AccessCalls, by, p \in People, s \in Scopes, r \in RoleRanks : MemberPut(c, by, p, s, r)
    \/ \E c \in AccessCalls, by, p \in People, s \in Scopes : MemberDelete(c, by, p, s)
    \/ \E c \in AccessCalls, by, p \in People : UserDisable(c, by, p)
    \/ \E c \in AccessCalls, by, p \in People, w \in Projects \cup {NobodyElse} : RevokeAll(c, by, p, w)
    \/ \E c \in AccessCalls : \/ OwnerGuard(c) \/ WriteBinding(c) \/ DeleteBinding(c) \/ DisablePerson(c)
                              \/ RevokeCaps(c) \/ RevokeOne(c) \/ RevokeDone(c) \/ RequestDies(c)
                              \/ WriteGroupBinding(c) \/ CreateGrant(c) \/ AuditGrant(c)
    \/ \E c \in AccessCalls, by \in People, t \in Teams, s \in Scopes, r \in RoleRanks : GroupMemberPut(c, by, t, s, r)
    \/ \E by \in People, t \in Teams, s \in Scopes : GroupMemberDelete(by, t, s)
    \/ \E by \in People, t \in Teams : GroupCreate(by, t) \/ GroupDelete(by, t)
    \/ \E by, p \in People, t \in Teams : GroupRosterSet(by, t, p)
    \/ \E p \in People, ts \in SUBSET Directory : DirectorySync(p, ts)
    \/ \E p \in People : SyncAges(p)
    \/ \E c \in AccessCalls, by \in People, s \in Scopes, r \in RoleRanks : BreakGlassActivate(c, by, s, r)
    \/ \E g \in grants : GrantLapses(g) \/ \E by \in People : BreakGlassRevoke(by, g)
    \/ Boot

AccessSpec == AccessInit /\ [][AccessNext]_accessVars

-----------------------------------------------------------------------------
(* Properties.                                                             *)

\* No request in flight. A request may die before it writes, so every content of the tables
\* is also reached quietly.
Quiet == \A c \in AccessCalls : request[c].pc = "idle"

\* Types. A group's row stops at admin, whatever its writer holds: ownership is always the
\* row of a person, which is why removing a group binding needs no last-owner guard.
AccessTypeOK ==
    /\ direct \in [People -> [Scopes -> 0..Owner]]
    /\ teamRole \in [Teams -> [Scopes -> 0..Admin]]
    /\ \A t \in Teams \ teams : roster[t] = {} /\ \A s \in Scopes : teamRole[t][s] = 0
    /\ off \subseteq People /\ activated \in 0..MaxGrants

\* A durable row rises only by a request whose caller durably held that role at that scope
\* when he was admitted, or at a start without owner: a break-glass elevation is never
\* turned into a binding that outlives it, neither a person's nor a group's.
RolesAreHandedDown ==
    [][<<direct, teamRole>>' # <<direct, teamRole>> => \A s \in Scopes :
        /\ \A p \in People : direct'[p][s] > direct[p][s] =>
             \/ \E c \in AccessCalls : request[c].op = "put" /\ request[c].held >= direct'[p][s]
             \/ InstanceOwners = {} /\ boots' > boots
        /\ \A t \in Teams : teamRole'[t][s] > teamRole[t][s] =>
             \E c \in AccessCalls : request[c].op = "groupPut" /\ request[c].held >= teamRole'[t][s]]_accessVars

\* The last owner row disappears only when two removals overlap, the second passing its
\* guard while the first has passed and not yet written. One removal at a time, by whichever
\* of the handlers that repeat the guard, always leaves an owner row.
OwnerLostOnlyByOverlap == crossed \/ InstanceOwners # {}

\* Where the reviewer sees the instance, no cell of the matrix shows less than the engine
\* grants through bindings: a review never reads as clean while access remains.
ReviewNeverUnderstates ==
    Quiet => \A by \in People, w \in Projects \cup {NobodyElse} :
        LET view == AccessView(by, Viewer, w)
        IN  Instance \in view => \A p \in People, r \in view, n \in RoleRanks :
              UserAllows(p, n, r) => ReviewCell(p, view, n, r)

\* The actions the console offers somewhere are those some resource would allow: the menu
\* built from the candidate scopes neither hides nor invents what the engine decides.
MenuMatchesTheDoor == Quiet => \A p \in People : Anywhere(p) = {n \in 1..Owner : \E r \in Scopes : Can(p, n, r)}

\* What access reviews and the menu of grantable scopes tell agrees with the decisions
\* made at the door, after any sequence of grants, groups and elevations.
ReviewTellsAll == AccessTypeOK /\ ReviewNeverUnderstates /\ MenuMatchesTheDoor

=============================================================================
