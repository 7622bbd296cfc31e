---------------------------- MODULE AccessProofs ----------------------------
(***************************************************************************)
(* Who may do what, for any number of people, groups, scopes and concurrent *)
(* requests; and signing in through an OIDC provider and with a passkey,   *)
(* for any number of accounts, subjects, authenticators and requests.      *)
(***************************************************************************)
EXTENDS Access, Passkeys, OIDCLogin, FiniteSetTheorems, TLAPS

-----------------------------------------------------------------------------
(* Access: the inductive invariant.                                        *)

Ranks == 0 .. Owner
Found == [scope : Scopes, role : Ranks]
Grants == [id : Nat, person : People, scope : Scopes, role : Ranks, live : BOOLEAN]
RequestState ==
    [pc : {"idle", "guard", "write", "caps", "sweep", "create", "audit"},
     op : {"none", "put", "delete", "disable", "revokeAll", "groupPut", "elevate"},
     by : People \cup {NobodyElse}, subject : People \cup Teams \cup {NobodyElse},
     scope : Scopes, role : Ranks, rows : SUBSET Found, held : Nat]

Typed ==
    /\ AccessTypeOK
    /\ teams \subseteq Teams /\ roster \in [Teams -> SUBSET People]
    /\ grants \subseteq Grants /\ boots \in Nat
    /\ request \in [AccessCalls -> RequestState]

\* Every request past its admission is of the kind its handler makes, and grants no more than
\* its caller held.
Proper(q) ==
    /\ q.op \in {"put", "delete", "disable", "revokeAll"} => q.subject \in People
    /\ q.op = "groupPut" => q.subject \in Teams /\ q.role <= Admin
    /\ q.op \in {"put", "groupPut"} => q.role <= q.held
    /\ q.pc \in {"caps", "sweep"} => q.op = "revokeAll"
    /\ q.pc \in {"create", "audit"} => q.op = "elevate" /\ q.by \in People
WellMade == \A c \in AccessCalls : Proper(request[c])

\* As long as no two removals have overlapped, some owner is out of reach of every removal
\* that has passed its guard.
OwnerOutOfReach ==
    crossed \/ \E p \in InstanceOwners : \A d \in AccessCalls : Lowers(d) => request[d].subject # p

AccessInv == Typed /\ WellMade /\ OwnerOutOfReach

-----------------------------------------------------------------------------
(* Access: lemmas on the decision.                                         *)

\* A role carries every lower one, so the bound role is at least each role that is allowed.
LEMMA BoundRoleCovers ==
    ASSUME Typed, NEW p \in People, NEW r \in Scopes, NEW role \in 1 .. Owner, UserAllows(p, role, r)
    PROVE  BoundRole(p, r) \in Nat /\ role <= BoundRole(p, r)
<1> DEFINE S == {n \in 1 .. Owner : UserAllows(p, n, r)}
<1>1. \A n \in 1 .. role : n \in S
  <2> SUFFICES ASSUME NEW n \in 1 .. role PROVE n \in 1 .. Owner /\ UserAllows(p, n, r)
    OBVIOUS
  <2>1. n \in Nat /\ role \in Nat /\ n <= role /\ n \in 1 .. Owner
    BY DEF Owner
  <2>2. PICK s \in Reaching(r) : direct[p][s] >= role \/ \E t \in GroupsOf(p) : teamRole[t][s] >= role
    BY DEF UserAllows
  <2>3. s \in Scopes
    BY DEF Reaching
  <2>4. CASE direct[p][s] >= role
    <3>1. direct[p][s] \in Nat
      BY <2>3 DEF Typed, AccessTypeOK, Owner
    <3>2. direct[p][s] >= n
      BY <2>1, <2>4, <3>1
    <3> QED
      BY <2>1, <2>2, <3>2 DEF UserAllows
  <2>5. ASSUME NEW t \in GroupsOf(p), teamRole[t][s] >= role PROVE UserAllows(p, n, r)
    <3>1. t \in Teams
      BY DEF GroupsOf, Typed
    <3>2. teamRole[t][s] \in Nat
      BY <2>3, <3>1 DEF Typed, AccessTypeOK, Admin
    <3>3. teamRole[t][s] >= n
      BY <2>1, <2>5, <3>2
    <3> QED
      BY <2>2, <3>3 DEF UserAllows
  <2> QED
    BY <2>1, <2>2, <2>4, <2>5
<1>2. IsFiniteSet(S)
  <2>0. 1 \in Int /\ Owner \in Int
    BY DEF Owner
  <2>1. IsFiniteSet(1 .. Owner)
    BY <2>0, FS_Interval
  <2> QED
    BY <2>1, FS_Subset
<1>3. 1 .. role \in SUBSET S
  BY <1>1
<1>4. Cardinality(1 .. role) = role
  <2>1. Cardinality(1 .. role) = IF 1 > role THEN 0 ELSE role - 1 + 1
    BY FS_Interval DEF Owner
  <2> QED
    BY <2>1 DEF Owner
<1>5. Cardinality(S) \in Nat /\ Cardinality(1 .. role) <= Cardinality(S)
  BY <1>2, <1>3, FS_Subset, FS_CardinalityType
<1> QED
  BY <1>4, <1>5 DEF BoundRole

\* An owner other than one who is not the last.
LEMMA AnotherOwner ==
    ASSUME NEW p, ~IsLastInstanceOwner(p), InstanceOwners # {}
    PROVE  \E q \in InstanceOwners : q # p
<1>1. CASE p \notin InstanceOwners
  BY <1>1
<1>2. CASE p \in InstanceOwners
  <2> SUFFICES ASSUME \A q \in InstanceOwners : q = p PROVE FALSE
    OBVIOUS
  <2>1. InstanceOwners = {p}
    BY <1>2
  <2> QED
    BY <1>2, <2>1, FS_Singleton DEF IsLastInstanceOwner
<1> QED
  BY <1>1, <1>2

\* The request that a handler leaves is typed: an idle one, and one derived from it.
LEMMA IdleRequestTyped == IdleRequest \in RequestState
BY DEF IdleRequest, RequestState, Scopes, Ranks, Owner

-----------------------------------------------------------------------------
(* Access: steps.                                                          *)

\* AccessInv holds at the first start.
LEMMA AccessInitInv == AccessInit => AccessInv
<1> SUFFICES ASSUME AccessInit PROVE AccessInv
  OBVIOUS
<1>1. Typed
  <2>1. direct \in [People -> [Scopes -> 0 .. Owner]]
    BY DEF AccessInit, Owner
  <2>2. teamRole \in [Teams -> [Scopes -> 0 .. Admin]]
    BY DEF AccessInit, Admin
  <2> QED
    BY <2>1, <2>2, IdleRequestTyped, AccessAssumption DEF AccessInit, Typed, AccessTypeOK
<1>2. WellMade
  BY DEF AccessInit, WellMade, Proper, IdleRequest
<1>3. OwnerOutOfReach
  <2>1. Oldest \in InstanceOwners
    BY AccessAssumption DEF AccessInit, InstanceOwners, Scopes
  <2>2. \A d \in AccessCalls : ~Lowers(d)
    BY DEF AccessInit, Lowers, IdleRequest
  <2> QED
    BY <2>1, <2>2 DEF OwnerOutOfReach
<1> QED
  BY <1>1, <1>2, <1>3 DEF AccessInv

\* A step of one request that leaves the rows alone keeps the requests well made and the owner
\* out of reach, unless it turns into a removal aimed at an owner.
LEMMA Moves ==
    ASSUME Typed, WellMade, OwnerOutOfReach, NEW c \in AccessCalls, NEW q \in RequestState, Goto(c, q),
           Proper(q)
    PROVE  /\ request' \in [AccessCalls -> RequestState]
           /\ WellMade'
           /\ UNCHANGED <<direct, crossed>> /\ ~Lowers(c)' => OwnerOutOfReach'
           /\ UNCHANGED <<direct, crossed>> /\ q.subject \notin InstanceOwners => OwnerOutOfReach'
           /\ UNCHANGED <<direct, crossed>> /\ Lowers(c) /\ q.subject = request[c].subject => OwnerOutOfReach'
<1>1. request' = [request EXCEPT ![c] = q] /\ request \in [AccessCalls -> RequestState]
  BY DEF Goto, Typed
<1>2. request' \in [AccessCalls -> RequestState]
  BY <1>1
<1>3. request'[c] = q /\ \A d \in AccessCalls \ {c} : request'[d] = request[d]
  BY <1>1
<1>4. WellMade'
  BY <1>3 DEF WellMade
<1>5. ASSUME UNCHANGED <<direct, crossed>>,
             \/ ~Lowers(c)' \/ q.subject \notin InstanceOwners
             \/ Lowers(c) /\ q.subject = request[c].subject
      PROVE  OwnerOutOfReach'
  <2>1. InstanceOwners' = InstanceOwners /\ crossed' = crossed
    BY <1>5 DEF InstanceOwners
  <2>2. CASE crossed
    BY <2>1, <2>2 DEF OwnerOutOfReach
  <2>3. ASSUME NEW p \in InstanceOwners, \A d \in AccessCalls : Lowers(d) => request[d].subject # p
        PROVE  OwnerOutOfReach'
    <3>1. ASSUME NEW d \in AccessCalls, Lowers(d)' PROVE request'[d].subject # p
      <4>1. CASE d = c
        BY <4>1, <3>1, <2>3, <1>3, <1>5
      <4>2. CASE d # c
        <5>1. request'[d] = request[d]
          BY <4>2, <1>3
        <5>2. Lowers(d)
          BY <5>1, <3>1 DEF Lowers
        <5> QED
          BY <5>1, <5>2, <2>3
      <4> QED
        BY <4>1, <4>2
    <3>2. p \in InstanceOwners'
      BY <2>1
    <3> QED
      BY <3>1, <3>2 DEF OwnerOutOfReach
  <2> QED
    BY <2>2, <2>3 DEF OwnerOutOfReach
<1> QED
  BY <1>2, <1>4, <1>5

\* A request that ends is out of the way.
LEMMA Ends ==
    ASSUME Typed, WellMade, OwnerOutOfReach, NEW c \in AccessCalls, Finish(c)
    PROVE  /\ request' \in [AccessCalls -> RequestState]
           /\ WellMade'
           /\ UNCHANGED <<direct, crossed>> => OwnerOutOfReach'
<1>1. Goto(c, IdleRequest) /\ Proper(IdleRequest)
  BY DEF Finish, Proper, IdleRequest
<1>2. ~Lowers(c)'
  <2>1. request'[c] = IdleRequest
    BY <1>1 DEF Goto, Typed
  <2> QED
    BY <2>1 DEF Lowers, IdleRequest
<1> QED
  BY <1>1, <1>2, IdleRequestTyped, Moves

\* The scopes and roles the steps take their arguments from.
LEMMA RolesAreRanks == \A r \in RoleRanks : r \in 1 .. Owner /\ r \in Ranks /\ r \in Nat
BY AccessAssumption DEF Owner, Ranks

\* Admission: the requests that memberPut and groupMemberPut leave are within the caller's role.
LEMMA AdmissionInv ==
    ASSUME AccessInv, NEW c \in AccessCalls, NEW by \in People, NEW s \in Scopes
    PROVE  /\ \A p \in People, r \in RoleRanks : MemberPut(c, by, p, s, r) => AccessInv'
           /\ \A p \in People : MemberDelete(c, by, p, s) => AccessInv'
           /\ \A p \in People : UserDisable(c, by, p) => AccessInv'
           /\ \A t \in Teams, r \in RoleRanks : GroupMemberPut(c, by, t, s, r) => AccessInv'
           /\ \A r \in RoleRanks : BreakGlassActivate(c, by, s, r) => AccessInv'
<1> USE DEF AccessInv
<1>i. Instance \in Scopes
  BY DEF Scopes
<1>1. ASSUME NEW p \in People, NEW r \in RoleRanks, MemberPut(c, by, p, s, r) PROVE AccessInv'
  <2> DEFINE q == [IdleRequest EXCEPT !.pc = IF s = Instance /\ r # Owner THEN "guard" ELSE "write",
                     !.op = "put", !.by = by, !.subject = p, !.scope = s, !.role = r, !.held = BoundRole(by, s)]
  <2>1. BoundRole(by, s) \in Nat /\ r <= BoundRole(by, s)
    BY <1>1, RolesAreRanks, BoundRoleCovers DEF MemberPut, MayGrant
  <2>2. /\ q.pc = (IF s = Instance /\ r # Owner THEN "guard" ELSE "write") /\ q.op = "put" /\ q.by = by
        /\ q.subject = p /\ q.scope = s /\ q.role = r /\ q.held = BoundRole(by, s)
    BY DEF IdleRequest
  <2>3. q \in RequestState
    BY <2>1, RolesAreRanks, IdleRequestTyped DEF RequestState
  <2>4. Proper(q)
    BY <2>1, <2>2 DEF Proper
  <2>5. Goto(c, q) /\ UNCHANGED <<direct, teamRole, teams, roster, fresh, off, grants, activated, boots, crossed>>
    BY <1>1 DEF MemberPut
  <2>6. ~Lowers(c)'
    <3>1. request'[c] = q
      BY <2>5 DEF Goto, Typed
    <3>2. ~(r < Owner) \/ r # Owner
      BY DEF Owner
    <3> HIDE DEF q
    <3> QED
      BY <3>1, <3>2, <2>2 DEF Lowers
  <2> HIDE DEF q
  <2> QED
    BY <2>3, <2>4, <2>5, <2>6, Moves DEF Typed, AccessTypeOK
<1>2. ASSUME NEW p \in People, MemberDelete(c, by, p, s) PROVE AccessInv'
  <2> DEFINE q == [IdleRequest EXCEPT !.pc = IF s = Instance THEN "guard" ELSE "write",
                     !.op = "delete", !.by = by, !.subject = p, !.scope = s]
  <2>2. q.pc = (IF s = Instance THEN "guard" ELSE "write") /\ q.op = "delete" /\ q.subject = p /\ q.scope = s
    BY DEF IdleRequest
  <2>3. q \in RequestState
    BY IdleRequestTyped DEF RequestState
  <2>4. Proper(q)
    BY <2>2 DEF Proper
  <2>5. Goto(c, q) /\ UNCHANGED <<direct, teamRole, teams, roster, fresh, off, grants, activated, boots, crossed>>
    BY <1>2 DEF MemberDelete
  <2>6. ~Lowers(c)'
    <3>1. request'[c] = q
      BY <2>5 DEF Goto, Typed
    <3> HIDE DEF q
    <3> QED
      BY <3>1, <2>2 DEF Lowers
  <2> HIDE DEF q
  <2> QED
    BY <2>3, <2>4, <2>5, <2>6, Moves DEF Typed, AccessTypeOK
<1>3. ASSUME NEW p \in People, UserDisable(c, by, p) PROVE AccessInv'
  <2> DEFINE q == [IdleRequest EXCEPT !.pc = "guard", !.op = "disable", !.by = by, !.subject = p]
  <2>2. q.pc = "guard" /\ q.op = "disable" /\ q.subject = p
    BY DEF IdleRequest
  <2>3. q \in RequestState
    BY IdleRequestTyped DEF RequestState
  <2>4. Proper(q)
    BY <2>2 DEF Proper
  <2>5. Goto(c, q) /\ UNCHANGED <<direct, teamRole, teams, roster, fresh, off, grants, activated, boots, crossed>>
    BY <1>3 DEF UserDisable
  <2>6. ~Lowers(c)'
    <3>1. request'[c] = q
      BY <2>5 DEF Goto, Typed
    <3> HIDE DEF q
    <3> QED
      BY <3>1, <2>2 DEF Lowers
  <2> HIDE DEF q
  <2> QED
    BY <2>3, <2>4, <2>5, <2>6, Moves DEF Typed, AccessTypeOK
<1>4. ASSUME NEW t \in Teams, NEW r \in RoleRanks, GroupMemberPut(c, by, t, s, r) PROVE AccessInv'
  <2> DEFINE q == [IdleRequest EXCEPT !.pc = "write", !.op = "groupPut", !.by = by, !.subject = t,
                     !.scope = s, !.role = r, !.held = BoundRole(by, s)]
  <2>1. BoundRole(by, s) \in Nat /\ r <= BoundRole(by, s)
    BY <1>4, RolesAreRanks, BoundRoleCovers DEF GroupMemberPut, MayGrant
  <2>2. q.pc = "write" /\ q.op = "groupPut" /\ q.subject = t /\ q.role = r /\ q.held = BoundRole(by, s)
    BY DEF IdleRequest
  <2>3. q \in RequestState
    BY <2>1, RolesAreRanks, IdleRequestTyped DEF RequestState
  <2>4. Proper(q)
    <3>1. r <= Admin
      BY <1>4, RolesAreRanks DEF GroupMemberPut, GroupMayGrant, Owner, Admin
    <3> HIDE DEF q
    <3> QED
      BY <3>1, <2>1, <2>2 DEF Proper
  <2>5. Goto(c, q) /\ UNCHANGED <<direct, teamRole, teams, roster, fresh, off, grants, activated, boots, crossed>>
    BY <1>4 DEF GroupMemberPut
  <2>6. ~Lowers(c)'
    <3>1. request'[c] = q
      BY <2>5 DEF Goto, Typed
    <3> HIDE DEF q
    <3> QED
      BY <3>1, <2>2 DEF Lowers
  <2> HIDE DEF q
  <2> QED
    BY <2>3, <2>4, <2>5, <2>6, Moves DEF Typed, AccessTypeOK
<1>5. ASSUME NEW r \in RoleRanks, BreakGlassActivate(c, by, s, r) PROVE AccessInv'
  <2> DEFINE q == [IdleRequest EXCEPT !.pc = "create", !.op = "elevate", !.by = by, !.scope = s, !.role = r]
  <2>2. q.pc = "create" /\ q.op = "elevate" /\ q.by = by
    BY DEF IdleRequest
  <2>3. q \in RequestState
    BY RolesAreRanks, IdleRequestTyped DEF RequestState
  <2>4. Proper(q)
    BY <2>2 DEF Proper
  <2>5. Goto(c, q) /\ UNCHANGED <<direct, teamRole, teams, roster, fresh, off, grants, activated, boots, crossed>>
    BY <1>5 DEF BreakGlassActivate
  <2>6. ~Lowers(c)'
    <3>1. request'[c] = q
      BY <2>5 DEF Goto, Typed
    <3> HIDE DEF q
    <3> QED
      BY <3>1, <2>2 DEF Lowers
  <2> HIDE DEF q
  <2> QED
    BY <2>3, <2>4, <2>5, <2>6, Moves DEF Typed, AccessTypeOK
<1> QED
  BY <1>1, <1>2, <1>3, <1>4, <1>5

\* handleAccessRevokeAll finds the row of an owner, and then goes through the guard.
LEMMA RevokeAllInv ==
    ASSUME AccessInv, NEW c \in AccessCalls, NEW by \in People, NEW p \in People,
           NEW w \in Projects \cup {NobodyElse}, RevokeAll(c, by, p, w)
    PROVE  AccessInv'
<1> USE DEF AccessInv
<1> DEFINE view == AccessView(by, Admin, w)
           rows == ListForScopes(p, view)
           q == [IdleRequest EXCEPT !.pc = IF [scope |-> Instance, role |-> Owner] \in rows THEN "guard" ELSE "caps",
                   !.op = "revokeAll", !.by = by, !.subject = p, !.rows = rows]
<1>1. view \subseteq Scopes
  BY AccessAssumption DEF AccessView, Scopes
<1>2. rows \subseteq Found /\ \A b \in rows : b.role = direct[p][b.scope]
  <2> HIDE DEF view
  <2>1. \A x \in view : direct[p][x] \in Ranks
    BY <1>1 DEF Typed, AccessTypeOK, Ranks
  <2>2. rows = {[scope |-> x, role |-> direct[p][x]] : x \in {y \in view : direct[p][y] > 0}}
    BY DEF ListForScopes
  <2> QED
    BY <1>1, <2>1, <2>2 DEF Found
<1> HIDE DEF view, rows
<1>3. /\ q.pc = IF [scope |-> Instance, role |-> Owner] \in rows THEN "guard" ELSE "caps"
      /\ q.op = "revokeAll" /\ q.subject = p /\ q.rows = rows
  BY DEF IdleRequest
<1>4. q \in RequestState
  BY <1>2, IdleRequestTyped DEF RequestState
<1>5. Proper(q)
  BY <1>3 DEF Proper
<1>6. Goto(c, q) /\ UNCHANGED <<direct, teamRole, teams, roster, fresh, off, grants, activated, boots, crossed>>
  BY DEF RevokeAll, view, rows
<1>7. Lowers(c)' => p \notin InstanceOwners
  <2>1. request'[c] = q
    BY <1>6 DEF Goto, Typed
  <2> HIDE DEF q
  <2> SUFFICES ASSUME Lowers(c)', p \in InstanceOwners PROVE FALSE
    OBVIOUS
  <2>2. q.pc = "caps" /\ \E b \in rows : b.scope = Instance
    BY <2>1, <1>3 DEF Lowers
  <2>3. PICK b \in rows : b.scope = Instance
    BY <2>2
  <2>4. b.role = Owner
    BY <2>3, <1>2 DEF InstanceOwners
  <2>5. b = [scope |-> Instance, role |-> Owner]
    BY <2>3, <2>4, <1>2 DEF Found
  <2> QED
    BY <2>2, <2>5, <1>3
<1>8. Lowers(c)' => q.subject \notin InstanceOwners
  BY <1>3, <1>7
<1> HIDE DEF q
<1>9. request' \in [AccessCalls -> RequestState] /\ WellMade' /\ OwnerOutOfReach'
  <2>1. CASE Lowers(c)'
    BY <1>4, <1>5, <1>6, <1>8, <2>1, Moves
  <2>2. CASE ~Lowers(c)'
    BY <1>4, <1>5, <1>6, <2>2, Moves
  <2> QED
    BY <2>1, <2>2
<1> QED
  BY <1>6, <1>9 DEF Typed, AccessTypeOK

\* A removal that passes the guard leaves another owner, whom no pending removal reaches.
LEMMA OwnerGuardInv == ASSUME AccessInv, NEW c \in AccessCalls, OwnerGuard(c) PROVE AccessInv'
<1> USE DEF AccessInv
<1>1. CASE IsLastInstanceOwner(request[c].subject)
  BY <1>1, Ends DEF OwnerGuard, Typed, AccessTypeOK
<1>2. CASE ~IsLastInstanceOwner(request[c].subject)
  <2> DEFINE q == [request[c] EXCEPT !.pc = IF request[c].op = "revokeAll" THEN "caps" ELSE "write"]
  <2>1. Goto(c, q) /\ crossed' = (crossed \/ (request[c].op # "disable" /\ \E d \in AccessCalls \ {c} : Lowers(d)))
    BY <1>2 DEF OwnerGuard
  <2>2. UNCHANGED <<direct, teamRole, teams, roster, fresh, off, grants, activated, boots>>
    BY DEF OwnerGuard
  <2>3. request[c] \in RequestState /\ Proper(request[c])
    BY DEF Typed, WellMade
  <2>4. /\ q.pc = (IF request[c].op = "revokeAll" THEN "caps" ELSE "write") /\ q.op = request[c].op
        /\ q.subject = request[c].subject /\ q.role = request[c].role /\ q.held = request[c].held /\ q.by = request[c].by
    BY <2>3 DEF RequestState
  <2>5. q \in RequestState
    BY <2>3 DEF RequestState
  <2>6. request'[c] = q /\ \A d \in AccessCalls \ {c} : request'[d] = request[d]
    BY <2>1 DEF Goto, Typed
  <2> HIDE DEF q
  <2>7. Proper(q)
    BY <2>3, <2>4 DEF Proper
  <2>8. request' \in [AccessCalls -> RequestState] /\ WellMade'
    BY <2>1, <2>5, <2>7, Moves
  <2>9. OwnerOutOfReach'
    <3>1. InstanceOwners' = InstanceOwners
      BY <2>2 DEF InstanceOwners
    <3>2. CASE crossed
      BY <3>2, <2>1 DEF OwnerOutOfReach
    <3>3. CASE ~crossed /\ request[c].op = "disable"
      <4>1. PICK p \in InstanceOwners : \A d \in AccessCalls : Lowers(d) => request[d].subject # p
        BY <3>3 DEF OwnerOutOfReach
      <4>2. \A d \in AccessCalls : Lowers(d)' => Lowers(d) /\ request'[d] = request[d]
        BY <2>4, <2>6, <3>3 DEF Lowers
      <4> QED
        BY <3>1, <4>1, <4>2 DEF OwnerOutOfReach
    <3>4. CASE ~crossed /\ request[c].op # "disable" /\ \A d \in AccessCalls \ {c} : ~Lowers(d)
      <4>1. InstanceOwners # {}
        BY <3>4 DEF OwnerOutOfReach
      <4>2. PICK p \in InstanceOwners : p # request[c].subject
        BY <4>1, <1>2, AnotherOwner
      <4>3. \A d \in AccessCalls : Lowers(d)' => d = c
        BY <2>6, <3>4 DEF Lowers
      <4> QED
        BY <3>1, <4>2, <4>3, <2>4, <2>6 DEF OwnerOutOfReach
    <3> QED
      BY <3>2, <3>3, <3>4, <2>1 DEF OwnerOutOfReach
  <2> QED
    BY <2>2, <2>8, <2>9 DEF Typed, AccessTypeOK
<1> QED
  BY <1>1, <1>2

\* Writing one row reaches no owner but the one the request was about, and that one only when
\* the request lowers: the owner out of reach keeps the row.
LEMMA RowInv ==
    ASSUME AccessInv, NEW c \in AccessCalls, NEW p \in People, NEW s \in Scopes, NEW r \in Ranks,
           direct' = [direct EXCEPT ![p][s] = r], request[c].subject = p,
           s = Instance /\ r # Owner => Lowers(c),
           \A d \in AccessCalls : Lowers(d)' => Lowers(d) /\ request'[d].subject = request[d].subject,
           crossed' = crossed
    PROVE  direct' \in [People -> [Scopes -> 0 .. Owner]] /\ OwnerOutOfReach'
<1> USE DEF AccessInv
<1>1. direct \in [People -> [Scopes -> 0 .. Owner]] /\ Instance \in Scopes
  BY DEF Typed, AccessTypeOK, Scopes
<1>2. direct' \in [People -> [Scopes -> 0 .. Owner]]
  BY <1>1 DEF Ranks
<1>3. ASSUME NEW o \in InstanceOwners, \A d \in AccessCalls : Lowers(d) => request[d].subject # o
      PROVE  OwnerOutOfReach'
  <2>1. o \in People /\ direct[o][Instance] = Owner
    BY DEF InstanceOwners
  <2>2. direct'[o][Instance] = Owner
    <3>1. CASE o = p /\ s = Instance
      <4>1. r = Owner
        BY <3>1, <1>3
      <4> QED
        BY <3>1, <4>1, <1>1
    <3>2. CASE ~(o = p /\ s = Instance)
      BY <3>2, <2>1, <1>1
    <3> QED
      BY <3>1, <3>2
  <2>3. o \in InstanceOwners'
    BY <2>1, <2>2 DEF InstanceOwners
  <2> QED
    BY <1>3, <2>3 DEF OwnerOutOfReach
<1>4. OwnerOutOfReach'
  BY <1>3 DEF OwnerOutOfReach
<1> QED
  BY <1>2, <1>4

\* The writes of one row.
LEMMA WriteInv ==
    ASSUME AccessInv, NEW c \in AccessCalls, WriteBinding(c) \/ DeleteBinding(c) \/ RevokeOne(c)
    PROVE  AccessInv'
<1> USE DEF AccessInv
<1>1. request[c] \in RequestState /\ Proper(request[c])
  BY DEF Typed, WellMade
<1>2. UNCHANGED <<teamRole, teams, roster, fresh, off, grants, activated, boots, crossed>>
  BY DEF WriteBinding, DeleteBinding, RevokeOne
<1>3. CASE WriteBinding(c) \/ DeleteBinding(c)
  <2>1. Finish(c) /\ request[c].subject \in People /\ request[c].scope \in Scopes /\ request[c].role \in Ranks
    BY <1>1, <1>3 DEF WriteBinding, DeleteBinding, Proper, RequestState
  <2>2. request' \in [AccessCalls -> RequestState] /\ WellMade'
    BY <2>1, Ends
  <2>3. \A d \in AccessCalls : Lowers(d)' => Lowers(d) /\ request'[d].subject = request[d].subject
    <3>1. request'[c] = IdleRequest /\ \A d \in AccessCalls \ {c} : request'[d] = request[d]
      BY <2>1 DEF Finish, Goto, Typed
    <3> QED
      BY <3>1 DEF Lowers, IdleRequest
  <2>4. direct' \in [People -> [Scopes -> 0 .. Owner]] /\ OwnerOutOfReach'
    <3>1. CASE WriteBinding(c)
      <4>1. request[c].scope = Instance /\ request[c].role # Owner => Lowers(c)
        BY <3>1, <2>1 DEF WriteBinding, Lowers, Ranks, Owner
      <4> QED
        BY <3>1, <4>1, <2>1, <2>3, <1>2, RowInv DEF WriteBinding
    <3>2. CASE DeleteBinding(c)
      <4>1. request[c].scope = Instance => Lowers(c)
        BY <3>2 DEF DeleteBinding, Lowers
      <4>2. 0 \in Ranks
        BY DEF Ranks, Owner
      <4> QED
        BY <3>2, <4>1, <4>2, <2>1, <2>3, <1>2, RowInv DEF DeleteBinding
    <3> QED
      BY <3>1, <3>2, <1>3
  <2> QED
    BY <1>2, <2>2, <2>4 DEF Typed, AccessTypeOK
<1>4. CASE RevokeOne(c)
  <2>1. PICK b \in request[c].rows : /\ direct' = [direct EXCEPT ![request[c].subject][b.scope] = 0]
                                     /\ Goto(c, [request[c] EXCEPT !.rows = @ \ {b}])
    BY <1>4 DEF RevokeOne
  <2> DEFINE q == [request[c] EXCEPT !.rows = @ \ {b}]
  <2>2. /\ q.pc = request[c].pc /\ q.op = request[c].op /\ q.subject = request[c].subject
        /\ q.role = request[c].role /\ q.held = request[c].held /\ q.by = request[c].by
        /\ q.scope = request[c].scope /\ q.rows = request[c].rows \ {b}
    BY <1>1 DEF RequestState
  <2>3. q \in RequestState
    BY <1>1 DEF RequestState
  <2>4. request'[c] = q /\ \A d \in AccessCalls \ {c} : request'[d] = request[d]
    BY <2>1 DEF Goto, Typed
  <2>5. Goto(c, q)
    BY <2>1
  <2> HIDE DEF q
  <2>6. Proper(q)
    BY <1>1, <2>2 DEF Proper
  <2>7. request' \in [AccessCalls -> RequestState] /\ WellMade'
    BY <2>3, <2>5, <2>6, Moves
  <2>8. \A d \in AccessCalls : Lowers(d)' => Lowers(d) /\ request'[d].subject = request[d].subject
    <3> SUFFICES ASSUME NEW d \in AccessCalls, Lowers(d)' PROVE Lowers(d) /\ request'[d].subject = request[d].subject
      OBVIOUS
    <3>1. CASE d = c
      BY <3>1, <2>2, <2>4 DEF Lowers
    <3>2. CASE d # c
      BY <3>2, <2>4 DEF Lowers
    <3> QED
      BY <3>1, <3>2
  <2>9. request[c].subject \in People /\ b.scope \in Scopes /\ 0 \in Ranks
    BY <1>1, <1>4 DEF RevokeOne, Proper, RequestState, Found, Ranks, Owner
  <2>10. b.scope = Instance => Lowers(c)
    BY <1>4 DEF RevokeOne, Lowers
  <2>11. direct' \in [People -> [Scopes -> 0 .. Owner]] /\ OwnerOutOfReach'
    BY <2>1, <2>8, <2>9, <2>10, <1>2, RowInv
  <2> QED
    BY <1>2, <2>7, <2>11 DEF Typed, AccessTypeOK
<1> QED
  BY <1>3, <1>4

\* The other steps of a request.
LEMMA RequestInv ==
    ASSUME AccessInv, NEW c \in AccessCalls
    PROVE  /\ DisablePerson(c) => AccessInv'
           /\ RevokeCaps(c) => AccessInv'
           /\ RevokeDone(c) \/ RequestDies(c) => AccessInv'
           /\ WriteGroupBinding(c) => AccessInv'
           /\ CreateGrant(c) => AccessInv'
           /\ AuditGrant(c) => AccessInv'
<1> USE DEF AccessInv
<1>0. request[c] \in RequestState /\ Proper(request[c])
  BY DEF Typed, WellMade
<1>1. ASSUME DisablePerson(c) PROVE AccessInv'
  <2>1. request[c].subject \in People
    BY <1>0, <1>1 DEF DisablePerson, Proper
  <2> QED
    BY <1>1, <2>1, Ends DEF DisablePerson, Typed, AccessTypeOK
<1>2. ASSUME RevokeCaps(c) PROVE AccessInv'
  <2> DEFINE rows == {b \in request[c].rows : \A n \in {Admin, b.role} : UserAllows(request[c].by, n, b.scope)}
             q == [request[c] EXCEPT !.pc = "sweep", !.rows = rows]
  <2>1. Goto(c, q) /\ UNCHANGED <<direct, teamRole, teams, roster, fresh, off, grants, activated, boots, crossed>>
    BY <1>2 DEF RevokeCaps
  <2>2. rows \subseteq request[c].rows
    OBVIOUS
  <2> HIDE DEF rows
  <2>3. q.pc = "sweep" /\ q.op = request[c].op /\ q.subject = request[c].subject /\ q.role = request[c].role
        /\ q.held = request[c].held /\ q.rows = rows
    BY <1>0 DEF RequestState
  <2>4. q \in RequestState
    <3>1. rows \in SUBSET Found
      BY <1>0, <2>2 DEF RequestState
    <3> QED
      BY <1>0, <3>1 DEF RequestState
  <2>5. request'[c] = q
    BY <2>1 DEF Goto, Typed
  <2> HIDE DEF q
  <2>6. Proper(q)
    BY <1>0, <1>2, <2>3 DEF Proper, RevokeCaps
  <2>7. Lowers(c)' => Lowers(c) /\ q.subject = request[c].subject
    BY <1>2, <2>2, <2>3, <2>5 DEF Lowers, RevokeCaps
  <2>8. request' \in [AccessCalls -> RequestState] /\ WellMade' /\ OwnerOutOfReach'
    <3>1. CASE Lowers(c)'
      BY <2>1, <2>4, <2>6, <2>7, <3>1, Moves
    <3>2. CASE ~Lowers(c)'
      BY <2>1, <2>4, <2>6, <3>2, Moves
    <3> QED
      BY <3>1, <3>2
  <2> QED
    BY <2>1, <2>8 DEF Typed, AccessTypeOK
<1>3. ASSUME RevokeDone(c) \/ RequestDies(c) PROVE AccessInv'
  BY <1>3, Ends DEF RevokeDone, RequestDies, Typed, AccessTypeOK
<1>4. ASSUME WriteGroupBinding(c) PROVE AccessInv'
  <2>1. /\ Finish(c) /\ UNCHANGED <<direct, teams, roster, fresh, off, grants, activated, boots, crossed>>
        /\ request[c].subject \in Teams /\ request[c].scope \in Scopes /\ request[c].role \in 0 .. Admin
    BY <1>0, <1>4 DEF WriteGroupBinding, Proper, RequestState, Ranks, Admin, Owner
  <2>2. teamRole \in [Teams -> [Scopes -> 0 .. Admin]]
    BY DEF Typed, AccessTypeOK
  <2>3. teamRole' \in [Teams -> [Scopes -> 0 .. Admin]]
    BY <1>4, <2>1, <2>2 DEF WriteGroupBinding
  <2>4. \A t \in Teams \ teams : teamRole'[t] = teamRole[t]
    BY <1>4, <2>1, <2>2 DEF WriteGroupBinding
  <2> QED
    BY <2>1, <2>3, <2>4, Ends DEF Typed, AccessTypeOK
<1>5. ASSUME CreateGrant(c) PROVE AccessInv'
  <2> DEFINE q == [request[c] EXCEPT !.pc = "audit", !.held = activated + 1]
  <2>1. /\ Goto(c, q) /\ activated < MaxGrants /\ activated' = activated + 1 /\ grants' = grants \cup {GrantOf(c)}
        /\ UNCHANGED <<direct, teamRole, teams, roster, fresh, off, boots, crossed>>
    BY <1>5 DEF CreateGrant
  <2>2. activated \in Nat /\ activated' \in 0 .. MaxGrants
    BY <2>1, AccessAssumption DEF Typed, AccessTypeOK
  <2>3. q.pc = "audit" /\ q.op = request[c].op /\ q.subject = request[c].subject /\ q.by = request[c].by
    BY <1>0 DEF RequestState
  <2>4. q \in RequestState
    <3>1. activated + 1 \in Nat
      BY <2>2
    <3> QED
      BY <1>0, <3>1 DEF RequestState
  <2>5. request'[c] = q
    BY <2>1 DEF Goto, Typed
  <2> HIDE DEF q
  <2>6. Proper(q) /\ request[c].by \in People
    BY <1>0, <1>5, <2>3 DEF Proper, CreateGrant
  <2>7. ~Lowers(c)'
    BY <2>3, <2>5 DEF Lowers
  <2>8. request' \in [AccessCalls -> RequestState] /\ WellMade' /\ OwnerOutOfReach'
    BY <2>1, <2>4, <2>6, <2>7, Moves
  <2>9. GrantOf(c) \in Grants
    BY <1>0, <2>2, <2>6 DEF GrantOf, Grants, RequestState
  <2> QED
    BY <2>1, <2>2, <2>8, <2>9 DEF Typed, AccessTypeOK
<1>6. ASSUME AuditGrant(c) PROVE AccessInv'
  <2>1. Finish(c) /\ grants' \subseteq grants
        /\ UNCHANGED <<direct, teamRole, teams, roster, fresh, off, activated, boots, crossed>>
    BY <1>6 DEF AuditGrant
  <2> QED
    BY <2>1, Ends DEF Typed, AccessTypeOK
<1> QED
  BY <1>1, <1>2, <1>3, <1>4, <1>5, <1>6

\* Steps that leave every request and every person's row alone.
LEMMA AsideInv ==
    ASSUME AccessInv, UNCHANGED <<direct, request, crossed>> PROVE WellMade' /\ OwnerOutOfReach'
<1>1. InstanceOwners' = InstanceOwners /\ \A d \in AccessCalls : Lowers(d)' <=> Lowers(d)
  BY DEF InstanceOwners, Lowers
<1>2. OwnerOutOfReach'
  BY <1>1 DEF AccessInv, OwnerOutOfReach
<1>3. WellMade'
  BY DEF AccessInv, WellMade
<1> QED
  BY <1>2, <1>3

\* The catalog of groups, the directory and the grants that lapse or are revoked.
LEMMA GroupsInv ==
    ASSUME AccessInv, NEW by \in People, NEW p \in People, NEW t \in Teams
    PROVE  /\ \A s \in Scopes : GroupMemberDelete(by, t, s) => AccessInv'
           /\ GroupCreate(by, t) => AccessInv'
           /\ GroupDelete(by, t) => AccessInv'
           /\ GroupRosterSet(by, t, p) => AccessInv'
<1> USE DEF AccessInv
<1>0. /\ teamRole \in [Teams -> [Scopes -> 0 .. Admin]] /\ roster \in [Teams -> SUBSET People] /\ 0 \in 0 .. Admin
      /\ \A x \in Teams \ teams : roster[x] = {} /\ \A s \in Scopes : teamRole[x][s] = 0
  BY DEF Typed, AccessTypeOK, Admin
<1>1. ASSUME NEW s \in Scopes, GroupMemberDelete(by, t, s) PROVE AccessInv'
  <2>1. teamRole' = [teamRole EXCEPT ![t][s] = 0]
        /\ UNCHANGED <<direct, teams, roster, fresh, off, grants, activated, boots, request, crossed>>
    BY <1>1 DEF GroupMemberDelete
  <2>2. teamRole' \in [Teams -> [Scopes -> 0 .. Admin]]
    BY <1>0, <2>1
  <2>3. \A x \in Teams \ teams, y \in Scopes : teamRole'[x][y] = 0
    BY <1>0, <2>1
  <2> QED
    BY <1>0, <2>1, <2>2, <2>3, AsideInv DEF Typed, AccessTypeOK
<1>2. ASSUME GroupCreate(by, t) PROVE AccessInv'
  BY <1>2, AsideInv DEF GroupCreate, Typed, AccessTypeOK
<1>3. ASSUME GroupDelete(by, t) PROVE AccessInv'
  <2>1. teamRole' = [teamRole EXCEPT ![t] = [s \in Scopes |-> 0]] /\ roster' = [roster EXCEPT ![t] = {}]
        /\ teams' = teams \ {t} /\ UNCHANGED <<direct, fresh, off, grants, activated, boots, request, crossed>>
    BY <1>3 DEF GroupDelete
  <2>2. teamRole' \in [Teams -> [Scopes -> 0 .. Admin]] /\ roster' \in [Teams -> SUBSET People]
    BY <1>0, <2>1
  <2>3. \A x \in Teams \ teams' : roster'[x] = {} /\ \A s \in Scopes : teamRole'[x][s] = 0
    BY <1>0, <2>1
  <2> QED
    BY <2>1, <2>2, <2>3, AsideInv DEF Typed, AccessTypeOK
<1>4. ASSUME GroupRosterSet(by, t, p) PROVE AccessInv'
  <2>1. /\ t \in teams /\ roster' = [roster EXCEPT ![t] = IF p \in @ THEN @ \ {p} ELSE @ \cup {p}]
        /\ UNCHANGED <<direct, teamRole, teams, fresh, off, grants, activated, boots, request, crossed>>
    BY <1>4 DEF GroupRosterSet
  <2>2. roster' \in [Teams -> SUBSET People] /\ \A x \in Teams \ teams : roster'[x] = roster[x]
    BY <1>0, <2>1
  <2> QED
    BY <2>1, <2>2, AsideInv DEF Typed, AccessTypeOK
<1> QED
  BY <1>1, <1>2, <1>3, <1>4

\* What the provider's groups and a grant's end do keeps the invariant.
LEMMA DirectoryInv ==
    ASSUME AccessInv, NEW p \in People
    PROVE  /\ \A ts \in SUBSET Directory : DirectorySync(p, ts) => AccessInv'
           /\ SyncAges(p) => AccessInv'
           /\ \A g \in grants : GrantLapses(g) \/ BreakGlassRevoke(p, g) => AccessInv'
<1> USE DEF AccessInv
<1>1. ASSUME NEW ts \in SUBSET Directory, DirectorySync(p, ts) PROVE AccessInv'
  <2>1. /\ ts \subseteq teams
        /\ roster' = [t \in Teams |-> IF t \notin Directory THEN roster[t]
                                       ELSE IF t \in ts THEN roster[t] \cup {p} ELSE roster[t] \ {p}]
        /\ UNCHANGED <<direct, teamRole, teams, off, grants, activated, boots, request, crossed>>
    BY <1>1 DEF DirectorySync
  <2>2. roster' \in [Teams -> SUBSET People]
    BY <2>1 DEF Typed
  <2>3. \A x \in Teams \ teams : roster'[x] = {}
    BY <2>1 DEF Typed, AccessTypeOK
  <2> QED
    BY <2>1, <2>2, <2>3, AsideInv DEF Typed, AccessTypeOK
<1>2. ASSUME SyncAges(p) PROVE AccessInv'
  BY <1>2, AsideInv DEF SyncAges, Typed, AccessTypeOK
<1>3. ASSUME NEW g \in grants, GrantLapses(g) \/ BreakGlassRevoke(p, g) PROVE AccessInv'
  <2>1. [g EXCEPT !.live = FALSE] \in Grants
    BY DEF Typed, Grants
  <2>2. grants' \subseteq Grants /\ UNCHANGED <<direct, teamRole, teams, roster, fresh, off, activated, boots, request, crossed>>
    BY <1>3, <2>1 DEF GrantLapses, BreakGlassRevoke, Typed
  <2> QED
    BY <2>2, AsideInv DEF Typed, AccessTypeOK
<1> QED
  BY <1>1, <1>2, <1>3

\* A start: nothing is in flight, and there is an owner.
LEMMA BootInv == ASSUME AccessInv, Boot PROVE AccessInv'
<1> USE DEF AccessInv
<1>0. Owner \in 0 .. Owner
  BY DEF Owner
<1>1. direct \in [People -> [Scopes -> 0 .. Owner]] /\ Oldest \in People /\ Instance \in Scopes
  BY AccessAssumption DEF Typed, AccessTypeOK, Scopes
<1>2. /\ boots' = boots + 1 /\ grants' \subseteq grants /\ request' = [c \in AccessCalls |-> IdleRequest]
      /\ UNCHANGED <<teamRole, teams, roster, fresh, off, activated, crossed>>
  BY DEF Boot
<1>3. direct' \in [People -> [Scopes -> 0 .. Owner]]
  BY <1>0, <1>1 DEF Boot
<1>4. Typed'
  BY <1>2, <1>3, IdleRequestTyped DEF Typed, AccessTypeOK
<1>5. WellMade'
  BY <1>2 DEF WellMade, Proper, IdleRequest
<1>6. InstanceOwners' # {}
  <2>1. CASE InstanceOwners = {}
    <3>1. direct' = [direct EXCEPT ![Oldest][Instance] = Owner]
      BY <2>1 DEF Boot
    <3>2. direct'[Oldest][Instance] = Owner
      BY <1>1, <3>1
    <3> QED
      BY <1>1, <3>2 DEF InstanceOwners
  <2>2. CASE InstanceOwners # {}
    BY <2>2 DEF Boot, InstanceOwners
  <2> QED
    BY <2>1, <2>2
<1>7. \A d \in AccessCalls : ~Lowers(d)'
  BY <1>2 DEF Lowers, IdleRequest
<1>8. OwnerOutOfReach'
  BY <1>6, <1>7 DEF OwnerOutOfReach
<1> QED
  BY <1>4, <1>5, <1>8

\* Every step keeps AccessInv.
LEMMA AccessNextInv == AccessInv /\ [AccessNext]_accessVars => AccessInv'
<1> SUFFICES ASSUME AccessInv, [AccessNext]_accessVars PROVE AccessInv'
  OBVIOUS
<1>1. CASE \E c \in AccessCalls, by, p \in People, s \in Scopes, r \in RoleRanks : MemberPut(c, by, p, s, r)
  BY <1>1, AdmissionInv
<1>2. CASE \E c \in AccessCalls, by, p \in People, s \in Scopes : MemberDelete(c, by, p, s)
  BY <1>2, AdmissionInv
<1>3. CASE \E c \in AccessCalls, by, p \in People : UserDisable(c, by, p)
  <2>1. Instance \in Scopes
    BY DEF Scopes
  <2> QED
    BY <1>3, <2>1, AdmissionInv
<1>4. CASE \E c \in AccessCalls, by, p \in People, w \in Projects \cup {NobodyElse} : RevokeAll(c, by, p, w)
  BY <1>4, RevokeAllInv
<1>5. CASE \E c \in AccessCalls : OwnerGuard(c)
  BY <1>5, OwnerGuardInv
<1>6. CASE \E c \in AccessCalls : WriteBinding(c) \/ DeleteBinding(c) \/ RevokeOne(c)
  BY <1>6, WriteInv
<1>7. CASE \E c \in AccessCalls : \/ DisablePerson(c) \/ RevokeCaps(c) \/ RevokeDone(c) \/ RequestDies(c)
                                  \/ WriteGroupBinding(c) \/ CreateGrant(c) \/ AuditGrant(c)
  BY <1>7, RequestInv
<1>8. CASE \E c \in AccessCalls, by \in People, t \in Teams, s \in Scopes, r \in RoleRanks : GroupMemberPut(c, by, t, s, r)
  BY <1>8, AdmissionInv
<1>9. CASE \E by \in People, t \in Teams, s \in Scopes : GroupMemberDelete(by, t, s)
  BY <1>9, GroupsInv
<1>10. CASE \E by \in People, t \in Teams : GroupCreate(by, t) \/ GroupDelete(by, t)
  BY <1>10, GroupsInv
<1>11. CASE \E by, p \in People, t \in Teams : GroupRosterSet(by, t, p)
  BY <1>11, GroupsInv
<1>12. CASE \E p \in People, ts \in SUBSET Directory : DirectorySync(p, ts)
  BY <1>12, DirectoryInv
<1>13. CASE \E p \in People : SyncAges(p)
  BY <1>13, DirectoryInv
<1>14. CASE \E c \in AccessCalls, by \in People, s \in Scopes, r \in RoleRanks : BreakGlassActivate(c, by, s, r)
  BY <1>14, AdmissionInv
<1>15. CASE \E g \in grants : GrantLapses(g) \/ \E by \in People : BreakGlassRevoke(by, g)
  BY <1>15, DirectoryInv, AccessAssumption
<1>16. CASE Boot
  BY <1>16, BootInv
<1>17. CASE UNCHANGED accessVars
  <2>1. UNCHANGED <<direct, teamRole, teams, roster, fresh, off, grants, activated, boots, request, crossed>>
    BY <1>17 DEF accessVars
  <2> QED
    BY <2>1, AsideInv DEF AccessInv, Typed, AccessTypeOK
<1> QED
  BY <1>1, <1>2, <1>3, <1>4, <1>5, <1>6, <1>7, <1>8, <1>9, <1>10, <1>11, <1>12, <1>13, <1>14, <1>15, <1>16, <1>17
     DEF AccessNext

\* AccessInv is an invariant.
THEOREM AccessInvariant == AccessSpec => []AccessInv
BY AccessInitInv, AccessNextInv, PTL DEF AccessSpec

-----------------------------------------------------------------------------
(* Access: the last owner.                                                 *)

\* The last owner row is lost only by two removals that overlap, whichever of the handlers
\* memberPut, memberDelete and handleAccessRevokeAll they are, and however many run.
THEOREM OwnerStays == AccessSpec => []OwnerLostOnlyByOverlap
<1>1. AccessInv => OwnerLostOnlyByOverlap
  BY DEF AccessInv, OwnerOutOfReach, OwnerLostOnlyByOverlap
<1> QED
  BY <1>1, AccessInvariant, PTL

-----------------------------------------------------------------------------
(* Access: rows that rise.                                                 *)

Raised ==
    \A s \in Scopes :
        /\ \A p \in People : direct'[p][s] > direct[p][s] =>
             \/ \E c \in AccessCalls : request[c].op = "put" /\ request[c].held >= direct'[p][s]
             \/ InstanceOwners = {} /\ boots' > boots
        /\ \A t \in Teams : teamRole'[t][s] > teamRole[t][s] =>
             \E c \in AccessCalls : request[c].op = "groupPut" /\ request[c].held >= teamRole'[t][s]

\* No row is higher than itself, and a row at 0 is higher than none.
LEMMA NotRaised ==
    ASSUME Typed
    PROVE  /\ \A p \in People, s \in Scopes : ~(direct[p][s] > direct[p][s]) /\ ~(0 > direct[p][s])
           /\ \A t \in Teams, s \in Scopes : ~(teamRole[t][s] > teamRole[t][s]) /\ ~(0 > teamRole[t][s])
<1>1. \A p \in People, s \in Scopes : direct[p][s] \in Nat
  BY DEF Typed, AccessTypeOK, Owner
<1>2. \A t \in Teams, s \in Scopes : teamRole[t][s] \in Nat
  BY DEF Typed, AccessTypeOK, Admin
<1> QED
  BY <1>1, <1>2

\* What each step may raise.
LEMMA StepRaises == AccessInv /\ [AccessNext]_accessVars => Raised
<1> SUFFICES ASSUME AccessInv, [AccessNext]_accessVars PROVE Raised
  OBVIOUS
<1> USE DEF AccessInv
<1>0. /\ direct \in [People -> [Scopes -> 0 .. Owner]] /\ teamRole \in [Teams -> [Scopes -> 0 .. Admin]]
      /\ \A c \in AccessCalls : request[c] \in RequestState /\ Proper(request[c])
  BY DEF Typed, AccessTypeOK, WellMade
<1>1. CASE UNCHANGED <<direct, teamRole>>
  BY <1>1, NotRaised DEF Raised
<1>2. ASSUME NEW c \in AccessCalls, WriteBinding(c) PROVE Raised
  <2>1. /\ request[c].op = "put" /\ request[c].subject \in People /\ request[c].scope \in Scopes
        /\ request[c].role \in Nat /\ request[c].held \in Nat /\ request[c].role <= request[c].held
    BY <1>0, <1>2 DEF WriteBinding, RequestState, Proper, Ranks, Owner
  <2>2. direct' = [direct EXCEPT ![request[c].subject][request[c].scope] = request[c].role] /\ teamRole' = teamRole
    BY <1>2 DEF WriteBinding
  <2>3. \A p \in People, s \in Scopes : direct'[p][s] = direct[p][s] \/ direct'[p][s] = request[c].role
    BY <1>0, <2>1, <2>2
  <2>4. request[c].held >= request[c].role
    BY <2>1
  <2> QED
    BY <2>1, <2>2, <2>3, <2>4, NotRaised DEF Raised
<1>3. ASSUME NEW c \in AccessCalls, DeleteBinding(c) \/ RevokeOne(c) PROVE Raised
  <2>1. PICK p \in People, s \in Scopes : direct' = [direct EXCEPT ![p][s] = 0]
    <3>1. CASE DeleteBinding(c)
      BY <1>0, <3>1 DEF DeleteBinding, RequestState, Proper
    <3>2. CASE RevokeOne(c)
      <4>1. request[c].subject \in People /\ request[c].rows \subseteq Found
        BY <1>0, <3>2 DEF RevokeOne, RequestState, Proper
      <4> QED
        BY <3>2, <4>1 DEF RevokeOne, Found
    <3> QED
      BY <1>3, <3>1, <3>2
  <2>2. \A x \in People, y \in Scopes : direct'[x][y] = direct[x][y] \/ direct'[x][y] = 0
    BY <1>0, <2>1
  <2>3. teamRole' = teamRole
    BY <1>3 DEF DeleteBinding, RevokeOne
  <2> QED
    BY <2>2, <2>3, NotRaised DEF Raised
<1>4. ASSUME NEW c \in AccessCalls, WriteGroupBinding(c) PROVE Raised
  <2>1. /\ request[c].op = "groupPut" /\ request[c].subject \in Teams /\ request[c].scope \in Scopes
        /\ request[c].role \in Nat /\ request[c].held \in Nat /\ request[c].role <= request[c].held
    BY <1>0, <1>4 DEF WriteGroupBinding, RequestState, Proper, Ranks, Owner
  <2>2. \A t \in Teams, s \in Scopes : teamRole'[t][s] = teamRole[t][s] \/ teamRole'[t][s] = request[c].role
    BY <1>0, <1>4, <2>1 DEF WriteGroupBinding
  <2>3. request[c].held >= request[c].role /\ direct' = direct
    BY <1>4, <2>1 DEF WriteGroupBinding
  <2> QED
    BY <2>1, <2>2, <2>3, NotRaised DEF Raised
<1>5. ASSUME NEW t \in Teams, \/ \E by \in People, s \in Scopes : GroupMemberDelete(by, t, s)
                              \/ \E by \in People : GroupDelete(by, t)
      PROVE  Raised
  <2>1. \A x \in Teams, y \in Scopes : teamRole'[x][y] = teamRole[x][y] \/ teamRole'[x][y] = 0
    BY <1>0, <1>5 DEF GroupMemberDelete, GroupDelete
  <2>2. direct' = direct
    BY <1>5 DEF GroupMemberDelete, GroupDelete
  <2> QED
    BY <2>1, <2>2, NotRaised DEF Raised
<1>6. CASE Boot
  <2>1. boots' > boots /\ teamRole' = teamRole
    BY <1>6 DEF Boot, Typed
  <2>2. InstanceOwners # {} => direct' = direct
    BY <1>6 DEF Boot
  <2> QED
    BY <2>1, <2>2, NotRaised DEF Raised
<1>7. CASE \/ \E c \in AccessCalls, by, p \in People, s \in Scopes, r \in RoleRanks : MemberPut(c, by, p, s, r)
           \/ \E c \in AccessCalls, by, p \in People, s \in Scopes : MemberDelete(c, by, p, s)
           \/ \E c \in AccessCalls, by, p \in People : UserDisable(c, by, p)
           \/ \E c \in AccessCalls, by, p \in People, w \in Projects \cup {NobodyElse} : RevokeAll(c, by, p, w)
           \/ \E c \in AccessCalls, by \in People, t \in Teams, s \in Scopes, r \in RoleRanks : GroupMemberPut(c, by, t, s, r)
           \/ \E c \in AccessCalls, by \in People, s \in Scopes, r \in RoleRanks : BreakGlassActivate(c, by, s, r)
  <2>1. UNCHANGED <<direct, teamRole>>
    BY <1>7, ZenonT(40) DEF MemberPut, MemberDelete, UserDisable, RevokeAll, GroupMemberPut, BreakGlassActivate
  <2> QED
    BY <1>1, <2>1
<1>8. CASE \E c \in AccessCalls : \/ OwnerGuard(c) \/ DisablePerson(c) \/ RevokeCaps(c) \/ RevokeDone(c)
                                  \/ RequestDies(c) \/ CreateGrant(c) \/ AuditGrant(c)
  <2>1. UNCHANGED <<direct, teamRole>>
    BY <1>8 DEF OwnerGuard, DisablePerson, RevokeCaps, RevokeDone, RequestDies, CreateGrant, AuditGrant
  <2> QED
    BY <1>1, <2>1
<1>9. CASE \/ \E by \in People, t \in Teams : GroupCreate(by, t)
           \/ \E by, p \in People, t \in Teams : GroupRosterSet(by, t, p)
           \/ \E p \in People, ts \in SUBSET Directory : DirectorySync(p, ts)
           \/ \E p \in People : SyncAges(p)
           \/ \E g \in grants : GrantLapses(g) \/ \E by \in People : BreakGlassRevoke(by, g)
           \/ UNCHANGED accessVars
  <2>1. UNCHANGED <<direct, teamRole>>
    BY <1>9 DEF GroupCreate, GroupRosterSet, DirectorySync, SyncAges, GrantLapses, BreakGlassRevoke, accessVars
  <2> QED
    BY <1>1, <2>1
<1> QED
  BY <1>2, <1>3, <1>4, <1>5, <1>6, <1>7, <1>8, <1>9 DEF AccessNext

\* A row of a person or of a group rises only by a request whose caller was bound to that role
\* at that scope when he was admitted, or at a start that finds no owner. An elevation never
\* turns into a row.
THEOREM RolesRiseWithinBounds == AccessSpec => RolesAreHandedDown
<1>1. AccessInv /\ [AccessNext]_accessVars =>
      [<<direct, teamRole>>' # <<direct, teamRole>> => \A s \in Scopes :
        /\ \A p \in People : direct'[p][s] > direct[p][s] =>
             \/ \E c \in AccessCalls : request[c].op = "put" /\ request[c].held >= direct'[p][s]
             \/ InstanceOwners = {} /\ boots' > boots
        /\ \A t \in Teams : teamRole'[t][s] > teamRole[t][s] =>
             \E c \in AccessCalls : request[c].op = "groupPut" /\ request[c].held >= teamRole'[t][s]]_accessVars
  BY StepRaises DEF Raised
<1> QED
  BY <1>1, AccessInvariant, PTL DEF AccessSpec, RolesAreHandedDown

-----------------------------------------------------------------------------
(* Access: what the review and the menu tell.                              *)

\* The matrix of a reviewer who sees the instance holds every row that decides about a
\* resource he sees: those of the instance, of the resource and of its project.
LEMMA ReviewShows == Typed => ReviewNeverUnderstates
<1> SUFFICES ASSUME Typed, NEW by \in People, NEW w \in Projects \cup {NobodyElse},
                    Instance \in AccessView(by, Viewer, w), NEW p \in People,
                    NEW r \in AccessView(by, Viewer, w), NEW n \in RoleRanks, UserAllows(p, n, r)
             PROVE  ReviewCell(p, AccessView(by, Viewer, w), n, r)
  BY DEF ReviewNeverUnderstates
<1> DEFINE view == AccessView(by, Viewer, w)
<1>1. n \in Nat /\ n >= 1
  BY RolesAreRanks DEF Owner
<1>2. PICK s \in Reaching(r) : direct[p][s] >= n \/ \E t \in GroupsOf(p) : teamRole[t][s] >= n
  BY DEF UserAllows
<1>3. s \in Scopes /\ BindingApplies(s, r)
  BY DEF Reaching
<1>4. s \in view
  <2>1. CASE s = Instance \/ s = r
    BY <2>1
  <2>2. CASE r \in Envs /\ s = ProjectOf[r]
    <3>1. r # Instance /\ r \notin Projects
      BY <2>2, AccessAssumption DEF Instance
    <3> QED
      BY <2>2, <3>1 DEF AccessView
  <2> QED
    BY <1>3, <2>1, <2>2 DEF BindingApplies
<1> HIDE DEF view
<1>5. CASE direct[p][s] >= n
  <2>1. direct[p][s] \in Nat
    BY <1>3 DEF Typed, AccessTypeOK, Owner
  <2>2. direct[p][s] > 0
    BY <1>1, <1>5, <2>1
  <2>3. [scope |-> s, role |-> direct[p][s]] \in ListForScopes(p, view)
    BY <1>4, <2>2 DEF ListForScopes
  <2>4. ReviewCell(p, view, n, r)
    BY <1>3, <1>5, <2>3 DEF ReviewCell
  <2> QED
    BY <2>4 DEF view
<1>6. ASSUME NEW t \in GroupsOf(p), teamRole[t][s] >= n PROVE ReviewCell(p, AccessView(by, Viewer, w), n, r)
  <2>1. [scope |-> s, role |-> teamRole[t][s]] \in DerivedForScopes(p, view)
    BY <1>4 DEF DerivedForScopes, GroupsOf
  <2>2. ReviewCell(p, view, n, r)
    BY <1>3, <1>6, <2>1 DEF ReviewCell
  <2> QED
    BY <2>2 DEF view
<1> QED
  BY <1>2, <1>5, <1>6

\* The menu built from candidate scopes is what the engine allows somewhere.
LEMMA MenuMatches == Typed => MenuMatchesTheDoor
<1> SUFFICES ASSUME Typed, NEW p \in People
             PROVE  Anywhere(p) = {n \in 1 .. Owner : \E r \in Scopes : Can(p, n, r)}
  BY DEF MenuMatchesTheDoor
<1>0. Instance \in Scopes /\ \A x \in Scopes : BindingApplies(x, x)
  BY DEF Scopes, BindingApplies
<1>1. ASSUME NEW n \in 1 .. Owner, NEW s \in {Instance} \cup CandidateScopes(p), AllowedAlone(p, n, s)
      PROVE  \E r \in Scopes : Can(p, n, r)
  <2>1. PICK x \in {Instance, s} : \/ direct[p][x] >= n \/ \E t \in GroupsOf(p) : teamRole[t][x] >= n
                                   \/ \E g \in grants : g.person = p /\ g.live /\ g.scope = x /\ g.role >= n
    BY <1>1 DEF AllowedAlone
  <2>2. x \in Scopes /\ x \in Reaching(x) /\ BindingApplies(x, x)
    BY <1>0 DEF CandidateScopes, Reaching
  <2>3. Can(p, n, x)
    BY <2>1, <2>2 DEF Can, UserAllows, GrantsAllow
  <2> QED
    BY <2>2, <2>3
<1>2. ASSUME NEW n \in 1 .. Owner, NEW r \in Scopes, Can(p, n, r)
      PROVE  \E s \in {Instance} \cup CandidateScopes(p) : AllowedAlone(p, n, s)
  <2>1. n \in Nat /\ n > 0
    BY DEF Owner
  <2>2. CASE UserAllows(p, n, r)
    <3>1. PICK s \in Scopes : direct[p][s] >= n \/ \E t \in GroupsOf(p) : teamRole[t][s] >= n
      BY <2>2 DEF UserAllows, Reaching
    <3>2. direct[p][s] \in Nat /\ \A t \in GroupsOf(p) : teamRole[t][s] \in Nat
      <4>1. direct[p][s] \in 0 .. Owner
        BY DEF Typed, AccessTypeOK
      <4>2. \A t \in GroupsOf(p) : t \in Teams
        BY DEF Typed, GroupsOf
      <4>3. \A t \in Teams : teamRole[t][s] \in 0 .. Admin
        BY DEF Typed, AccessTypeOK
      <4> QED
        BY <4>1, <4>2, <4>3 DEF Owner, Admin
    <3>3. direct[p][s] > 0 \/ \E t \in GroupsOf(p) : teamRole[t][s] > 0
      BY <2>1, <3>1, <3>2
    <3>4. s \in CandidateScopes(p)
      BY <3>3 DEF CandidateScopes
    <3>5. AllowedAlone(p, n, s)
      BY <3>1 DEF AllowedAlone
    <3> QED
      BY <3>4, <3>5
  <2>3. CASE GrantsAllow(p, n, r)
    <3>1. PICK g \in grants : g.person = p /\ g.live /\ g.role >= n /\ BindingApplies(g.scope, r)
      BY <2>3 DEF GrantsAllow
    <3>2. g.scope \in CandidateScopes(p)
      BY <3>1 DEF CandidateScopes, Typed, Grants
    <3>3. AllowedAlone(p, n, g.scope)
      BY <3>1 DEF AllowedAlone
    <3> QED
      BY <3>2, <3>3
  <2> QED
    BY <1>2, <2>2, <2>3 DEF Can
<1> QED
  BY <1>1, <1>2 DEF Anywhere

\* After any sequence of grants, groups and elevations the review hides no row in force, and
\* the menu offers exactly what the engine allows; ownership is never the row of a group.
THEOREM ReviewIsHonest == AccessSpec => []ReviewTellsAll
<1>1. AccessInv => ReviewTellsAll
  BY ReviewShows, MenuMatches DEF AccessInv, Typed, ReviewTellsAll
<1> QED
  BY <1>1, AccessInvariant, PTL

-----------------------------------------------------------------------------
(* OIDC: the inductive invariant.                                          *)

\* The record a callback keeps. Nothing depends on which provider row it read or on whether
\* the groups are known, so these two are left as they are.
CallbackShape(q) ==
    q \in [pc : {"idle", "provider", "exchange", "resolve", "link", "sync", "commit", "mint"},
           state : Nat, subject : Subjects \cup {Unlinked},
           claims : [email : OIDCUsers \cup {Unlinked}, groups : SUBSET OIDCGroups, known : {q.claims.known}],
           row : {q.row}, user : OIDCUsers \cup {Unlinked}, removes : SUBSET OIDCGroups]
CallbackFits(q) ==
    /\ CallbackShape(q)
    /\ q.pc # "idle" => q.subject \in Subjects
    /\ q.pc \in {"link", "sync", "commit", "mint"} => q.user \in OIDCUsers /\ q.user # Unlinked

OIDCTyped ==
    /\ callback = [c \in Callbacks |-> callback[c]] /\ \A c \in Callbacks : CallbackFits(callback[c])
    /\ link \in [Subjects -> OIDCUsers \cup {Unlinked}]
    /\ idp = [s \in Subjects |-> idp[s]]
    /\ \A s \in Subjects :
         idp[s] \in [email : OIDCUsers \cup {Unlinked}, groups : SUBSET OIDCGroups, known : {idp[s].known}]
    /\ membership \in [OIDCUsers -> SUBSET OIDCGroups]
    /\ started \in Nat /\ loginStates \subseteq Nat

\* A login state is in one place: stored, with one callback, or spent by one session.
StatesOnce ==
    /\ \A x \in loginStates : x <= started
    /\ \A c \in Callbacks : ~At(c, "idle") => callback[c].state <= started /\ callback[c].state \notin loginStates
    /\ \A c, d \in Callbacks : c # d /\ ~At(c, "idle") /\ ~At(d, "idle") => callback[c].state # callback[d].state
    /\ \A p \in oidcSessions : p.state \in Nat /\ p.state <= started /\ p.state \notin loginStates
    /\ \A p \in oidcSessions, c \in Callbacks : ~At(c, "idle") => callback[c].state # p.state

\* The link of a subject is there before its membership is touched, and stays.
LinksHold ==
    /\ \A c \in Callbacks : callback[c].pc \in {"sync", "commit", "mint"} => link[callback[c].subject] = callback[c].user
    /\ \A p \in oidcSessions : p.subject \in Subjects /\ p.user # Unlinked /\ link[p.subject] = p.user

\* What a replacement saw is still what it has to remove, unless another one overlapped it.
SyncsHold ==
    /\ \A c \in Callbacks : At(c, "commit") =>
         callback[c].user \in overlapped \/ membership[callback[c].user] \subseteq callback[c].removes \cup callback[c].claims.groups
    /\ \A c, d \in Callbacks : c # d /\ At(c, "commit") /\ At(d, "commit") /\ callback[c].user = callback[d].user =>
         callback[c].user \in overlapped

OIDCInv == OIDCTyped /\ StatesOnce /\ StateOpensOneSession /\ LinksHold /\ SyncsHold

-----------------------------------------------------------------------------
(* OIDC: the steps.                                                        *)

\* The record of a callback that is not running.
LEMMA IdleCallbackFits == CallbackFits(IdleCallback) /\ IdleCallback.pc = "idle"
BY DEF CallbackFits, CallbackShape, IdleCallback, NoClaims

\* OIDCInv holds at first.
LEMMA OIDCInitInv == OIDCInit => OIDCInv
<1> SUFFICES ASSUME OIDCInit PROVE OIDCInv
  OBVIOUS
<1>1. callback = [c \in Callbacks |-> IdleCallback] /\ oidcSessions = {} /\ loginStates = {} /\ started = 0
  BY DEF OIDCInit
<1>2. OIDCTyped
  <2>1. \A s \in Subjects : idp[s] \in [email : OIDCUsers \cup {Unlinked}, groups : SUBSET OIDCGroups, known : {idp[s].known}]
    BY DEF OIDCInit
  <2> QED
    BY <1>1, <2>1, IdleCallbackFits DEF OIDCInit, OIDCTyped
<1>3. \A c \in Callbacks : At(c, "idle")
  BY <1>1, IdleCallbackFits DEF At
<1>4. StatesOnce /\ StateOpensOneSession
  BY <1>1, <1>3 DEF StatesOnce, StateOpensOneSession
<1>5. LinksHold /\ SyncsHold
  BY <1>1, <1>3 DEF LinksHold, SyncsHold, At
<1> QED
  BY <1>2, <1>4, <1>5 DEF OIDCInv

\* A callback that goes on with its login state, or ends, leaves every state in its place.
LEMMA CallbackMoves ==
    ASSUME OIDCInv, NEW c \in Callbacks, NEW q, callback' = [callback EXCEPT ![c] = q], CallbackFits(q),
           q.pc = "idle" \/ (q.state = callback[c].state /\ ~At(c, "idle")),
           UNCHANGED <<loginStates, started>>
    PROVE  /\ callback' = [d \in Callbacks |-> callback'[d]] /\ \A d \in Callbacks : CallbackFits(callback'[d])
           /\ callback'[c] = q /\ \A d \in Callbacks \ {c} : callback'[d] = callback[d]
           /\ UNCHANGED oidcSessions => StatesOnce' /\ StateOpensOneSession'
<1> USE DEF OIDCInv
<1>1. callback = [d \in Callbacks |-> callback[d]] /\ \A d \in Callbacks : CallbackFits(callback[d])
  BY DEF OIDCTyped
<1>2. callback'[c] = q /\ \A d \in Callbacks \ {c} : callback'[d] = callback[d]
  BY <1>1
<1>3. callback' = [d \in Callbacks |-> callback'[d]]
  BY <1>1
<1>4. \A d \in Callbacks : CallbackFits(callback'[d])
  BY <1>1, <1>2
<1>5. \A d \in Callbacks : ~At(d, "idle")' => ~At(d, "idle") /\ callback'[d].state = callback[d].state
  BY <1>2 DEF At
<1>6. ASSUME UNCHANGED oidcSessions PROVE StatesOnce' /\ StateOpensOneSession'
  BY <1>5, <1>6 DEF StatesOnce, StateOpensOneSession
<1> QED
  BY <1>2, <1>3, <1>4, <1>6

\* Steps that leave the callbacks, the links and the memberships alone.
LEMMA OIDCAside ==
    ASSUME OIDCInv, UNCHANGED <<link, membership, callback, oidcSessions, overlapped>>
    PROVE  /\ LinksHold' /\ SyncsHold' /\ StateOpensOneSession'
           /\ UNCHANGED <<loginStates, started>> => StatesOnce'
           /\ UNCHANGED <<loginStates, started, idp>> => OIDCInv'
<1> USE DEF OIDCInv
<1>1. LinksHold'
  BY DEF LinksHold
<1>2. SyncsHold'
  BY DEF SyncsHold, At
<1>3. StateOpensOneSession'
  BY DEF StateOpensOneSession
<1>4. ASSUME UNCHANGED <<loginStates, started>> PROVE StatesOnce'
  BY <1>4 DEF StatesOnce, At
<1>5. ASSUME UNCHANGED <<loginStates, started, idp>> PROVE OIDCInv'
  BY <1>1, <1>2, <1>3, <1>4, <1>5 DEF OIDCTyped
<1> QED
  BY <1>1, <1>2, <1>3, <1>4, <1>5

\* The provider row, the login states and the provider itself.
LEMMA AroundOIDCInv ==
    ASSUME OIDCInv
    PROVE  /\ \A g \in BOOLEAN : SetOIDCProvider(g) => OIDCInv'
           /\ DeleteOIDCProvider \/ InvalidateOIDCVerifier => OIDCInv'
           /\ \A u \in OIDCUsers : DisableAccount(u) => OIDCInv'
           /\ StartOIDCLogin => OIDCInv'
           /\ \A x \in loginStates : StateExpires(x) => OIDCInv'
           /\ \A s, t \in Subjects : IdPMovesEmail(s, t) => OIDCInv'
           /\ \A s \in Subjects : IdPDropsEmail(s) => OIDCInv'
           /\ \A s \in Subjects, groups \in SUBSET OIDCGroups, known \in BOOLEAN : IdPChangesGroups(s, groups, known) => OIDCInv'
<1>1. ASSUME NEW g \in BOOLEAN, SetOIDCProvider(g) PROVE OIDCInv'
  BY <1>1, OIDCAside DEF SetOIDCProvider
<1>2. ASSUME DeleteOIDCProvider \/ InvalidateOIDCVerifier PROVE OIDCInv'
  BY <1>2, OIDCAside DEF DeleteOIDCProvider, InvalidateOIDCVerifier
<1>3. ASSUME NEW u \in OIDCUsers, DisableAccount(u) PROVE OIDCInv'
  BY <1>3, OIDCAside DEF DisableAccount
<1>4. ASSUME StartOIDCLogin PROVE OIDCInv'
  <2>1. /\ started' = started + 1 /\ loginStates' = loginStates \cup {started + 1}
        /\ UNCHANGED <<link, membership, callback, oidcSessions, overlapped, idp>>
    BY <1>4 DEF StartOIDCLogin
  <2>2. /\ OIDCTyped /\ started \in Nat /\ \A c \in Callbacks : callback[c].state \in Nat
        /\ \A p \in oidcSessions : p.state \in Nat
    BY DEF OIDCInv, OIDCTyped, CallbackFits, CallbackShape, StatesOnce
  <2>3. StatesOnce'
    BY <2>1, <2>2 DEF OIDCInv, OIDCTyped, StatesOnce, At
  <2>4. OIDCTyped'
    BY <2>1, <2>2 DEF OIDCTyped
  <2> QED
    BY <2>1, <2>3, <2>4, OIDCAside DEF OIDCInv
<1>5. ASSUME NEW x \in loginStates, StateExpires(x) PROVE OIDCInv'
  <2>1. loginStates' \subseteq loginStates /\ UNCHANGED <<started, link, membership, callback, oidcSessions, overlapped, idp>>
    BY <1>5 DEF StateExpires
  <2>2. StatesOnce'
    BY <2>1 DEF OIDCInv, StatesOnce, At
  <2>3. OIDCTyped'
    BY <2>1 DEF OIDCInv, OIDCTyped
  <2> QED
    BY <2>1, <2>2, <2>3, OIDCAside DEF OIDCInv
<1> DEFINE Person(x) == x \in [email : OIDCUsers \cup {Unlinked}, groups : SUBSET OIDCGroups, known : {x.known}]
<1>6. ASSUME UNCHANGED <<link, membership, callback, oidcSessions, overlapped, loginStates, started>>,
             idp' = [s \in Subjects |-> idp'[s]], \A s \in Subjects : Person(idp'[s])
      PROVE  OIDCInv'
  BY <1>6, OIDCAside DEF OIDCInv, OIDCTyped
<1>7. idp = [s \in Subjects |-> idp[s]] /\ \A s \in Subjects : Person(idp[s])
  BY DEF OIDCInv, OIDCTyped
<1>8. ASSUME NEW s \in Subjects, NEW t \in Subjects, IdPMovesEmail(s, t) PROVE OIDCInv'
  <2>1. /\ idp' = [idp EXCEPT ![s].email = idp[t].email, ![t].email = idp[s].email]
        /\ UNCHANGED <<link, membership, callback, oidcSessions, overlapped, loginStates, started>> /\ s # t
    BY <1>8 DEF IdPMovesEmail
  <2>2. idp' = [x \in Subjects |-> idp'[x]]
    BY <1>7, <2>1
  <2>3. /\ idp'[s] = [idp[s] EXCEPT !.email = idp[t].email] /\ idp'[t] = [idp[t] EXCEPT !.email = idp[s].email]
        /\ \A x \in Subjects \ {s, t} : idp'[x] = idp[x]
    BY <1>7, <2>1
  <2>4. \A x \in Subjects : Person(idp'[x])
    BY <1>7, <2>3
  <2> QED
    BY <1>6, <2>1, <2>2, <2>4
<1>9. ASSUME NEW s \in Subjects, IdPDropsEmail(s) PROVE OIDCInv'
  <2>1. /\ idp' = [idp EXCEPT ![s].email = Unlinked]
        /\ UNCHANGED <<link, membership, callback, oidcSessions, overlapped, loginStates, started>>
    BY <1>9 DEF IdPDropsEmail
  <2>2. idp' = [x \in Subjects |-> idp'[x]]
    BY <1>7, <2>1
  <2>3. \A x \in Subjects : Person(idp'[x])
    BY <1>7, <2>1
  <2> QED
    BY <1>6, <2>1, <2>2, <2>3
<1>10. ASSUME NEW s \in Subjects, NEW groups \in SUBSET OIDCGroups, NEW known \in BOOLEAN, IdPChangesGroups(s, groups, known)
       PROVE  OIDCInv'
  <2>1. /\ idp' = [idp EXCEPT ![s].groups = groups, ![s].known = known]
        /\ UNCHANGED <<link, membership, callback, oidcSessions, overlapped, loginStates, started>>
    BY <1>10 DEF IdPChangesGroups
  <2>2. idp' = [x \in Subjects |-> idp'[x]]
    BY <1>7, <2>1
  <2>3. idp'[s] = [idp[s] EXCEPT !.groups = groups, !.known = known] /\ \A x \in Subjects \ {s} : idp'[x] = idp[x]
    BY <1>7, <2>1
  <2>4. Person(idp'[s])
    BY <1>7, <2>3
  <2>5. \A x \in Subjects : Person(idp'[x])
    BY <1>7, <2>3, <2>4
  <2> QED
    BY <1>6, <2>1, <2>2, <2>5
<1> QED
  BY <1>1, <1>2, <1>3, <1>4, <1>5, <1>8, <1>9, <1>10

\* A callback that has not reached its membership, or has ended, disturbs no link or membership.
LEMMA EarlyMoves ==
    ASSUME OIDCInv, NEW c \in Callbacks, NEW q, callback'[c] = q, \A d \in Callbacks \ {c} : callback'[d] = callback[d],
           q.pc \notin {"sync", "commit", "mint"}, UNCHANGED <<link, membership, oidcSessions, overlapped>>
    PROVE  LinksHold' /\ SyncsHold'
<1> USE DEF OIDCInv
<1>1. \A d \in Callbacks : callback'[d].pc \in {"sync", "commit", "mint"} => d # c /\ callback'[d] = callback[d]
  OBVIOUS
<1>2. LinksHold'
  BY <1>1 DEF LinksHold
<1>3. SyncsHold'
  BY <1>1 DEF SyncsHold, At
<1> QED
  BY <1>2, <1>3

\* The callback arrives and takes its state.
LEMMA OIDCCallbackInv ==
    ASSUME OIDCInv, NEW c \in Callbacks, NEW x \in loginStates, NEW s \in Subjects, OIDCCallback(c, x, s)
    PROVE  OIDCInv'
<1> USE DEF OIDCInv
<1> DEFINE q == [IdleCallback EXCEPT !.pc = "provider", !.state = x, !.subject = s, !.claims = idp[s]]
<1>1. /\ callback' = [callback EXCEPT ![c] = q] /\ loginStates' = loginStates \ {x} /\ At(c, "idle")
      /\ UNCHANGED <<started, link, membership, idp, oidcSessions, overlapped>>
  BY DEF OIDCCallback, Consume
<1>2. callback = [d \in Callbacks |-> callback[d]] /\ x \in Nat /\ x <= started
  BY DEF OIDCTyped, StatesOnce
<1>3. callback'[c] = q /\ \A d \in Callbacks \ {c} : callback'[d] = callback[d]
  BY <1>1, <1>2
<1>4. q.pc = "provider" /\ q.state = x
  BY DEF IdleCallback
<1>5. CallbackFits(q)
  BY <1>2 DEF CallbackFits, CallbackShape, IdleCallback, OIDCTyped
<1> HIDE DEF q
<1>6. OIDCTyped'
  BY <1>1, <1>2, <1>3, <1>5 DEF OIDCTyped
<1>7. StatesOnce'
  <2>1. \A d \in Callbacks : d # c => callback'[d] = callback[d]
    BY <1>3
  <2>2. /\ At(c, "idle") /\ ~At(c, "idle")' /\ callback'[c].state = x
        /\ \A d \in Callbacks \ {c} : (~At(d, "idle")' => ~At(d, "idle")) /\ callback'[d].state = callback[d].state
    BY <1>1, <1>3, <1>4 DEF At
  <2>3. \A y \in loginStates' : y <= started'
    BY <1>1 DEF StatesOnce
  <2>4. \A d \in Callbacks : ~At(d, "idle")' => callback'[d].state <= started' /\ callback'[d].state \notin loginStates'
    BY <1>1, <1>2, <2>2 DEF StatesOnce
  <2>5. \A d, e \in Callbacks : d # e /\ ~At(d, "idle")' /\ ~At(e, "idle")' => callback'[d].state # callback'[e].state
    BY <2>2 DEF StatesOnce
  <2>6. \A p \in oidcSessions' : p.state \in Nat /\ p.state <= started' /\ p.state \notin loginStates'
    BY <1>1 DEF StatesOnce
  <2>7. \A p \in oidcSessions', d \in Callbacks : ~At(d, "idle")' => callback'[d].state # p.state
    BY <1>1, <2>2 DEF StatesOnce
  <2> QED
    BY <2>3, <2>4, <2>5, <2>6, <2>7 DEF StatesOnce
<1>8. LinksHold' /\ SyncsHold'
  BY <1>1, <1>3, <1>4, EarlyMoves
<1>9. StateOpensOneSession'
  BY <1>1 DEF StateOpensOneSession
<1> QED
  BY <1>6, <1>7, <1>8, <1>9

\* The steps up to the resolved account.
LEMMA OIDCVerifyInv ==
    ASSUME OIDCInv, NEW c \in Callbacks
    PROVE  /\ ReadProvider(c) => OIDCInv'
           /\ VerifyOIDCCallback(c) => OIDCInv'
<1> USE DEF OIDCInv
<1>0. CallbackFits(callback[c]) /\ callback = [d \in Callbacks |-> callback[d]]
  BY DEF OIDCTyped
<1>1. ASSUME NEW q, callback' = [callback EXCEPT ![c] = q], CallbackFits(q), q.pc \notin {"sync", "commit", "mint"},
             q.pc = "idle" \/ (q.state = callback[c].state /\ ~At(c, "idle")),
             UNCHANGED <<loginStates, started, link, membership, idp, oidcSessions, overlapped>>
      PROVE  OIDCInv'
  <2>1. /\ callback' = [d \in Callbacks |-> callback'[d]] /\ \A d \in Callbacks : CallbackFits(callback'[d])
        /\ callback'[c] = q /\ \A d \in Callbacks \ {c} : callback'[d] = callback[d]
        /\ StatesOnce' /\ StateOpensOneSession'
    BY <1>1, CallbackMoves
  <2>2. LinksHold' /\ SyncsHold'
    BY <1>1, <2>1, EarlyMoves
  <2>3. OIDCTyped'
    BY <1>1, <2>1 DEF OIDCTyped
  <2> QED
    BY <2>1, <2>2, <2>3
<1>2. ASSUME ReadProvider(c) PROVE OIDCInv'
  <2> DEFINE q == [callback[c] EXCEPT !.pc = "exchange", !.row = provider.version]
  <2>1. /\ callback' = [callback EXCEPT ![c] = IF provider.enabled THEN q ELSE IdleCallback] /\ At(c, "provider")
        /\ UNCHANGED <<loginStates, started, link, membership, idp, oidcSessions, overlapped>>
    BY <1>0, <1>2 DEF ReadProvider
  <2>2. q.pc = "exchange" /\ q.state = callback[c].state /\ CallbackFits(q)
    BY <1>0, <2>1 DEF CallbackFits, CallbackShape, At
  <2>3. ~At(c, "idle")
    BY <2>1 DEF At
  <2> HIDE DEF q
  <2> QED
    BY <1>1, <2>1, <2>2, <2>3, IdleCallbackFits
<1>3. ASSUME VerifyOIDCCallback(c) PROVE OIDCInv'
  <2> DEFINE used == IF oidcCache # 0 THEN oidcCache ELSE callback[c].row
             q == [callback[c] EXCEPT !.pc = "resolve", !.claims.known = callback[c].claims.known /\ provider.groupsClaim]
             ok == used = provider.version /\ provider.enabled
  <2>0. callback' = [callback EXCEPT ![c] = IF ok THEN q ELSE IdleCallback]
    BY <1>3 DEF VerifyOIDCCallback
  <2>1. /\ callback' = [callback EXCEPT ![c] = IF ok THEN q ELSE IdleCallback] /\ At(c, "exchange")
        /\ UNCHANGED <<loginStates, started, link, membership, idp, oidcSessions, overlapped>>
    BY <1>3, <2>0 DEF VerifyOIDCCallback
  <2>2. q.pc = "resolve" /\ q.state = callback[c].state /\ CallbackFits(q)
    BY <1>0, <2>1 DEF CallbackFits, CallbackShape, At
  <2>3. ~At(c, "idle")
    BY <2>1 DEF At
  <2> HIDE DEF q, ok
  <2> QED
    BY <1>1, <2>1, <2>2, <2>3, IdleCallbackFits
<1> QED
  BY <1>2, <1>3

\* The account: by the link where there is one.
LEMMA ResolveInv == ASSUME OIDCInv, NEW c \in Callbacks, ResolveOIDCLogin(c) PROVE OIDCInv'
<1> USE DEF OIDCInv
<1> DEFINE u == Resolve(c)
           q == [callback[c] EXCEPT !.user = u, !.pc = IF link[callback[c].subject] = Unlinked THEN "link" ELSE "sync"]
           r == IF u \in disabled \cup {Unlinked} THEN IdleCallback ELSE q
<1>0. /\ CallbackFits(callback[c]) /\ callback = [d \in Callbacks |-> callback[d]]
      /\ link \in [Subjects -> OIDCUsers \cup {Unlinked}]
  BY DEF OIDCTyped
<1>1. /\ callback' = [callback EXCEPT ![c] = r] /\ At(c, "resolve")
      /\ UNCHANGED <<loginStates, started, link, membership, idp, oidcSessions, overlapped>>
  BY <1>0 DEF ResolveOIDCLogin
<1>2. callback[c].subject \in Subjects /\ u \in OIDCUsers \cup {Unlinked}
  BY <1>0, <1>1 DEF CallbackFits, CallbackShape, Resolve, At
<1>3. /\ q.pc = (IF link[callback[c].subject] = Unlinked THEN "link" ELSE "sync") /\ q.state = callback[c].state
      /\ q.user = u /\ q.subject = callback[c].subject
  BY <1>0 DEF CallbackFits, CallbackShape
<1>4. CallbackShape(q)
  BY <1>0, <1>2 DEF CallbackFits, CallbackShape
<1> HIDE DEF q, u
<1>5. CallbackFits(r)
  <2>1. CASE u \in disabled \cup {Unlinked}
    BY <2>1, IdleCallbackFits
  <2>2. CASE u \notin disabled \cup {Unlinked}
    BY <2>2, <1>2, <1>3, <1>4 DEF CallbackFits
  <2> QED
    BY <2>1, <2>2
<1>6. (r = IdleCallback /\ r.pc = "idle") \/ (r = q /\ r.state = callback[c].state /\ ~At(c, "idle"))
  BY <1>1, <1>3, IdleCallbackFits DEF At
<1>7. /\ callback' = [d \in Callbacks |-> callback'[d]] /\ \A d \in Callbacks : CallbackFits(callback'[d])
      /\ callback'[c] = r /\ \A d \in Callbacks \ {c} : callback'[d] = callback[d]
      /\ StatesOnce' /\ StateOpensOneSession'
  BY <1>1, <1>5, <1>6, CallbackMoves
<1>8. r.pc = "sync" => link[r.subject] = r.user
  <2> SUFFICES ASSUME r.pc = "sync" PROVE link[r.subject] = r.user
    OBVIOUS
  <2>1. r = q /\ link[callback[c].subject] # Unlinked
    BY <1>3, <1>6
  <2>2. u = link[callback[c].subject]
    BY <2>1 DEF Resolve, u
  <2> QED
    BY <2>1, <2>2, <1>3
<1>9. r.pc \in {"idle", "link", "sync"}
  BY <1>3, <1>6
<1> HIDE DEF r
<1>10. LinksHold'
  BY <1>1, <1>7, <1>8, <1>9 DEF LinksHold
<1>11. SyncsHold'
  <2>1. \A d \in Callbacks : At(d, "commit")' => d # c /\ At(d, "commit") /\ callback'[d] = callback[d]
    BY <1>7, <1>9 DEF At
  <2> QED
    BY <1>1, <2>1 DEF SyncsHold
<1>12. OIDCTyped'
  BY <1>1, <1>7 DEF OIDCTyped
<1> QED
  BY <1>7, <1>10, <1>11, <1>12

\* The first login of a subject links it; the second of two finds the link there and fails.
LEMMA CreateLinkInv == ASSUME OIDCInv, NEW c \in Callbacks, CreateLink(c) PROVE OIDCInv'
<1> USE DEF OIDCInv
<1>0. /\ CallbackFits(callback[c]) /\ callback = [d \in Callbacks |-> callback[d]] /\ At(c, "link")
      /\ link \in [Subjects -> OIDCUsers \cup {Unlinked}]
      /\ UNCHANGED <<loginStates, started, membership, idp, oidcSessions, overlapped>>
  BY DEF OIDCTyped, CreateLink
<1>1. CASE link[callback[c].subject] # Unlinked
  <2>1. callback' = [callback EXCEPT ![c] = IdleCallback] /\ link' = link
    BY <1>1 DEF CreateLink, Done
  <2>2. /\ callback' = [d \in Callbacks |-> callback'[d]] /\ \A d \in Callbacks : CallbackFits(callback'[d])
        /\ callback'[c] = IdleCallback /\ \A d \in Callbacks \ {c} : callback'[d] = callback[d]
        /\ StatesOnce' /\ StateOpensOneSession'
    BY <1>0, <2>1, IdleCallbackFits, CallbackMoves
  <2>3. LinksHold' /\ SyncsHold'
    BY <1>0, <2>1, <2>2, IdleCallbackFits, EarlyMoves
  <2>4. OIDCTyped'
    BY <1>0, <2>1, <2>2 DEF OIDCTyped
  <2> QED
    BY <2>2, <2>3, <2>4
<1>2. CASE link[callback[c].subject] = Unlinked
  <2> DEFINE s == callback[c].subject
             q == [callback[c] EXCEPT !.pc = "sync"]
  <2>1. callback' = [callback EXCEPT ![c] = q] /\ link' = [link EXCEPT ![s] = callback[c].user]
    BY <1>0, <1>2 DEF CreateLink
  <2>2. s \in Subjects /\ callback[c].user \in OIDCUsers /\ callback[c].user # Unlinked
    BY <1>0 DEF CallbackFits, At
  <2>3. q.pc = "sync" /\ q.state = callback[c].state /\ q.subject = s /\ q.user = callback[c].user
    BY <1>0 DEF CallbackFits, CallbackShape
  <2>4. CallbackFits(q)
    BY <1>0, <2>2 DEF CallbackFits, CallbackShape
  <2> HIDE DEF q
  <2>5. ~At(c, "idle")
    BY <1>0 DEF At
  <2>6. /\ callback' = [d \in Callbacks |-> callback'[d]] /\ \A d \in Callbacks : CallbackFits(callback'[d])
        /\ callback'[c] = q /\ \A d \in Callbacks \ {c} : callback'[d] = callback[d]
        /\ StatesOnce' /\ StateOpensOneSession'
    BY <1>0, <2>1, <2>3, <2>4, <2>5, CallbackMoves
  <2>7. /\ link' \in [Subjects -> OIDCUsers \cup {Unlinked}] /\ link'[s] = callback[c].user
        /\ \A x \in Subjects : link[x] # Unlinked => link'[x] = link[x]
    BY <1>0, <1>2, <2>1, <2>2
  <2>8. OIDCTyped'
    BY <1>0, <2>6, <2>7 DEF OIDCTyped
  <2>9. LinksHold'
    <3>1. ASSUME NEW d \in Callbacks, callback'[d].pc \in {"sync", "commit", "mint"}
          PROVE  link'[callback'[d].subject] = callback'[d].user
      <4>1. CASE d = c
        BY <4>1, <2>3, <2>6, <2>7
      <4>2. CASE d # c
        <5>1. callback'[d] = callback[d] /\ callback[d].subject \in Subjects /\ callback[d].user # Unlinked
          BY <3>1, <4>2, <2>6 DEF OIDCTyped, CallbackFits
        <5> QED
          BY <3>1, <5>1, <2>7 DEF LinksHold
      <4> QED
        BY <4>1, <4>2
    <3>2. \A p \in oidcSessions' : p.subject \in Subjects /\ p.user # Unlinked /\ link'[p.subject] = p.user
      BY <1>0, <2>7 DEF LinksHold
    <3> QED
      BY <3>1, <3>2 DEF LinksHold
  <2>10. SyncsHold'
    <3>1. \A d \in Callbacks : At(d, "commit")' => d # c /\ At(d, "commit") /\ callback'[d] = callback[d]
      BY <2>3, <2>6 DEF At
    <3> QED
      BY <1>0, <3>1 DEF SyncsHold
  <2> QED
    BY <2>6, <2>8, <2>9, <2>10
<1> QED
  BY <1>1, <1>2

\* A replacement reads the memberships it will remove. One that finds another pending marks the account.
LEMMA SyncDeleteInv == ASSUME OIDCInv, NEW c \in Callbacks, SyncDelete(c) PROVE OIDCInv'
<1> USE DEF OIDCInv
<1> DEFINE u == callback[c].user
           known == callback[c].claims.known
           q == [callback[c] EXCEPT !.pc = IF known THEN "commit" ELSE "mint", !.removes = Removes(c)]
           meets == \E d \in Callbacks : At(d, "commit") /\ callback[d].user = u
<1>0. /\ CallbackFits(callback[c]) /\ callback = [d \in Callbacks |-> callback[d]] /\ At(c, "sync")
      /\ membership \in [OIDCUsers -> SUBSET OIDCGroups]
      /\ UNCHANGED <<loginStates, started, link, membership, idp, oidcSessions>>
  BY DEF OIDCTyped, SyncDelete
<1>1. callback' = [callback EXCEPT ![c] = q]
  BY <1>0 DEF SyncDelete
<1>2. overlapped \subseteq overlapped' /\ (known /\ meets => u \in overlapped')
  BY DEF SyncDelete
<1>3. u \in OIDCUsers /\ u # Unlinked /\ callback[c].subject \in Subjects /\ callback[c].claims.groups \subseteq OIDCGroups
  BY <1>0 DEF CallbackFits, CallbackShape, At
<1>4. Removes(c) \in SUBSET OIDCGroups /\ Removes(c) = membership[u] \ callback[c].claims.groups
  BY <1>0, <1>3 DEF Removes
<1>5. /\ q.pc = (IF known THEN "commit" ELSE "mint") /\ q.state = callback[c].state /\ q.user = u
      /\ q.subject = callback[c].subject /\ q.removes = Removes(c) /\ q.claims = callback[c].claims
  BY <1>0 DEF CallbackFits, CallbackShape
<1>6. CallbackShape(q)
  <2> HIDE DEF known
  <2> QED
    BY <1>0, <1>4 DEF CallbackFits, CallbackShape
<1> HIDE DEF q, known, meets
<1>7. CallbackFits(q) /\ ~At(c, "idle")
  BY <1>0, <1>3, <1>5, <1>6 DEF CallbackFits, At
<1>8. /\ callback' = [d \in Callbacks |-> callback'[d]] /\ \A d \in Callbacks : CallbackFits(callback'[d])
      /\ callback'[c] = q /\ \A d \in Callbacks \ {c} : callback'[d] = callback[d]
      /\ StatesOnce' /\ StateOpensOneSession'
  BY <1>0, <1>1, <1>5, <1>7, CallbackMoves
<1>9. OIDCTyped'
  BY <1>0, <1>8 DEF OIDCTyped
<1>10. LinksHold'
  BY <1>0, <1>5, <1>8 DEF LinksHold, At
<1>11. SyncsHold'
  <2>1. \A d \in Callbacks \ {c} : (At(d, "commit")' <=> At(d, "commit")) /\ callback'[d] = callback[d]
    BY <1>8 DEF At
  <2>2. At(c, "commit")' => known
    BY <1>5, <1>8 DEF At
  <2>3. membership'[callback'[c].user] \subseteq callback'[c].removes \cup callback'[c].claims.groups
    BY <1>0, <1>4, <1>5, <1>8
  <2>4. ASSUME NEW d \in Callbacks, At(d, "commit")'
        PROVE  callback'[d].user \in overlapped' \/ membership'[callback'[d].user] \subseteq callback'[d].removes \cup callback'[d].claims.groups
    BY <1>0, <1>2, <2>1, <2>3, <2>4 DEF SyncsHold
  <2>5. ASSUME NEW d \in Callbacks, d # c, At(c, "commit")', At(d, "commit")', callback'[d].user = u PROVE u \in overlapped'
    BY <1>2, <2>1, <2>2, <2>5 DEF meets
  <2>6. ASSUME NEW d \in Callbacks, NEW e \in Callbacks, d # e, At(d, "commit")', At(e, "commit")', callback'[d].user = callback'[e].user
        PROVE  callback'[d].user \in overlapped'
    <3>1. callback'[c].user = u
      BY <1>5, <1>8
    <3>2. CASE d = c
      BY <2>5, <2>6, <3>1, <3>2
    <3>3. CASE e = c
      BY <2>5, <2>6, <3>1, <3>3
    <3>4. CASE d # c /\ e # c
      BY <1>2, <2>1, <2>6, <3>4 DEF SyncsHold
    <3> QED
      BY <3>2, <3>3, <3>4
  <2> QED
    BY <2>4, <2>6 DEF SyncsHold
<1> QED
  BY <1>8, <1>9, <1>10, <1>11

\* Without an overlap the commit leaves the groups of the claim, no more and no fewer.
LEMMA CommitFollows ==
    ASSUME OIDCInv, NEW c \in Callbacks, SyncCommit(c)
    PROVE  /\ callback[c].user \in OIDCUsers
           /\ membership' = [membership EXCEPT ![callback[c].user] = Committed(c)]
           /\ membership' \in [OIDCUsers -> SUBSET OIDCGroups]
           /\ callback[c].user \in overlapped \/ membership'[callback[c].user] = callback[c].claims.groups
<1> USE DEF OIDCInv
<1>1. At(c, "commit") /\ CallbackFits(callback[c]) /\ membership \in [OIDCUsers -> SUBSET OIDCGroups]
  BY DEF OIDCTyped, SyncCommit
<1>2. callback[c].user \in OIDCUsers /\ callback[c].claims.groups \in SUBSET OIDCGroups
  BY <1>1 DEF CallbackFits, CallbackShape, At
<1>3. membership' = [membership EXCEPT ![callback[c].user] = Committed(c)]
  BY DEF SyncCommit
<1>4. Committed(c) \in SUBSET OIDCGroups
  BY <1>1, <1>2 DEF Committed
<1>5. membership'[callback[c].user] = Committed(c) /\ membership' \in [OIDCUsers -> SUBSET OIDCGroups]
  BY <1>1, <1>2, <1>3, <1>4
<1>6. callback[c].user \in overlapped \/ Committed(c) = callback[c].claims.groups
  BY <1>1 DEF SyncsHold, Committed
<1> QED
  BY <1>2, <1>3, <1>5, <1>6

\* The commit of a replacement.
LEMMA SyncCommitInv == ASSUME OIDCInv, NEW c \in Callbacks, SyncCommit(c) PROVE OIDCInv'
<1> USE DEF OIDCInv
<1> DEFINE u == callback[c].user
           q == [callback[c] EXCEPT !.pc = "mint"]
<1>0. /\ CallbackFits(callback[c]) /\ callback = [d \in Callbacks |-> callback[d]] /\ At(c, "commit")
      /\ UNCHANGED <<loginStates, started, link, idp, oidcSessions, overlapped>>
  BY DEF OIDCTyped, SyncCommit
<1>1. callback' = [callback EXCEPT ![c] = q]
  BY <1>0 DEF SyncCommit
<1>2. q.pc = "mint" /\ q.state = callback[c].state /\ q.user = u /\ q.subject = callback[c].subject
  BY <1>0 DEF CallbackFits, CallbackShape
<1>3. CallbackFits(q) /\ ~At(c, "idle")
  BY <1>0 DEF CallbackFits, CallbackShape, At
<1> HIDE DEF q
<1>4. /\ callback' = [d \in Callbacks |-> callback'[d]] /\ \A d \in Callbacks : CallbackFits(callback'[d])
      /\ callback'[c] = q /\ \A d \in Callbacks \ {c} : callback'[d] = callback[d]
      /\ StatesOnce' /\ StateOpensOneSession'
  BY <1>0, <1>1, <1>2, <1>3, CallbackMoves
<1>5. /\ u \in OIDCUsers /\ membership' = [membership EXCEPT ![u] = Committed(c)]
      /\ membership' \in [OIDCUsers -> SUBSET OIDCGroups] /\ membership \in [OIDCUsers -> SUBSET OIDCGroups]
  BY CommitFollows DEF OIDCTyped
<1>6. OIDCTyped'
  BY <1>0, <1>4, <1>5 DEF OIDCTyped
<1>7. LinksHold'
  BY <1>0, <1>2, <1>4 DEF LinksHold, At
<1>8. SyncsHold'
  <2>1. \A d \in Callbacks : At(d, "commit")' => d # c /\ At(d, "commit") /\ callback'[d] = callback[d]
    BY <1>2, <1>4 DEF At
  <2>2. ASSUME NEW d \in Callbacks, At(d, "commit")'
        PROVE  callback'[d].user \in overlapped' \/ membership'[callback'[d].user] \subseteq callback'[d].removes \cup callback'[d].claims.groups
    <3>1. CASE callback[d].user = u
      BY <1>0, <2>1, <2>2, <3>1 DEF SyncsHold
    <3>2. CASE callback[d].user # u
      <4>1. callback[d].user \in OIDCUsers
        BY <2>1, <2>2 DEF OIDCTyped, CallbackFits, At
      <4>2. membership'[callback[d].user] = membership[callback[d].user]
        BY <1>5, <3>2, <4>1
      <4> QED
        BY <1>0, <2>1, <2>2, <4>2 DEF SyncsHold
    <3> QED
      BY <3>1, <3>2
  <2>3. \A d, e \in Callbacks : d # e /\ At(d, "commit")' /\ At(e, "commit")' /\ callback'[d].user = callback'[e].user =>
           callback'[d].user \in overlapped'
    BY <1>0, <2>1 DEF SyncsHold
  <2> QED
    BY <2>2, <2>3 DEF SyncsHold
<1> QED
  BY <1>4, <1>6, <1>7, <1>8

\* The session, which spends the state.
LEMMA OIDCMintInv == ASSUME OIDCInv, NEW c \in Callbacks, OIDCMint(c) PROVE OIDCInv'
<1> USE DEF OIDCInv
<1> DEFINE p == [state |-> callback[c].state, call |-> c, subject |-> callback[c].subject, user |-> callback[c].user]
<1>0. /\ CallbackFits(callback[c]) /\ At(c, "mint") /\ oidcSessions' = oidcSessions \cup {p}
      /\ callback' = [callback EXCEPT ![c] = IdleCallback]
      /\ UNCHANGED <<loginStates, started, link, membership, idp, overlapped>>
  BY DEF OIDCTyped, OIDCMint, Done
<1>1. p.state = callback[c].state /\ p.subject = callback[c].subject /\ p.user = callback[c].user
  OBVIOUS
<1> HIDE DEF p
<1>2. /\ callback' = [d \in Callbacks |-> callback'[d]] /\ \A d \in Callbacks : CallbackFits(callback'[d])
      /\ callback'[c] = IdleCallback /\ \A d \in Callbacks \ {c} : callback'[d] = callback[d]
  BY <1>0, IdleCallbackFits, CallbackMoves
<1>3. /\ ~At(c, "idle") /\ callback[c].subject \in Subjects /\ callback[c].user # Unlinked /\ callback[c].state \in Nat
      /\ link[callback[c].subject] = callback[c].user
  BY <1>0 DEF CallbackFits, CallbackShape, LinksHold, At
<1>4. OIDCTyped'
  BY <1>0, <1>2 DEF OIDCTyped
<1>5. \A d \in Callbacks : ~At(d, "idle")' => d # c /\ ~At(d, "idle") /\ callback'[d] = callback[d]
  BY <1>2, IdleCallbackFits DEF At
<1>6. StatesOnce'
  <2>1. \A x \in loginStates' : x <= started'
    BY <1>0 DEF StatesOnce
  <2>2. \A d \in Callbacks : ~At(d, "idle")' => callback'[d].state <= started' /\ callback'[d].state \notin loginStates'
    BY <1>0, <1>5 DEF StatesOnce
  <2>3. \A d, e \in Callbacks : d # e /\ ~At(d, "idle")' /\ ~At(e, "idle")' => callback'[d].state # callback'[e].state
    BY <1>5 DEF StatesOnce
  <2>4. \A x \in oidcSessions' : x.state \in Nat /\ x.state <= started' /\ x.state \notin loginStates'
    BY <1>0, <1>1, <1>3 DEF StatesOnce
  <2>5. \A x \in oidcSessions', d \in Callbacks : ~At(d, "idle")' => callback'[d].state # x.state
    BY <1>0, <1>1, <1>3, <1>5 DEF StatesOnce
  <2> QED
    BY <2>1, <2>2, <2>3, <2>4, <2>5 DEF StatesOnce
<1>7. StateOpensOneSession'
  <2>1. \A x \in oidcSessions : x.state # p.state
    BY <1>1, <1>3 DEF StatesOnce
  <2> QED
    BY <1>0, <2>1 DEF StateOpensOneSession
<1>8. LinksHold'
  <2>1. \A d \in Callbacks : callback'[d].pc \in {"sync", "commit", "mint"} => callback'[d] = callback[d]
    BY <1>2, IdleCallbackFits
  <2> QED
    BY <1>0, <1>1, <1>3, <2>1 DEF LinksHold
<1>9. SyncsHold'
  <2>1. \A d \in Callbacks : At(d, "commit")' => At(d, "commit") /\ callback'[d] = callback[d]
    BY <1>2, IdleCallbackFits DEF At
  <2> QED
    BY <1>0, <2>1 DEF SyncsHold
<1> QED
  BY <1>4, <1>6, <1>7, <1>8, <1>9

\* Every step keeps OIDCInv.
LEMMA OIDCNextInv == OIDCInv /\ [OIDCNext]_oidcVars => OIDCInv'
<1> SUFFICES ASSUME OIDCInv, [OIDCNext]_oidcVars PROVE OIDCInv'
  OBVIOUS
<1>1. CASE \/ \E g \in BOOLEAN : SetOIDCProvider(g)
           \/ DeleteOIDCProvider \/ InvalidateOIDCVerifier \/ StartOIDCLogin
           \/ \E x \in loginStates : StateExpires(x)
           \/ \E s, t \in Subjects : IdPMovesEmail(s, t)
           \/ \E s \in Subjects : IdPDropsEmail(s)
           \/ \E s \in Subjects, groups \in SUBSET OIDCGroups, known \in BOOLEAN : IdPChangesGroups(s, groups, known)
           \/ \E u \in OIDCUsers : DisableAccount(u)
  BY <1>1, AroundOIDCInv
<1>2. CASE \E x \in loginStates, c \in Callbacks, s \in Subjects : OIDCCallback(c, x, s)
  BY <1>2, OIDCCallbackInv
<1>3. CASE \E c \in Callbacks : ReadProvider(c) \/ VerifyOIDCCallback(c)
  BY <1>3, OIDCVerifyInv
<1>4. CASE \E c \in Callbacks : ResolveOIDCLogin(c)
  BY <1>4, ResolveInv
<1>5. CASE \E c \in Callbacks : CreateLink(c)
  BY <1>5, CreateLinkInv
<1>6. CASE \E c \in Callbacks : SyncDelete(c)
  BY <1>6, SyncDeleteInv
<1>7. CASE \E c \in Callbacks : SyncCommit(c)
  BY <1>7, SyncCommitInv
<1>8. CASE \E c \in Callbacks : OIDCMint(c)
  BY <1>8, OIDCMintInv
<1>9. CASE UNCHANGED oidcVars
  BY <1>9, OIDCAside DEF oidcVars
<1> QED
  BY <1>1, <1>2, <1>3, <1>4, <1>5, <1>6, <1>7, <1>8, <1>9 DEF OIDCNext

\* OIDCInv is an invariant.
THEOREM OIDCInvariant == OIDCSpec => []OIDCInv
BY OIDCInitInv, OIDCNextInv, PTL DEF OIDCSpec

\* A login state opens one session, though its callback arrives twice, and a subject of the
\* provider opens one account for good, though first logins overlap and addresses move.
THEOREM LoginsOpenOnce == OIDCSpec => []LoginOpensOnce
<1>1. OIDCInv => LoginOpensOnce
  BY DEF OIDCInv, LoginOpensOnce, LinksHold, SubjectOpensOneAccount
<1> QED
  BY <1>1, OIDCInvariant, PTL

\* A replacement that no other one overlapped leaves the account with the groups of its claim.
THEOREM MembershipIsTheClaim == OIDCSpec => MembershipFollowsTheClaim
<1>1. ASSUME OIDCInv, OIDCNext, NEW c \in Callbacks, At(c, "commit"), callback'[c].pc = "mint"
      PROVE  callback[c].user \in overlapped \/ membership'[callback[c].user] = callback[c].claims.groups
  <2>0. callback = [d \in Callbacks |-> callback[d]] /\ callback[c].pc = "commit"
    BY <1>1 DEF OIDCInv, OIDCTyped, At
  <2>1. SyncCommit(c)
    <3>1. ASSUME NEW d \in Callbacks, d # c, NEW q, callback' = [callback EXCEPT ![d] = q] PROVE FALSE
      BY <1>1, <2>0, <3>1
    <3>2. callback' # callback
      BY <1>1, <2>0
    <3>3. ASSUME NEW d \in Callbacks,
                 \/ \E x \in loginStates, s \in Subjects : OIDCCallback(d, x, s)
                 \/ ReadProvider(d) \/ VerifyOIDCCallback(d) \/ ResolveOIDCLogin(d) \/ CreateLink(d)
                 \/ SyncDelete(d) \/ OIDCMint(d) \/ SyncCommit(d)
          PROVE  d = c
      <4>1. \E q : callback' = [callback EXCEPT ![d] = q]
        <5>1. CASE \E x \in loginStates, s \in Subjects : OIDCCallback(d, x, s)
          BY <5>1 DEF OIDCCallback
        <5>2. CASE ReadProvider(d) \/ VerifyOIDCCallback(d) \/ ResolveOIDCLogin(d)
          BY <5>2 DEF ReadProvider, VerifyOIDCCallback, ResolveOIDCLogin
        <5>3. CASE CreateLink(d)
          BY <5>3, <2>0 DEF CreateLink, Done
        <5>4. CASE SyncDelete(d)
          BY <5>4, <2>0 DEF SyncDelete
        <5>5. CASE SyncCommit(d)
          BY <5>5, <2>0 DEF SyncCommit
        <5>6. CASE OIDCMint(d)
          BY <5>6 DEF OIDCMint, Done
        <5> QED
          BY <3>3, <5>1, <5>2, <5>3, <5>4, <5>5, <5>6
      <4> QED
        BY <3>1, <4>1
    <3>4. ~(\E x \in loginStates, s \in Subjects : OIDCCallback(c, x, s))
      BY <2>0 DEF OIDCCallback, At
    <3>5. ~(ReadProvider(c) \/ VerifyOIDCCallback(c) \/ ResolveOIDCLogin(c) \/ CreateLink(c) \/ SyncDelete(c) \/ OIDCMint(c))
      BY <2>0 DEF ReadProvider, VerifyOIDCCallback, ResolveOIDCLogin, CreateLink, SyncDelete, OIDCMint, At
    <3>6. ~(\/ \E g \in BOOLEAN : SetOIDCProvider(g)
            \/ DeleteOIDCProvider \/ InvalidateOIDCVerifier \/ StartOIDCLogin
            \/ \E x \in loginStates : StateExpires(x)
            \/ \E s, t \in Subjects : IdPMovesEmail(s, t)
            \/ \E s \in Subjects : IdPDropsEmail(s)
            \/ \E s \in Subjects, groups \in SUBSET OIDCGroups, known \in BOOLEAN : IdPChangesGroups(s, groups, known)
            \/ \E u \in OIDCUsers : DisableAccount(u))
      BY <3>2 DEF SetOIDCProvider, DeleteOIDCProvider, InvalidateOIDCVerifier, StartOIDCLogin, StateExpires,
                  IdPMovesEmail, IdPDropsEmail, IdPChangesGroups, DisableAccount
    <3> QED
      BY <1>1, <3>3, <3>4, <3>5, <3>6 DEF OIDCNext
  <2> QED
    BY <1>1, <2>1, CommitFollows
<1>2. OIDCInv /\ [OIDCNext]_oidcVars =>
      [\A c \in Callbacks : At(c, "commit") /\ callback'[c].pc = "mint" =>
           \/ callback[c].user \in overlapped
           \/ membership'[callback[c].user] = callback[c].claims.groups]_oidcVars
  BY <1>1
<1> QED
  BY <1>2, OIDCInvariant, PTL DEF OIDCSpec, MembershipFollowsTheClaim

-----------------------------------------------------------------------------
(* Passkeys: the inductive invariant.                                      *)

\* The records, as far as the argument needs them: labels, locks and the discoverable mark
\* are left as they are.
CeremonyShape(q) ==
    q \in [pc : {"idle", "load", "insert", "record", "reset", "mint"},
           kind : {"none", "register", "login", "login_discoverable"},
           user : Members \cup {Nobody}, handle : Members \cup {Nobody},
           key : Authenticators \cup {Nobody}, n : Nat, challenge : Nat, name : {q.name}, locked : {q.locked}]
CredentialShape(q) ==
    q \in [owner : Members \cup {Nobody}, count : Nat, name : {q.name}, discoverable : {q.discoverable}]
Challenges == [id : Nat, purpose : {"register", "login", "login_discoverable"}, user : Members \cup {Nobody}]

Busy(c) == ceremony[c].pc # "idle"
Registering(c) == ceremony[c].pc \in {"load", "insert"} /\ ceremony[c].kind = "register"
Accepted(c) == ceremony[c].pc \in {"reset", "mint"}

PasskeyTyped ==
    /\ ceremony = [c \in PasskeyCalls |-> ceremony[c]] /\ \A c \in PasskeyCalls : CeremonyShape(ceremony[c])
    /\ credentials = [k \in Authenticators |-> credentials[k]] /\ \A k \in Authenticators : CredentialShape(credentials[k])
    /\ device \in [Authenticators -> [holder : Members \cup {Nobody}, count : Nat]]
    /\ challenges \subseteq Challenges /\ issued \in Nat
    /\ opened \subseteq [user : Members, key : Authenticators, n : Nat, challenge : Nat]

\* A challenge is in one place: stored, with one ceremony, or spent by one session.
ChallengesOnce ==
    /\ \A a \in challenges : a.id <= issued
    /\ \A a, b \in challenges : a.id = b.id => a = b
    /\ \A c \in PasskeyCalls : Busy(c) => ceremony[c].challenge <= issued /\ \A a \in challenges : a.id # ceremony[c].challenge
    /\ \A c, d \in PasskeyCalls : c # d /\ Busy(c) /\ Busy(d) => ceremony[c].challenge # ceremony[d].challenge
    /\ \A p \in opened : p.challenge <= issued /\ \A a \in challenges : a.id # p.challenge
    /\ \A p \in opened, c \in PasskeyCalls : Busy(c) => ceremony[c].challenge # p.challenge

\* A stored passkey belongs to the holder of its authenticator, and so does what it opens.
OwnersHold ==
    /\ \A k \in Authenticators : credentials[k].owner # Nobody => credentials[k].owner = device[k].holder
    /\ \A c \in PasskeyCalls : Registering(c) \/ ceremony[c].pc \in {"record", "reset", "mint"} =>
         ceremony[c].user \in Members /\ ceremony[c].key \in Authenticators /\ device[ceremony[c].key].holder = ceremony[c].user
    /\ \A c \in PasskeyCalls : /\ Busy(c) => ceremony[c].key \in Authenticators
                               /\ ceremony[c].pc = "insert" => ceremony[c].kind = "register"
    /\ PasskeyOpensItsOwner

\* A key being registered has no stored passkey and is registered by one ceremony, now or
\* ever: no assertion of it was accepted.
RegisteredOnce ==
    \A c \in PasskeyCalls : Registering(c) =>
        /\ credentials[ceremony[c].key].owner = Nobody
        /\ \A d \in PasskeyCalls : d # c /\ Registering(d) => ceremony[d].key # ceremony[c].key
        /\ \A d \in PasskeyCalls : Accepted(d) => ceremony[d].key # ceremony[c].key
        /\ \A p \in opened : p.key # ceremony[c].key

\* An accepted count is not above the stored one, and no count but 0 was accepted twice.
CountersOnce ==
    /\ \A c \in PasskeyCalls : Accepted(c) /\ credentials[ceremony[c].key].owner # Nobody =>
         ceremony[c].n <= credentials[ceremony[c].key].count
    /\ \A p \in opened : credentials[p.key].owner # Nobody => p.n <= credentials[p.key].count
    /\ \A c, d \in PasskeyCalls : c # d /\ Accepted(c) /\ Accepted(d) /\ ceremony[c].key = ceremony[d].key /\ ceremony[c].n # 0 =>
         ceremony[c].n # ceremony[d].n
    /\ \A p \in opened, c \in PasskeyCalls : Accepted(c) /\ p.key = ceremony[c].key /\ p.n # 0 => p.n # ceremony[c].n

PasskeyInv == PasskeyTyped /\ ChallengesOnce /\ OwnersHold /\ RegisteredOnce /\ CountersOnce /\ ~reopened

-----------------------------------------------------------------------------
(* Passkeys: the steps.                                                    *)

\* The record of a ceremony that is not running.
LEMMA IdleCeremonyFits == CeremonyShape(IdleCeremony) /\ IdleCeremony.pc = "idle"
BY DEF CeremonyShape, IdleCeremony

\* PasskeyInv holds at first.
LEMMA PasskeyInitInv == PasskeyInit => PasskeyInv
<1> SUFFICES ASSUME PasskeyInit PROVE PasskeyInv
  OBVIOUS
<1>1. /\ ceremony = [c \in PasskeyCalls |-> IdleCeremony] /\ credentials = [k \in Authenticators |-> NoCredential]
      /\ device = [k \in Authenticators |-> [holder |-> Nobody, count |-> 0]] /\ challenges = {} /\ issued = 0 /\ opened = {}
      /\ reopened = FALSE
  BY DEF PasskeyInit
<1>2. \A c \in PasskeyCalls : ceremony[c].pc = "idle"
  BY <1>1, IdleCeremonyFits
<1>3. PasskeyTyped
  <2>1. CredentialShape(NoCredential)
    BY DEF CredentialShape, NoCredential
  <2> QED
    BY <1>1, <2>1, IdleCeremonyFits DEF PasskeyTyped
<1>4. ChallengesOnce /\ RegisteredOnce /\ CountersOnce
  BY <1>1, <1>2 DEF ChallengesOnce, RegisteredOnce, CountersOnce, Busy, Registering, Accepted
<1>5. OwnersHold
  BY <1>1, <1>2 DEF OwnersHold, Busy, Registering, NoCredential, PasskeyOpensItsOwner
<1> QED
  BY <1>1, <1>3, <1>4, <1>5 DEF PasskeyInv

\* A ceremony that goes on with its challenge, or ends, leaves every challenge in its place.
LEMMA CeremonyMoves ==
    ASSUME PasskeyInv, NEW c \in PasskeyCalls, NEW q, ceremony' = [ceremony EXCEPT ![c] = q], CeremonyShape(q)
    PROVE  /\ ceremony' = [d \in PasskeyCalls |-> ceremony'[d]] /\ \A d \in PasskeyCalls : CeremonyShape(ceremony'[d])
           /\ ceremony'[c] = q /\ \A d \in PasskeyCalls \ {c} : ceremony'[d] = ceremony[d]
           /\ UNCHANGED <<challenges, issued, opened>> /\ (q.pc = "idle" \/ (q.challenge = ceremony[c].challenge /\ Busy(c)))
                => ChallengesOnce'
<1> USE DEF PasskeyInv
<1>1. ceremony = [d \in PasskeyCalls |-> ceremony[d]] /\ \A d \in PasskeyCalls : CeremonyShape(ceremony[d])
  BY DEF PasskeyTyped
<1>2. ceremony'[c] = q /\ \A d \in PasskeyCalls \ {c} : ceremony'[d] = ceremony[d]
  BY <1>1
<1>3. ceremony' = [d \in PasskeyCalls |-> ceremony'[d]]
  BY <1>1
<1>4. \A d \in PasskeyCalls : CeremonyShape(ceremony'[d])
  BY <1>1, <1>2
<1>5. ASSUME UNCHANGED <<challenges, issued, opened>>, q.pc = "idle" \/ (q.challenge = ceremony[c].challenge /\ Busy(c))
      PROVE  ChallengesOnce'
  <2>1. \A d \in PasskeyCalls : Busy(d)' => Busy(d) /\ ceremony'[d].challenge = ceremony[d].challenge
    BY <1>2, <1>5 DEF Busy
  <2> QED
    BY <1>5, <2>1 DEF ChallengesOnce
<1> QED
  BY <1>2, <1>3, <1>4, <1>5

\* A ceremony that ends has nothing pending any more.
LEMMA CeremonyEnds ==
    ASSUME PasskeyInv, NEW c \in PasskeyCalls, Over(c), UNCHANGED <<challenges, issued, credentials, device, opened, reopened>>
    PROVE  PasskeyInv'
<1> USE DEF PasskeyInv
<1>1. /\ ceremony' = [d \in PasskeyCalls |-> ceremony'[d]] /\ \A d \in PasskeyCalls : CeremonyShape(ceremony'[d])
      /\ ceremony'[c] = IdleCeremony /\ (\A d \in PasskeyCalls \ {c} : ceremony'[d] = ceremony[d]) /\ ChallengesOnce'
  BY IdleCeremonyFits, CeremonyMoves DEF Over
<1>2. \A d \in PasskeyCalls : ceremony'[d].pc # "idle" => d # c /\ ceremony'[d] = ceremony[d]
  BY <1>1, IdleCeremonyFits
<1>3. PasskeyTyped'
  BY <1>1 DEF PasskeyTyped
<1>4. OwnersHold'
  BY <1>2 DEF OwnersHold, Busy, Registering, PasskeyOpensItsOwner
<1>5. RegisteredOnce'
  BY <1>2 DEF RegisteredOnce, Registering, Accepted
<1>6. CountersOnce'
  BY <1>2 DEF CountersOnce, Accepted
<1> QED
  BY <1>1, <1>3, <1>4, <1>5, <1>6

\* Steps that leave the ceremonies, the passkeys and the authenticators alone.
LEMMA PasskeyAside ==
    ASSUME PasskeyInv, UNCHANGED <<ceremony, device, opened, reopened>>
    PROVE  /\ UNCHANGED credentials /\ PasskeyTyped' /\ ChallengesOnce' => PasskeyInv'
           /\ UNCHANGED <<credentials, challenges, issued>> => PasskeyInv'
<1> USE DEF PasskeyInv
<1>1. ASSUME UNCHANGED credentials PROVE OwnersHold' /\ RegisteredOnce' /\ CountersOnce'
  <2>1. OwnersHold'
    BY <1>1 DEF OwnersHold, Busy, Registering, PasskeyOpensItsOwner
  <2>2. RegisteredOnce'
    BY <1>1 DEF RegisteredOnce, Registering, Accepted
  <2>3. CountersOnce'
    BY <1>1 DEF CountersOnce, Accepted
  <2> QED
    BY <2>1, <2>2, <2>3
<1>2. ASSUME UNCHANGED <<credentials, challenges, issued>> PROVE PasskeyTyped' /\ ChallengesOnce'
  <2>1. PasskeyTyped'
    BY <1>2 DEF PasskeyTyped
  <2>2. ChallengesOnce'
    BY <1>2 DEF ChallengesOnce, Busy
  <2> QED
    BY <2>1, <2>2
<1> QED
  BY <1>1, <1>2

\* A new challenge, and one that expires.
LEMMA ChallengeInv ==
    ASSUME PasskeyInv, UNCHANGED <<credentials, ceremony, device, opened, reopened>>
    PROVE  /\ \A purpose \in {"register", "login", "login_discoverable"}, u \in Members \cup {Nobody} :
                InsertChallenge(purpose, u) => PasskeyInv'
           /\ challenges' \subseteq challenges /\ UNCHANGED issued => PasskeyInv'
<1> USE DEF PasskeyInv
<1>0. /\ issued \in Nat /\ challenges \subseteq Challenges /\ \A c \in PasskeyCalls : ceremony[c].challenge \in Nat
      /\ \A p \in opened : p.challenge \in Nat
  BY DEF PasskeyTyped, CeremonyShape
<1>1. ASSUME NEW purpose \in {"register", "login", "login_discoverable"}, NEW u \in Members \cup {Nobody}, InsertChallenge(purpose, u)
      PROVE  PasskeyInv'
  <2> DEFINE new == [id |-> issued + 1, purpose |-> purpose, user |-> u]
  <2>1. issued' = issued + 1 /\ challenges' = challenges \cup {new}
    BY <1>1 DEF InsertChallenge
  <2>2. new \in Challenges /\ new.id = issued + 1
    BY <1>0 DEF Challenges
  <2> HIDE DEF new
  <2>3. PasskeyTyped'
    BY <1>0, <2>1, <2>2 DEF PasskeyTyped
  <2>4. \A a \in challenges : a.id \in Nat /\ a.id <= issued
    BY <1>0 DEF Challenges, ChallengesOnce
  <2>5. ChallengesOnce'
    <3>1. (\A a \in challenges' : a.id <= issued') /\ \A a, b \in challenges' : a.id = b.id => a = b
      BY <1>0, <2>1, <2>2, <2>4 DEF ChallengesOnce
    <3>2. \A c \in PasskeyCalls : Busy(c)' => ceremony'[c].challenge <= issued' /\ \A a \in challenges' : a.id # ceremony'[c].challenge
      BY <1>0, <2>1, <2>2 DEF ChallengesOnce, Busy
    <3>3. \A p \in opened' : p.challenge <= issued' /\ \A a \in challenges' : a.id # p.challenge
      BY <1>0, <2>1, <2>2 DEF ChallengesOnce
    <3> QED
      BY <3>1, <3>2, <3>3 DEF ChallengesOnce, Busy
  <2> QED
    BY <2>3, <2>5, PasskeyAside
<1>2. ASSUME challenges' \subseteq challenges, UNCHANGED issued PROVE PasskeyInv'
  <2>1. PasskeyTyped'
    BY <1>2 DEF PasskeyTyped
  <2>2. ChallengesOnce'
    BY <1>2 DEF ChallengesOnce, Busy
  <2> QED
    BY <2>1, <2>2, PasskeyAside
<1> QED
  BY <1>1, <1>2

\* The steps that begin a ceremony, and those around it.
LEMMA AroundPasskeyInv ==
    ASSUME PasskeyInv
    PROVE  /\ \A u \in Members : BeginRegistration(u) \/ BeginLogin(u) => PasskeyInv'
           /\ BeginDiscoverableLogin => PasskeyInv'
           /\ \A u \in Members : DisableMember(u) \/ LockMember(u) => PasskeyInv'
           /\ \A a \in challenges : ExpireChallenge(a) => PasskeyInv'
           /\ \A c \in PasskeyCalls : CeremonyDies(c) => PasskeyInv'
<1>1. ASSUME NEW u \in Members, BeginRegistration(u) PROVE PasskeyInv'
  BY <1>1, ChallengeInv DEF BeginRegistration
<1>2. ASSUME NEW u \in Members, BeginLogin(u) PROVE PasskeyInv'
  <2>1. PICK x \in Members \cup {Nobody} : InsertChallenge("login", x)
    BY <1>2 DEF BeginLogin
  <2> QED
    BY <1>2, <2>1, ChallengeInv DEF BeginLogin
<1>3. ASSUME BeginDiscoverableLogin PROVE PasskeyInv'
  BY <1>3, ChallengeInv DEF BeginDiscoverableLogin
<1>4. ASSUME NEW u \in Members, DisableMember(u) \/ LockMember(u) PROVE PasskeyInv'
  BY <1>4, PasskeyAside DEF DisableMember, LockMember
<1>5. ASSUME NEW a \in challenges, ExpireChallenge(a) PROVE PasskeyInv'
  BY <1>5, ChallengeInv DEF ExpireChallenge
<1>6. ASSUME NEW c \in PasskeyCalls, CeremonyDies(c) PROVE PasskeyInv'
  BY <1>6, CeremonyEnds DEF CeremonyDies
<1> QED
  BY <1>1, <1>2, <1>3, <1>4, <1>5, <1>6

\* The ceremony that deletes the challenge row has the challenge, and nobody else does.
LEMMA ClaimedOnce ==
    ASSUME PasskeyInv, NEW c \in PasskeyCalls, NEW q, NEW a \in challenges, ~Busy(c), ClaimChallenge(a),
           CeremonyShape(q), q.challenge = a.id, q.pc # "idle",
           ceremony' = [ceremony EXCEPT ![c] = q], UNCHANGED <<issued, opened>>
    PROVE  ChallengesOnce'
<1> USE DEF PasskeyInv
<1>1. ceremony'[c] = q /\ \A d \in PasskeyCalls \ {c} : ceremony'[d] = ceremony[d]
  BY CeremonyMoves
<1>2. challenges' = challenges \ {a} /\ ~Busy(c) /\ Busy(c)' /\ ceremony'[c].challenge = a.id
  BY <1>1 DEF ClaimChallenge, Busy
<1>3. \A d \in PasskeyCalls \ {c} : (Busy(d)' <=> Busy(d)) /\ ceremony'[d].challenge = ceremony[d].challenge
  BY <1>1 DEF Busy
<1>4. \A b \in challenges' : b \in challenges /\ b.id # a.id
  BY <1>2 DEF ChallengesOnce
<1>5. /\ \A b \in challenges' : b.id <= issued'
      /\ \A x, y \in challenges' : x.id = y.id => x = y
  BY <1>4 DEF ChallengesOnce
<1>6. \A d \in PasskeyCalls : Busy(d)' => ceremony'[d].challenge <= issued' /\ \A b \in challenges' : b.id # ceremony'[d].challenge
  BY <1>2, <1>3, <1>4 DEF ChallengesOnce
<1>7. \A d, e \in PasskeyCalls : d # e /\ Busy(d)' /\ Busy(e)' => ceremony'[d].challenge # ceremony'[e].challenge
  BY <1>2, <1>3 DEF ChallengesOnce
<1>8. \A p \in opened' : p.challenge <= issued' /\ \A b \in challenges' : b.id # p.challenge
  BY <1>4 DEF ChallengesOnce
<1>9. \A p \in opened', d \in PasskeyCalls : Busy(d)' => ceremony'[d].challenge # p.challenge
  BY <1>2, <1>3 DEF ChallengesOnce
<1> QED
  BY <1>5, <1>6, <1>7, <1>8, <1>9 DEF ChallengesOnce

\* The end of a registration claims a key that nobody holds yet.
LEMMA FinishRegistrationInv ==
    ASSUME PasskeyInv, NEW c \in PasskeyCalls, NEW u \in Members, NEW a \in challenges, NEW k \in Authenticators,
           FinishRegistration(c, u, a, k)
    PROVE  PasskeyInv'
<1> USE DEF PasskeyInv
<1>0. /\ ceremony[c].pc = "idle" /\ device[k].holder = Nobody /\ ClaimChallenge(a)
      /\ UNCHANGED <<issued, credentials, opened, reopened>>
  BY DEF FinishRegistration
<1>1. CASE a.user # u
  <2>1. UNCHANGED <<ceremony, device>> /\ challenges' \subseteq challenges
    BY <1>0, <1>1 DEF FinishRegistration, ClaimChallenge
  <2> QED
    BY <1>0, <2>1, ChallengeInv
<1>2. CASE a.user = u
  <2> DEFINE q == [IdleCeremony EXCEPT !.pc = "load", !.kind = "register", !.user = u, !.key = k, !.challenge = a.id]
  <2>1. ceremony' = [ceremony EXCEPT ![c] = q] /\ device' = [device EXCEPT ![k].holder = u]
    BY <1>2 DEF FinishRegistration
  <2>2. q.pc = "load" /\ q.kind = "register" /\ q.user = u /\ q.key = k /\ q.challenge = a.id
    BY DEF IdleCeremony
  <2>3. a.id \in Nat /\ device \in [Authenticators -> [holder : Members \cup {Nobody}, count : Nat]]
    BY DEF PasskeyTyped, Challenges
  <2>4. CeremonyShape(q)
    BY <2>3 DEF CeremonyShape, IdleCeremony
  <2> HIDE DEF q
  <2>5. /\ ceremony' = [d \in PasskeyCalls |-> ceremony'[d]] /\ \A d \in PasskeyCalls : CeremonyShape(ceremony'[d])
        /\ ceremony'[c] = q /\ \A d \in PasskeyCalls \ {c} : ceremony'[d] = ceremony[d]
    BY <2>1, <2>4, CeremonyMoves
  <2>6. ChallengesOnce'
    BY <1>0, <2>1, <2>2, <2>4, ClaimedOnce DEF Busy
  <2>7. /\ device' \in [Authenticators -> [holder : Members \cup {Nobody}, count : Nat]] /\ device'[k].holder = u
        /\ \A j \in Authenticators : j # k => device'[j].holder = device[j].holder
    BY <2>1, <2>3
  <2>8. PasskeyTyped'
    BY <1>0, <2>5, <2>7 DEF PasskeyTyped, ClaimChallenge
  <2>9. Nobody \notin Members
    BY PasskeyAssumption DEF Nobody
  <2>10. /\ credentials[k].owner = Nobody
         /\ \A d \in PasskeyCalls : Registering(d) \/ ceremony[d].pc \in {"record", "reset", "mint"} => ceremony[d].key # k
         /\ \A p \in opened : p.key # k /\ p.key \in Authenticators
    BY <1>0, <2>9 DEF OwnersHold, PasskeyOpensItsOwner, PasskeyTyped
  <2>11. \A d \in PasskeyCalls : d # c => ceremony'[d] = ceremony[d]
    BY <2>5
  <2>12. OwnersHold'
    <3>1. \A j \in Authenticators : credentials'[j].owner # Nobody => credentials'[j].owner = device'[j].holder
      BY <1>0, <2>7, <2>10 DEF OwnersHold
    <3>2. ASSUME NEW d \in PasskeyCalls, Registering(d)' \/ ceremony'[d].pc \in {"record", "reset", "mint"}
          PROVE  ceremony'[d].user \in Members /\ ceremony'[d].key \in Authenticators /\ device'[ceremony'[d].key].holder = ceremony'[d].user
      <4>1. CASE d = c
        BY <4>1, <2>2, <2>5, <2>7
      <4>2. CASE d # c
        <5>1. ceremony'[d] = ceremony[d] /\ (Registering(d) \/ ceremony[d].pc \in {"record", "reset", "mint"})
          BY <3>2, <4>2, <2>11 DEF Registering
        <5> QED
          BY <5>1, <2>7, <2>10 DEF OwnersHold
      <4> QED
        BY <4>1, <4>2
    <3>3. \A d \in PasskeyCalls : /\ Busy(d)' => ceremony'[d].key \in Authenticators
                                  /\ ceremony'[d].pc = "insert" => ceremony'[d].kind = "register"
      BY <2>2, <2>5, <2>11 DEF OwnersHold, Busy
    <3>4. PasskeyOpensItsOwner'
      BY <1>0, <2>7, <2>10 DEF OwnersHold, PasskeyOpensItsOwner
    <3> QED
      BY <3>1, <3>2, <3>3, <3>4 DEF OwnersHold
  <2>13. \A d \in PasskeyCalls : Accepted(d)' => Accepted(d) /\ ceremony'[d] = ceremony[d]
    BY <2>2, <2>5 DEF Accepted
  <2>14. \A d \in PasskeyCalls : Registering(d)' => (d = c /\ ceremony'[d].key = k) \/ (d # c /\ Registering(d) /\ ceremony'[d] = ceremony[d])
    BY <2>2, <2>5, <2>11 DEF Registering
  <2>15. \A d \in PasskeyCalls : Accepted(d) => ceremony[d].key # k
    BY <2>10 DEF Accepted
  <2>16. RegisteredOnce'
    BY <1>0, <2>10, <2>13, <2>14, <2>15 DEF RegisteredOnce
  <2>17. CountersOnce'
    BY <1>0, <2>13 DEF CountersOnce
  <2> QED
    BY <1>0, <2>6, <2>8, <2>12, <2>16, <2>17
<1> QED
  BY <1>1, <1>2

\* A ceremony that goes on without touching the passkeys: it registers, or is accepted, only
\* if it did so before, with the same key and count.
LEMMA CeremonyAdvances ==
    ASSUME PasskeyInv, NEW c \in PasskeyCalls, NEW q, ceremony' = [ceremony EXCEPT ![c] = q], CeremonyShape(q),
           q.key \in Authenticators,
           q.pc \in {"load", "insert"} /\ q.kind = "register" => Registering(c) /\ q.key = ceremony[c].key /\ q.user = ceremony[c].user,
           q.pc = "insert" => q.kind = "register",
           q.pc = "record" => q.user \in Members /\ device[q.key].holder = q.user,
           q.pc \in {"reset", "mint"} => Accepted(c) /\ q.key = ceremony[c].key /\ q.user = ceremony[c].user /\ q.n = ceremony[c].n,
           \A k \in Authenticators : device'[k].holder = device[k].holder, UNCHANGED <<credentials, opened>>
    PROVE  OwnersHold' /\ RegisteredOnce' /\ CountersOnce'
<1> USE DEF PasskeyInv
<1>1. ceremony'[c] = q /\ \A d \in PasskeyCalls : d # c => ceremony'[d] = ceremony[d]
  BY CeremonyMoves
<1>2. \A d \in PasskeyCalls : Registering(d)' => Registering(d) /\ ceremony'[d].key = ceremony[d].key /\ ceremony'[d].user = ceremony[d].user
  BY <1>1 DEF Registering
<1>3. \A d \in PasskeyCalls : Accepted(d)' =>
         Accepted(d) /\ ceremony'[d].key = ceremony[d].key /\ ceremony'[d].user = ceremony[d].user /\ ceremony'[d].n = ceremony[d].n
  BY <1>1 DEF Accepted
<1>4. OwnersHold'
  <2>1. \A k \in Authenticators : credentials'[k].owner # Nobody => credentials'[k].owner = device'[k].holder
    BY DEF OwnersHold
  <2>2. ASSUME NEW d \in PasskeyCalls, Registering(d)' \/ ceremony'[d].pc \in {"record", "reset", "mint"}
        PROVE  ceremony'[d].user \in Members /\ ceremony'[d].key \in Authenticators /\ device'[ceremony'[d].key].holder = ceremony'[d].user
    <3>1. CASE Registering(d)' \/ Accepted(d)'
      BY <1>2, <1>3, <3>1 DEF OwnersHold, Accepted
    <3>2. CASE ceremony'[d].pc = "record" /\ d # c
      BY <1>1, <3>2 DEF OwnersHold
    <3>3. CASE ceremony'[d].pc = "record" /\ d = c
      BY <1>1, <3>3
    <3> QED
      BY <2>2, <3>1, <3>2, <3>3 DEF Accepted
  <2>3. \A d \in PasskeyCalls : /\ Busy(d)' => ceremony'[d].key \in Authenticators
                                /\ ceremony'[d].pc = "insert" => ceremony'[d].kind = "register"
    BY <1>1 DEF OwnersHold, Busy
  <2>4. PasskeyOpensItsOwner'
    BY DEF OwnersHold, PasskeyOpensItsOwner, PasskeyTyped
  <2> QED
    BY <2>1, <2>2, <2>3, <2>4 DEF OwnersHold
<1>5. RegisteredOnce'
  BY <1>2, <1>3 DEF RegisteredOnce
<1>6. CountersOnce'
  BY <1>3 DEF CountersOnce
<1> QED
  BY <1>4, <1>5, <1>6

\* The challenge of a sign-in is spent before anything is known of the account.
LEMMA ClaimLoginInv ==
    ASSUME PasskeyInv, NEW c \in PasskeyCalls, NEW a \in challenges, NEW k \in Authenticators, NEW u \in Members,
           NEW n \in Counts(k), ClaimLogin(c, a, k, n, u)
    PROVE  PasskeyInv'
<1> USE DEF PasskeyInv
<1>0. /\ ceremony[c].pc = "idle" /\ ClaimChallenge(a) /\ device' = [device EXCEPT ![k].count = n]
      /\ a.purpose \in {"login", "login_discoverable"} /\ UNCHANGED <<issued, credentials, opened, reopened>>
  BY DEF ClaimLogin
<1>1. a \in Challenges /\ device \in [Authenticators -> [holder : Members \cup {Nobody}, count : Nat]]
  BY DEF PasskeyTyped
<1>2. n \in Nat
  BY <1>1 DEF Counts
<1>3. /\ device' \in [Authenticators -> [holder : Members \cup {Nobody}, count : Nat]]
      /\ \A j \in Authenticators : device'[j].holder = device[j].holder
  BY <1>0, <1>1, <1>2
<1>4. CASE (a.purpose = "login") = (a.user # Nobody)
  <2> DEFINE q == [IdleCeremony EXCEPT !.pc = "load", !.kind = a.purpose, !.user = a.user, !.handle = u, !.key = k, !.n = n,
                     !.challenge = a.id]
  <2>1. ceremony' = [ceremony EXCEPT ![c] = q]
    BY <1>4 DEF ClaimLogin
  <2>2. q.pc = "load" /\ q.kind = a.purpose /\ q.key = k /\ q.challenge = a.id
    BY DEF IdleCeremony
  <2>3. CeremonyShape(q)
    BY <1>1, <1>2 DEF CeremonyShape, IdleCeremony, Challenges
  <2> HIDE DEF q
  <2>4. ChallengesOnce'
    BY <1>0, <2>1, <2>2, <2>3, ClaimedOnce DEF Busy
  <2>5. OwnersHold' /\ RegisteredOnce' /\ CountersOnce'
    BY <1>0, <1>3, <2>1, <2>2, <2>3, CeremonyAdvances
  <2>6. ceremony' = [d \in PasskeyCalls |-> ceremony'[d]] /\ \A d \in PasskeyCalls : CeremonyShape(ceremony'[d])
    BY <2>1, <2>3, CeremonyMoves
  <2>7. PasskeyTyped'
    BY <1>0, <1>3, <2>6 DEF PasskeyTyped, ClaimChallenge
  <2> QED
    BY <1>0, <2>4, <2>5, <2>7
<1>5. CASE ~((a.purpose = "login") = (a.user # Nobody))
  <2>1. ceremony' = ceremony /\ challenges' \subseteq challenges
    BY <1>0, <1>5 DEF ClaimLogin, ClaimChallenge
  <2>2. PasskeyTyped'
    BY <1>0, <1>3, <2>1 DEF PasskeyTyped
  <2>3. ChallengesOnce'
    BY <1>0, <2>1 DEF ChallengesOnce, Busy
  <2>4. OwnersHold'
    <3>1. PasskeyOpensItsOwner'
      BY <1>0, <1>3 DEF OwnersHold, PasskeyOpensItsOwner, PasskeyTyped
    <3> QED
      BY <1>0, <1>3, <2>1, <3>1 DEF OwnersHold, Busy, Registering
  <2>5. RegisteredOnce'
    BY <1>0, <2>1 DEF RegisteredOnce, Registering, Accepted
  <2>6. CountersOnce'
    BY <1>0, <2>1 DEF CountersOnce, Accepted
  <2> QED
    BY <1>0, <2>2, <2>3, <2>4, <2>5, <2>6
<1> QED
  BY <1>4, <1>5

\* The reads of both ceremonies, and the reset of the failures.
LEMMA LoadInv ==
    ASSUME PasskeyInv, NEW c \in PasskeyCalls
    PROVE  /\ LoadRegistration(c) => PasskeyInv'
           /\ LoadLogin(c) => PasskeyInv'
           /\ ResetLogin(c) => PasskeyInv'
<1> USE DEF PasskeyInv
<1>0. CeremonyShape(ceremony[c]) /\ ceremony = [d \in PasskeyCalls |-> ceremony[d]]
  BY DEF PasskeyTyped
<1>1. ASSUME NEW q, ceremony' = [ceremony EXCEPT ![c] = q], CeremonyShape(q), q.challenge = ceremony[c].challenge, Busy(c),
             q.key \in Authenticators,
             q.pc \in {"load", "insert"} /\ q.kind = "register" => Registering(c) /\ q.key = ceremony[c].key /\ q.user = ceremony[c].user,
             q.pc = "insert" => q.kind = "register",
             q.pc = "record" => q.user \in Members /\ device[q.key].holder = q.user,
             q.pc \in {"reset", "mint"} => Accepted(c) /\ q.key = ceremony[c].key /\ q.user = ceremony[c].user /\ q.n = ceremony[c].n,
             UNCHANGED <<challenges, issued, credentials, device, opened, reopened>>
      PROVE  PasskeyInv'
  <2>1. OwnersHold' /\ RegisteredOnce' /\ CountersOnce'
    <3>1. \A k \in Authenticators : device'[k].holder = device[k].holder
      BY <1>1
    <3> QED
      BY <1>1, <3>1, CeremonyAdvances
  <2>2. /\ ceremony' = [d \in PasskeyCalls |-> ceremony'[d]] /\ (\A d \in PasskeyCalls : CeremonyShape(ceremony'[d]))
        /\ ChallengesOnce'
    BY <1>1, CeremonyMoves
  <2>3. PasskeyTyped'
    BY <1>1, <2>2 DEF PasskeyTyped
  <2> QED
    BY <1>1, <2>1, <2>2, <2>3
<1>2. ASSUME LoadRegistration(c) PROVE PasskeyInv'
  <2> DEFINE x == UniqueNickname({credentials[k].name : k \in ListCredentials(ceremony[c].user)})
             q == [ceremony[c] EXCEPT !.pc = "insert", !.name = x]
  <2>1. /\ ceremony[c].pc = "load" /\ ceremony[c].kind = "register" /\ ceremony' = [ceremony EXCEPT ![c] = q]
        /\ UNCHANGED <<challenges, issued, credentials, device, opened, reopened>>
    BY <1>0, <1>2 DEF LoadRegistration
  <2> HIDE DEF x
  <2>2. /\ q.pc = "insert" /\ q.kind = ceremony[c].kind /\ q.key = ceremony[c].key /\ q.user = ceremony[c].user
        /\ q.challenge = ceremony[c].challenge
    BY <1>0 DEF CeremonyShape
  <2>3. CeremonyShape(q)
    BY <1>0 DEF CeremonyShape
  <2>4. Busy(c) /\ Registering(c) /\ ceremony[c].key \in Authenticators
    BY <2>1 DEF OwnersHold, Registering, Busy
  <2> HIDE DEF q
  <2> QED
    BY <1>1, <2>1, <2>2, <2>3, <2>4
<1>3. ASSUME LoadLogin(c) PROVE PasskeyInv'
  <2> DEFINE u == Account(c)
             q == [ceremony[c] EXCEPT !.pc = "record", !.user = u, !.locked = member[u].locked]
             ok == u \in Members /\ ~member[u].disabled /\ ValidateLogin(c, u)
  <2>1. /\ ceremony[c].pc = "load" /\ UNCHANGED <<challenges, issued, credentials, device, opened, reopened>>
        /\ IF ok THEN ceremony' = [ceremony EXCEPT ![c].pc = "record", ![c].user = u, ![c].locked = member[u].locked] ELSE Over(c)
    BY <1>3 DEF LoadLogin
  <2>2. CASE ~ok
    BY <2>1, <2>2, CeremonyEnds
  <2>3. CASE ok
    <3>1. ceremony' = [ceremony EXCEPT ![c] = q]
      BY <1>0, <2>1, <2>3
    <3>2. u \in Members /\ credentials[ceremony[c].key].owner = u
      BY <2>3 DEF ValidateLogin
    <3> HIDE DEF u, ok
    <3>3. q.pc = "record" /\ q.key = ceremony[c].key /\ q.user = u /\ q.challenge = ceremony[c].challenge
      BY <1>0 DEF CeremonyShape
    <3>4. CeremonyShape(q)
      BY <1>0, <3>2 DEF CeremonyShape
    <3>a. u # Nobody
      BY <3>2, PasskeyAssumption DEF Nobody
    <3>b. Busy(c) /\ ceremony[c].key \in Authenticators
      <4>1. Busy(c)
        BY <2>1 DEF Busy
      <4> QED
        BY <4>1 DEF OwnersHold
    <3>5. Busy(c) /\ ceremony[c].key \in Authenticators /\ u # Nobody
      BY <3>a, <3>b
    <3>6. device[ceremony[c].key].holder = u
      BY <3>2, <3>5 DEF OwnersHold
    <3> HIDE DEF q
    <3> QED
      BY <1>1, <2>1, <3>1, <3>2, <3>3, <3>4, <3>5, <3>6
  <2> QED
    BY <2>2, <2>3
<1>4. ASSUME ResetLogin(c) PROVE PasskeyInv'
  <2> DEFINE q == [ceremony[c] EXCEPT !.pc = "mint"]
  <2>1. /\ ceremony[c].pc = "reset" /\ ceremony' = [ceremony EXCEPT ![c] = q]
        /\ UNCHANGED <<challenges, issued, credentials, device, opened, reopened>>
    BY <1>0, <1>4 DEF ResetLogin, Step
  <2>2. q.pc = "mint" /\ q.key = ceremony[c].key /\ q.user = ceremony[c].user /\ q.n = ceremony[c].n /\ q.challenge = ceremony[c].challenge
    BY <1>0 DEF CeremonyShape
  <2>3. CeremonyShape(q)
    BY <1>0 DEF CeremonyShape
  <2>4. Busy(c) /\ Accepted(c) /\ ceremony[c].key \in Authenticators
    BY <2>1 DEF OwnersHold, Accepted, Busy
  <2> HIDE DEF q
  <2> QED
    BY <1>1, <2>1, <2>2, <2>3, <2>4
<1> QED
  BY <1>2, <1>3, <1>4

\* A passkey that is renamed, or removed, for good.
LEMMA CredentialInv ==
    ASSUME PasskeyInv, NEW k \in Authenticators, NEW q, CredentialShape(q), credentials' = [credentials EXCEPT ![k] = q],
           q.owner = Nobody \/ (q.owner = credentials[k].owner /\ q.count = credentials[k].count),
           UNCHANGED <<ceremony, challenges, issued, device, opened, reopened>>
    PROVE  PasskeyInv'
<1> USE DEF PasskeyInv
<1>0. credentials = [j \in Authenticators |-> credentials[j]] /\ \A j \in Authenticators : CredentialShape(credentials[j])
  BY DEF PasskeyTyped
<1>1. credentials'[k] = q /\ \A j \in Authenticators : j # k => credentials'[j] = credentials[j]
  BY <1>0
<1>2. \A j \in Authenticators : credentials'[j].owner = Nobody \/
         (credentials'[j].owner = credentials[j].owner /\ credentials'[j].count = credentials[j].count)
  BY <1>1
<1>3. PasskeyTyped'
  <2>1. credentials' = [j \in Authenticators |-> credentials'[j]]
    BY <1>0
  <2>2. \A j \in Authenticators : CredentialShape(credentials'[j])
    BY <1>0, <1>1
  <2> QED
    BY <2>1, <2>2 DEF PasskeyTyped
<1>4. ChallengesOnce'
  BY DEF ChallengesOnce, Busy
<1>5. OwnersHold'
  BY <1>2 DEF OwnersHold, Busy, Registering, PasskeyOpensItsOwner
<1>6. RegisteredOnce'
  <2>1. \A c \in PasskeyCalls : Registering(c) => ceremony[c].key \in Authenticators
    BY DEF OwnersHold
  <2> QED
    BY <1>2, <2>1 DEF RegisteredOnce, Registering, Accepted
<1>7. CountersOnce'
  <2>1. \A c \in PasskeyCalls : Accepted(c) => ceremony[c].key \in Authenticators
    BY DEF OwnersHold, Accepted
  <2>2. \A p \in opened : p.key \in Authenticators
    BY DEF PasskeyTyped
  <2> QED
    BY <1>2, <2>1, <2>2 DEF CountersOnce, Accepted
<1> QED
  BY <1>3, <1>4, <1>5, <1>6, <1>7

\* Renaming and deleting one's own passkey.
LEMMA RenameInv ==
    ASSUME PasskeyInv, NEW u \in Members, NEW k \in Authenticators
    PROVE  /\ \A name : RenameCredential(u, k, name) => PasskeyInv'
           /\ DeleteCredential(u, k) => PasskeyInv'
<1>0. credentials = [j \in Authenticators |-> credentials[j]] /\ CredentialShape(credentials[k])
  BY DEF PasskeyInv, PasskeyTyped
<1>1. ASSUME NEW name, RenameCredential(u, k, name) PROVE PasskeyInv'
  <2> DEFINE q == [credentials[k] EXCEPT !.name = name]
  <2>1. credentials' = [credentials EXCEPT ![k] = q] /\ UNCHANGED <<ceremony, challenges, issued, device, opened, reopened>>
    BY <1>0, <1>1 DEF RenameCredential
  <2>2. CredentialShape(q) /\ q.owner = credentials[k].owner /\ q.count = credentials[k].count
    BY <1>0 DEF CredentialShape
  <2> HIDE DEF q
  <2> QED
    BY <2>1, <2>2, CredentialInv
<1>2. ASSUME DeleteCredential(u, k) PROVE PasskeyInv'
  <2>1. credentials' = [credentials EXCEPT ![k] = NoCredential] /\ UNCHANGED <<ceremony, challenges, issued, device, opened, reopened>>
    BY <1>2 DEF DeleteCredential
  <2>2. CredentialShape(NoCredential) /\ NoCredential.owner = Nobody
    BY DEF CredentialShape, NoCredential
  <2> QED
    BY <2>1, <2>2, CredentialInv
<1> QED
  BY <1>1, <1>2

\* The passkey is stored under the account that the challenge was issued to.
LEMMA SaveCredentialInv == ASSUME PasskeyInv, NEW c \in PasskeyCalls, SaveCredential(c) PROVE PasskeyInv'
<1> USE DEF PasskeyInv
<1>1. CASE ~InsertCredential(c)
  BY <1>1, CeremonyEnds DEF SaveCredential
<1>2. CASE InsertCredential(c)
  <2> DEFINE k == ceremony[c].key
             q == [NoCredential EXCEPT !.owner = ceremony[c].user, !.name = ceremony[c].name]
  <2>0. /\ ceremony[c].pc = "insert" /\ credentials' = [credentials EXCEPT ![k] = q] /\ Over(c)
        /\ UNCHANGED <<challenges, issued, device, opened, reopened>>
    BY <1>2 DEF SaveCredential
  <2>1. Registering(c)
    <3>1. ceremony[c].pc = "insert" => ceremony[c].kind = "register"
      BY DEF OwnersHold
    <3> QED
      BY <2>0, <3>1 DEF Registering
  <2>2. k \in Authenticators /\ ceremony[c].user \in Members /\ device[k].holder = ceremony[c].user
    BY <2>1 DEF OwnersHold
  <2>3. CredentialShape(q) /\ q.owner = ceremony[c].user
    BY <2>2 DEF CredentialShape, NoCredential
  <2> HIDE DEF q
  <2>4. credentials = [j \in Authenticators |-> credentials[j]] /\ \A j \in Authenticators : CredentialShape(credentials[j])
    BY DEF PasskeyTyped
  <2>5. credentials'[k] = q /\ \A j \in Authenticators : j # k => credentials'[j] = credentials[j]
    BY <2>0, <2>2, <2>4
  <2>6. /\ ceremony' = [d \in PasskeyCalls |-> ceremony'[d]] /\ (\A d \in PasskeyCalls : CeremonyShape(ceremony'[d]))
        /\ ceremony'[c] = IdleCeremony /\ (\A d \in PasskeyCalls \ {c} : ceremony'[d] = ceremony[d]) /\ ChallengesOnce'
    BY <2>0, IdleCeremonyFits, CeremonyMoves DEF Over
  <2>7. \A d \in PasskeyCalls : ceremony'[d].pc # "idle" => d # c /\ ceremony'[d] = ceremony[d]
    BY <2>6, IdleCeremonyFits
  <2>8. PasskeyTyped'
    <3>1. credentials' = [j \in Authenticators |-> credentials'[j]]
      BY <2>0, <2>4
    <3>2. \A j \in Authenticators : CredentialShape(credentials'[j])
      BY <2>3, <2>4, <2>5
    <3> QED
      BY <2>0, <2>6, <3>1, <3>2 DEF PasskeyTyped
  <2>9. OwnersHold'
    <3>1. \A j \in Authenticators : credentials'[j].owner # Nobody => credentials'[j].owner = device'[j].holder
      BY <2>0, <2>2, <2>3, <2>5 DEF OwnersHold
    <3> QED
      BY <2>0, <2>7, <3>1 DEF OwnersHold, Busy, Registering, PasskeyOpensItsOwner
  <2>10. \A d \in PasskeyCalls : Registering(d)' => d # c /\ Registering(d) /\ ceremony'[d] = ceremony[d] /\ ceremony[d].key # k
    BY <2>1, <2>7 DEF Registering, RegisteredOnce
  <2>11. \A d \in PasskeyCalls : Accepted(d)' => Accepted(d) /\ ceremony'[d] = ceremony[d] /\ ceremony[d].key # k
    BY <2>1, <2>7 DEF Accepted, RegisteredOnce
  <2>12. \A p \in opened : p.key # k /\ p.key \in Authenticators
    BY <2>1 DEF RegisteredOnce, PasskeyTyped
  <2>13. \A d \in PasskeyCalls : Registering(d) \/ Accepted(d) => ceremony[d].key \in Authenticators
    BY DEF OwnersHold, Accepted
  <2>14. RegisteredOnce'
    BY <2>0, <2>5, <2>10, <2>11, <2>13 DEF RegisteredOnce
  <2>15. CountersOnce'
    BY <2>0, <2>5, <2>11, <2>12, <2>13 DEF CountersOnce
  <2> QED
    BY <2>0, <2>6, <2>8, <2>9, <2>14, <2>15
<1> QED
  BY <1>1, <1>2

\* The update that accepts an assertion moves the counter forward, past every accepted count.
LEMMA RecordLoginInv == ASSUME PasskeyInv, NEW c \in PasskeyCalls, RecordLogin(c) PROVE PasskeyInv'
<1> USE DEF PasskeyInv
<1>1. CASE ~RecordAssertion(c)
  BY <1>1, CeremonyEnds DEF RecordLogin
<1>2. CASE RecordAssertion(c)
  <2> DEFINE k == ceremony[c].key
             mark == credentials[k].discoverable \/ ceremony[c].kind = "login_discoverable"
             r == [credentials[k] EXCEPT !.count = ceremony[c].n, !.discoverable = mark]
             q == IF ceremony[c].locked THEN IdleCeremony ELSE [ceremony[c] EXCEPT !.pc = "reset"]
  <2>0. /\ ceremony[c].pc = "record" /\ CeremonyShape(ceremony[c]) /\ ceremony = [d \in PasskeyCalls |-> ceremony[d]]
        /\ credentials = [j \in Authenticators |-> credentials[j]] /\ \A j \in Authenticators : CredentialShape(credentials[j])
    BY DEF RecordLogin, PasskeyTyped
  <2>1. k \in Authenticators /\ ceremony[c].user \in Members /\ device[k].holder = ceremony[c].user /\ ceremony[c].n \in Nat
    BY <2>0 DEF OwnersHold, CeremonyShape
  <2>2. credentials' = [credentials EXCEPT ![k] = r]
    BY <1>2, <2>0, <2>1 DEF RecordLogin
  <2>3. ceremony' = [ceremony EXCEPT ![c] = q]
    BY <1>2, <2>0 DEF RecordLogin, Over, Step
  <2>4. UNCHANGED <<challenges, issued, device, opened, reopened>>
    BY DEF RecordLogin
  <2>5. /\ credentials[k].owner # Nobody /\ credentials[k].count \in Nat
        /\ ceremony[c].n > credentials[k].count \/ (ceremony[c].n = 0 /\ credentials[k].count = 0)
    BY <1>2, <2>0, <2>1 DEF RecordAssertion, CredentialShape
  <2> HIDE DEF mark
  <2>6. CredentialShape(r) /\ r.owner = credentials[k].owner /\ r.count = ceremony[c].n
    BY <2>0, <2>1 DEF CredentialShape
  <2> HIDE DEF r
  <2>7. credentials'[k] = r /\ \A j \in Authenticators : j # k => credentials'[j] = credentials[j]
    BY <2>0, <2>1, <2>2
  <2>8. /\ q.pc = "idle" \/ (q.pc = "reset" /\ q.key = k /\ q.n = ceremony[c].n /\ q.user = ceremony[c].user /\ q.challenge = ceremony[c].challenge)
        /\ CeremonyShape(q)
    <3>1. CASE ceremony[c].locked
      BY <3>1, IdleCeremonyFits
    <3>2. CASE ~ceremony[c].locked
      <4>1. q = [ceremony[c] EXCEPT !.pc = "reset"]
        BY <3>2
      <4> HIDE DEF q
      <4> QED
        BY <2>0, <4>1 DEF CeremonyShape
    <3> QED
      BY <3>1, <3>2
  <2> HIDE DEF q
  <2>9. Busy(c)
    BY <2>0 DEF Busy
  <2>10. /\ ceremony' = [d \in PasskeyCalls |-> ceremony'[d]] /\ (\A d \in PasskeyCalls : CeremonyShape(ceremony'[d]))
         /\ ceremony'[c] = q /\ (\A d \in PasskeyCalls \ {c} : ceremony'[d] = ceremony[d]) /\ ChallengesOnce'
    BY <2>3, <2>4, <2>8, <2>9, CeremonyMoves
  <2>11. PasskeyTyped'
    <3>1. credentials' = [j \in Authenticators |-> credentials'[j]]
      BY <2>0, <2>2
    <3>2. \A j \in Authenticators : CredentialShape(credentials'[j])
      BY <2>0, <2>6, <2>7
    <3> QED
      BY <2>4, <2>10, <3>1, <3>2 DEF PasskeyTyped
  <2>12. \A d \in PasskeyCalls : d # c => ceremony'[d] = ceremony[d]
    BY <2>10
  <2>13. \A j \in Authenticators : /\ credentials'[j].owner = credentials[j].owner
                                   /\ credentials[j].count <= credentials'[j].count
                                   /\ credentials[j].count \in Nat /\ credentials'[j].count \in Nat
    BY <2>0, <2>1, <2>5, <2>6, <2>7 DEF CredentialShape
  <2>14. OwnersHold'
    <3>1. \A j \in Authenticators : credentials'[j].owner # Nobody => credentials'[j].owner = device'[j].holder
      BY <2>4, <2>13 DEF OwnersHold
    <3>2. ASSUME NEW d \in PasskeyCalls, Registering(d)' \/ ceremony'[d].pc \in {"record", "reset", "mint"}
          PROVE  ceremony'[d].user \in Members /\ ceremony'[d].key \in Authenticators /\ device'[ceremony'[d].key].holder = ceremony'[d].user
      <4>1. CASE d = c
        BY <4>1, <3>2, <2>1, <2>4, <2>8, <2>10 DEF Registering
      <4>2. CASE d # c
        BY <4>2, <3>2, <2>4, <2>12 DEF OwnersHold, Registering
      <4> QED
        BY <4>1, <4>2
    <3>3. \A d \in PasskeyCalls : /\ Busy(d)' => ceremony'[d].key \in Authenticators
                                  /\ ceremony'[d].pc = "insert" => ceremony'[d].kind = "register"
      BY <2>1, <2>8, <2>10, <2>12 DEF OwnersHold, Busy
    <3>4. PasskeyOpensItsOwner'
      BY <2>4 DEF OwnersHold, PasskeyOpensItsOwner
    <3> QED
      BY <3>1, <3>2, <3>3, <3>4 DEF OwnersHold
  <2>15. \A d \in PasskeyCalls : Registering(d)' => d # c /\ Registering(d) /\ ceremony'[d] = ceremony[d] /\ ceremony[d].key \in Authenticators
    BY <2>8, <2>10, <2>12 DEF Registering, OwnersHold
  <2>16. \A d \in PasskeyCalls : Accepted(d)' =>
            (d = c /\ ceremony'[d].key = k /\ ceremony'[d].n = ceremony[c].n) \/ (d # c /\ Accepted(d) /\ ceremony'[d] = ceremony[d])
    BY <2>8, <2>10, <2>12 DEF Accepted
  <2>17. \A d \in PasskeyCalls : Registering(d) => ceremony[d].key # k
    BY <2>5 DEF RegisteredOnce
  <2>18. RegisteredOnce'
    BY <2>4, <2>13, <2>15, <2>16, <2>17 DEF RegisteredOnce
  <2>19. /\ \A d \in PasskeyCalls : Accepted(d) => ceremony[d].n \in Nat /\ ceremony[d].key \in Authenticators
         /\ \A p \in opened : p.n \in Nat /\ p.key \in Authenticators
    BY DEF PasskeyTyped, CeremonyShape, OwnersHold, Accepted
  <2>20. CountersOnce'
    <3>1. ASSUME NEW d \in PasskeyCalls, Accepted(d)', credentials'[ceremony'[d].key].owner # Nobody
          PROVE  ceremony'[d].n <= credentials'[ceremony'[d].key].count
      <4>1. CASE d = c
        BY <3>1, <4>1, <2>1, <2>6, <2>7, <2>16
      <4>2. CASE d # c
        <5>1. Accepted(d) /\ ceremony'[d] = ceremony[d]
          BY <3>1, <4>2, <2>16
        <5>2. ceremony[d].n <= credentials[ceremony[d].key].count
          BY <3>1, <5>1, <2>13, <2>19 DEF CountersOnce
        <5> QED
          BY <5>1, <5>2, <2>13, <2>19
      <4> QED
        BY <4>1, <4>2
    <3>2. ASSUME NEW p \in opened', credentials'[p.key].owner # Nobody PROVE p.n <= credentials'[p.key].count
      <4>1. p \in opened /\ p.n <= credentials[p.key].count
        BY <3>2, <2>4, <2>13, <2>19 DEF CountersOnce
      <4> QED
        BY <4>1, <2>13, <2>19
    <3>3. ASSUME ceremony[c].n # 0
          PROVE  /\ \A d \in PasskeyCalls : Accepted(d) /\ ceremony[d].key = k => ceremony[d].n # ceremony[c].n
                 /\ \A p \in opened : p.key = k => p.n # ceremony[c].n
      <4>1. ceremony[c].n > credentials[k].count
        BY <3>3, <2>5
      <4>2. /\ \A d \in PasskeyCalls : Accepted(d) /\ ceremony[d].key = k => ceremony[d].n <= credentials[k].count
            /\ \A p \in opened : p.key = k => p.n <= credentials[k].count
        BY <2>5 DEF CountersOnce
      <4> QED
        BY <4>1, <4>2, <2>1, <2>5, <2>19
    <3>4. ASSUME NEW d \in PasskeyCalls, NEW e \in PasskeyCalls, d # e, Accepted(d)', Accepted(e)', ceremony'[d].key = ceremony'[e].key,
                 ceremony'[d].n # 0
          PROVE  ceremony'[d].n # ceremony'[e].n
      <4>1. CASE d = c
        <5>1. Accepted(e) /\ ceremony'[e] = ceremony[e] /\ ceremony'[d].key = k /\ ceremony'[d].n = ceremony[c].n
          BY <3>4, <4>1, <2>16
        <5> QED
          BY <5>1, <3>3, <3>4
      <4>2. CASE e = c
        <5>1. Accepted(d) /\ ceremony'[d] = ceremony[d] /\ ceremony'[e].key = k /\ ceremony'[e].n = ceremony[c].n
          BY <3>4, <4>2, <2>16
        <5> QED
          BY <5>1, <3>3, <3>4
      <4>3. CASE d # c /\ e # c
        <5>1. Accepted(d) /\ ceremony'[d] = ceremony[d] /\ Accepted(e) /\ ceremony'[e] = ceremony[e]
          BY <3>4, <4>3, <2>16
        <5> QED
          BY <5>1, <3>4 DEF CountersOnce
      <4> QED
        BY <4>1, <4>2, <4>3
    <3>5. ASSUME NEW p \in opened', NEW d \in PasskeyCalls, Accepted(d)', p.key = ceremony'[d].key, p.n # 0 PROVE p.n # ceremony'[d].n
      <4>1. p \in opened
        BY <2>4
      <4>2. CASE d = c
        <5>1. ceremony'[d].key = k /\ ceremony'[d].n = ceremony[c].n
          BY <3>5, <4>2, <2>16
        <5> QED
          BY <4>1, <5>1, <3>3, <3>5
      <4>3. CASE d # c
        <5>1. Accepted(d) /\ ceremony'[d] = ceremony[d]
          BY <3>5, <4>3, <2>16
        <5> QED
          BY <4>1, <5>1, <3>5 DEF CountersOnce
      <4> QED
        BY <4>2, <4>3
    <3> QED
      BY <3>1, <3>2, <3>4, <3>5 DEF CountersOnce
  <2> QED
    BY <2>4, <2>10, <2>11, <2>14, <2>18, <2>20
<1> QED
  BY <1>1, <1>2

\* The session of an accepted assertion: neither its challenge nor its count opened one before.
LEMMA MintSessionInv == ASSUME PasskeyInv, NEW c \in PasskeyCalls, MintSession(c) PROVE PasskeyInv'
<1> USE DEF PasskeyInv
<1> DEFINE pass == [user |-> ceremony[c].user, key |-> ceremony[c].key, n |-> ceremony[c].n, challenge |-> ceremony[c].challenge]
<1>0. /\ ceremony[c].pc = "mint" /\ opened' = opened \cup {pass} /\ Over(c)
      /\ reopened' = (reopened \/ \E p \in opened : p.challenge = pass.challenge \/ (p.key = pass.key /\ p.n = pass.n /\ p.n # 0))
      /\ UNCHANGED <<challenges, issued, credentials, device>>
  BY DEF MintSession
<1>1. CeremonyShape(ceremony[c]) /\ Busy(c) /\ Accepted(c)
  BY <1>0 DEF PasskeyTyped, Busy, Accepted
<1>2. ceremony[c].user \in Members /\ ceremony[c].key \in Authenticators /\ device[ceremony[c].key].holder = ceremony[c].user
  BY <1>0 DEF OwnersHold
<1>3. pass \in [user : Members, key : Authenticators, n : Nat, challenge : Nat]
  BY <1>1, <1>2 DEF CeremonyShape
<1>4. pass.user = ceremony[c].user /\ pass.key = ceremony[c].key /\ pass.n = ceremony[c].n /\ pass.challenge = ceremony[c].challenge
  OBVIOUS
<1> HIDE DEF pass
<1>5. ~reopened'
  <2>1. \A p \in opened : p.challenge # pass.challenge
    BY <1>1, <1>4 DEF ChallengesOnce
  <2>2. \A p \in opened : ~(p.key = pass.key /\ p.n = pass.n /\ p.n # 0)
    BY <1>1, <1>4 DEF CountersOnce
  <2> QED
    BY <1>0, <2>1, <2>2
<1>6. /\ ceremony' = [d \in PasskeyCalls |-> ceremony'[d]] /\ (\A d \in PasskeyCalls : CeremonyShape(ceremony'[d]))
      /\ ceremony'[c] = IdleCeremony /\ (\A d \in PasskeyCalls \ {c} : ceremony'[d] = ceremony[d])
  BY <1>0, IdleCeremonyFits, CeremonyMoves DEF Over
<1>7. \A d \in PasskeyCalls : ceremony'[d].pc # "idle" => d # c /\ ceremony'[d] = ceremony[d]
  BY <1>6, IdleCeremonyFits
<1>8. PasskeyTyped'
  BY <1>0, <1>3, <1>6 DEF PasskeyTyped
<1>9. ChallengesOnce'
  <2>1. \A d \in PasskeyCalls : Busy(d)' => d # c /\ Busy(d) /\ ceremony'[d] = ceremony[d]
    BY <1>7 DEF Busy
  <2>2. (\A a \in challenges' : a.id <= issued') /\ \A a, b \in challenges' : a.id = b.id => a = b
    BY <1>0 DEF ChallengesOnce
  <2>3. \A d \in PasskeyCalls : Busy(d)' => ceremony'[d].challenge <= issued' /\ \A a \in challenges' : a.id # ceremony'[d].challenge
    BY <1>0, <2>1 DEF ChallengesOnce
  <2>4. \A d, e \in PasskeyCalls : d # e /\ Busy(d)' /\ Busy(e)' => ceremony'[d].challenge # ceremony'[e].challenge
    BY <2>1 DEF ChallengesOnce
  <2>5. \A p \in opened' : p.challenge <= issued' /\ \A a \in challenges' : a.id # p.challenge
    BY <1>0, <1>1, <1>4 DEF ChallengesOnce
  <2>6. \A p \in opened', d \in PasskeyCalls : Busy(d)' => ceremony'[d].challenge # p.challenge
    BY <1>0, <1>1, <1>4, <2>1 DEF ChallengesOnce
  <2> QED
    BY <2>2, <2>3, <2>4, <2>5, <2>6 DEF ChallengesOnce
<1>10. OwnersHold'
  <2>1. PasskeyOpensItsOwner'
    BY <1>0, <1>2, <1>4 DEF OwnersHold, PasskeyOpensItsOwner
  <2> QED
    BY <1>0, <1>7, <2>1 DEF OwnersHold, Busy, Registering
<1>11. \A d \in PasskeyCalls : /\ Registering(d)' => Registering(d) /\ ceremony'[d] = ceremony[d]
                               /\ Accepted(d)' => d # c /\ Accepted(d) /\ ceremony'[d] = ceremony[d]
  BY <1>7 DEF Registering, Accepted
<1>12. RegisteredOnce'
  BY <1>0, <1>1, <1>4, <1>11 DEF RegisteredOnce
<1>13. CountersOnce'
  BY <1>0, <1>1, <1>4, <1>11 DEF CountersOnce
<1> QED
  BY <1>5, <1>8, <1>9, <1>10, <1>12, <1>13

\* Every step keeps PasskeyInv.
LEMMA PasskeyNextInv == PasskeyInv /\ [PasskeyNext]_passkeyVars => PasskeyInv'
<1> SUFFICES ASSUME PasskeyInv, [PasskeyNext]_passkeyVars PROVE PasskeyInv'
  OBVIOUS
<1>1. CASE \/ \E u \in Members : BeginRegistration(u) \/ BeginLogin(u) \/ DisableMember(u) \/ LockMember(u)
           \/ BeginDiscoverableLogin
           \/ \E a \in challenges : ExpireChallenge(a)
           \/ \E c \in PasskeyCalls : CeremonyDies(c)
  BY <1>1, AroundPasskeyInv
<1>2. CASE \E u \in Members, k \in Authenticators : DeleteCredential(u, k) \/ RenameCredential(u, k, MaxCredentials)
  BY <1>2, RenameInv
<1>3. CASE \E a \in challenges, c \in PasskeyCalls, k \in Authenticators, u \in Members : FinishRegistration(c, u, a, k)
  BY <1>3, FinishRegistrationInv
<1>4. CASE \E a \in challenges, c \in PasskeyCalls, k \in Authenticators, u \in Members : \E n \in Counts(k) : ClaimLogin(c, a, k, n, u)
  BY <1>4, ClaimLoginInv
<1>5. CASE \E c \in PasskeyCalls : LoadRegistration(c) \/ LoadLogin(c) \/ ResetLogin(c)
  BY <1>5, LoadInv
<1>6. CASE \E c \in PasskeyCalls : SaveCredential(c)
  BY <1>6, SaveCredentialInv
<1>7. CASE \E c \in PasskeyCalls : RecordLogin(c)
  BY <1>7, RecordLoginInv
<1>8. CASE \E c \in PasskeyCalls : MintSession(c)
  BY <1>8, MintSessionInv
<1>9. CASE UNCHANGED passkeyVars
  BY <1>9, PasskeyAside DEF passkeyVars
<1> QED
  BY <1>1, <1>2, <1>3, <1>4, <1>5, <1>6, <1>7, <1>8, <1>9 DEF PasskeyNext

\* PasskeyInv is an invariant.
THEOREM PasskeyInvariant == PasskeySpec => []PasskeyInv
BY PasskeyInitInv, PasskeyNextInv, PTL DEF PasskeySpec

\* An assertion opens one session, whether it is sent twice, a clone signs with the same count
\* or two finishes run at once; and the session is of the account the passkey was registered
\* for, whatever account the client names.
THEOREM CeremonyOpensOnce == PasskeySpec => []CeremonyOpensItsOwner
<1>1. PasskeyInv => CeremonyOpensItsOwner
  BY DEF PasskeyInv, OwnersHold, CeremonyOpensItsOwner, AssertionOpensOneSession
<1> QED
  BY <1>1, PasskeyInvariant, PTL

=============================================================================
