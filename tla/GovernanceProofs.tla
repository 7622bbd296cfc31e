-------------------------- MODULE GovernanceProofs --------------------------
(***************************************************************************)
(* Two-person control for any number of people, concurrent writes,         *)
(* approvals and requests; the envelopes of a transit key for any number   *)
(* of concurrent requests, keys, versions and materials; and the audit log *)
(* for any number of events, calls and alterations.                        *)
(***************************************************************************)
EXTENDS FourEyes, Transit, Audit, FiniteSetTheorems, WellFoundedInduction, TLAPS

-----------------------------------------------------------------------------
(* Four-eyes: the inductive invariant.                                     *)

Claimed == {"decrypt", "commit", "revert", "mark"}
Promoting == {"plan", "promote", "decide"}

\* An approval of an edit request is of an edit request, one of a promotion of a promotion.
Kinds ==
    \A a \in Approvers :
        /\ approver[a].pc \in Claimed \cup {"claim"} => approver[a].req \in Edits
        /\ approver[a].pc \in Promoting => approver[a].req \in Promos

\* Whoever is past the claim has the request, alone; nobody drops it but by a fault.
OneHolder ==
    /\ \A a \in Approvers : approver[a].pc \in Claimed => edit[approver[a].req].st = "applying"
    /\ \A a, b \in Approvers :
          approver[a].pc \in Claimed /\ approver[b].pc \in Claimed /\ approver[a].req = approver[b].req => a = b
    /\ \A q \in Edits : edit[q].st = "applying" /\ q \notin abandoned =>
          \E a \in Approvers : approver[a].pc \in Claimed /\ approver[a].req = q

\* What has been committed, by the request's status and its holder's place.
CommitsFollow ==
    /\ \A q \in Edits : q \notin doubtful =>
          /\ commits[q] <= 1
          /\ edit[q].st = "applied" => commits[q] = 1
          /\ edit[q].st \in {"unfiled", "pending", "rejected", "cancelled"} => commits[q] = 0
    /\ \A a \in Approvers : approver[a].req \notin doubtful =>
          /\ approver[a].pc \in {"decrypt", "commit", "revert"} => commits[approver[a].req] = 0
          /\ approver[a].pc = "mark" => commits[approver[a].req] = 1

\* A promotion that has written while it is still pending has an approval about to decide
\* it, unless a fault took that away.
PromotionsFollow ==
    /\ \A p \in Promos : promo[p].st = "unfiled" => pcommits[p] = 0
    /\ \A a \in Approvers : approver[a].pc \in Promoting =>
          /\ promo[approver[a].req].st # "unfiled"
          /\ promo[approver[a].req].st \in {"rejected", "cancelled"} => approver[a].req \in raced
    /\ \A p \in Promos : promo[p].st = "pending" /\ pcommits[p] # 0 =>
          \/ p \in abandoned \cup doubtful
          \/ \E a \in Approvers : approver[a].pc = "decide" /\ approver[a].req = p
    /\ PromotionDecisionsAgree

\* A write that is past a check either saw the flag down or overlapped a change of it.
ChecksHold ==
    /\ \A w \in Writers : writer[w].pc # "idle" /\ ~cfgFlag /\ ~envFlag => w \in lapse \cup moved
    /\ \A w \in Writers : writer[w].pc = "environment" /\ cfgFlag => w \in lapse \cup moved
    /\ \A w \in Writers : writer[w].pc = "save" => w \in lapse \cup moved
    /\ NoDoorSkipsProtection

ReviewInv == TypeOK /\ Kinds /\ OneHolder /\ CommitsFollow /\ PromotionsFollow /\ ChecksHold

-----------------------------------------------------------------------------
Places == {"idle", "claim", "decrypt", "commit", "revert", "mark", "plan", "promote", "decide"}
Approvals == [Approvers -> [pc : Places, req : Edits \cup Promos \cup {"none"}, user : Users \cup {Nobody}]]
EditRows == [Edits -> [st : Statuses, by : Users \cup {Nobody}]]

\* An approval that moves on or ends, and a request that changes its status, keep their types.
LEMMA Moves ==
    ASSUME TypeOK
    PROVE  /\ \A a \in Approvers : [approver EXCEPT ![a] = IdleApprover] \in Approvals
           /\ \A a \in Approvers, pc \in Places : [approver EXCEPT ![a].pc = pc] \in Approvals
           /\ \A q \in Edits, st \in Statuses : [edit EXCEPT ![q].st = st] \in EditRows
<1>1. approver \in Approvals /\ edit \in EditRows
  BY DEF TypeOK, Approvals, EditRows, Places
<1>2. IdleApprover \in [pc : Places, req : Edits \cup Promos \cup {"none"}, user : Users \cup {Nobody}]
  BY DEF IdleApprover, Places
<1>3. \A a \in Approvers : [approver EXCEPT ![a] = IdleApprover] \in Approvals
  BY <1>1, <1>2 DEF Approvals
<1>4. \A a \in Approvers, pc \in Places : [approver EXCEPT ![a].pc = pc] \in Approvals
  BY <1>1 DEF Approvals
<1>5. \A q \in Edits, st \in Statuses : [edit EXCEPT ![q].st = st] \in EditRows
  BY <1>1 DEF EditRows
<1> QED
  BY <1>3, <1>4, <1>5

\* ReviewInv holds with nothing filed.
LEMMA InitInv == Init => ReviewInv
<1> SUFFICES ASSUME Init PROVE ReviewInv
  OBVIOUS
<1> USE DEF Init, IdleWriter, IdleApprover, Unfiled
<1>1. TypeOK
  <2>1. 0 \in 0 .. MaxCommits /\ 0 \in 0 .. MaxFaults
    BY FourEyesAssumption
  <2> QED
    BY <2>1 DEF TypeOK, Statuses
<1>2. Kinds /\ OneHolder /\ CommitsFollow
  <2>1. /\ \A a \in Approvers : approver[a].pc = "idle"
        /\ \A q \in Edits : edit[q].st = "unfiled" /\ commits[q] = 0
    OBVIOUS
  <2>2. Kinds
    BY <2>1 DEF Kinds, Claimed, Promoting
  <2>3. OneHolder
    BY <2>1 DEF OneHolder, Claimed
  <2>4. CommitsFollow
    BY <2>1 DEF CommitsFollow
  <2> QED
    BY <2>2, <2>3, <2>4
<1>3. PromotionsFollow /\ ChecksHold
  BY DEF PromotionsFollow, PromotionDecisionsAgree, ChecksHold, NoDoorSkipsProtection, Promoting
<1> QED
  BY <1>1, <1>2, <1>3 DEF ReviewInv

\* A flag changes under whatever is going on.
LEMMA FlagsStep ==
    ASSUME ReviewInv, SetRequireApproval \/ SetEnvRequireApproval
    PROVE  ReviewInv'
<1> USE DEF ReviewInv, Kinds, OneHolder, CommitsFollow, PromotionsFollow, PromotionDecisionsAgree,
            ChecksHold, NoDoorSkipsProtection, protection, writes, history
<1>1. PICK c \in BOOLEAN, e \in BOOLEAN : SetFlags(c, e)
  BY DEF SetRequireApproval, SetEnvRequireApproval, TypeOK
<1> QED
  BY <1>1 DEF SetFlags, TypeOK

\* The steps of direct writes.
LEMMA WritesStep ==
    ASSUME ReviewInv, NEW w \in Writers,
           WriteStep(w) \/ \E u \in Users : BeginWrite(w, u)
    PROVE  ReviewInv'
<1> USE DEF ReviewInv, Kinds, OneHolder, CommitsFollow, PromotionsFollow, PromotionDecisionsAgree,
            ChecksHold, NoDoorSkipsProtection, protection, writes, history
<1>2. ASSUME NEW u \in Users, BeginWrite(w, u) PROVE ReviewInv'
  BY <1>2 DEF BeginWrite, TypeOK, Protected
<1>3. CASE CheckConfig(w)
  BY <1>3 DEF CheckConfig, TypeOK
<1>4. CASE CheckEnvironment(w)
  BY <1>4 DEF CheckEnvironment, TypeOK
<1>5. CASE SaveDirectly(w)
  BY <1>5 DEF SaveDirectly, TypeOK, IdleWriter, Nobody
<1>6. CASE FailWrite(w)
  BY <1>6 DEF FailWrite, TypeOK, IdleWriter, Nobody
<1>7. CASE SubmitEditRequest(w)
  <2>1. PICK q \in Edits : /\ edit[q].st = "unfiled"
                           /\ edit' = [edit EXCEPT ![q] = [st |-> "pending", by |-> writer[w].user]]
    BY <1>7 DEF SubmitEditRequest
  <2>2. /\ writer' = [writer EXCEPT ![w] = IdleWriter] /\ solo' = solo /\ protection' = protection
        /\ UNCHANGED <<commits, promo, pcommits, approver, history>>
    BY <1>7 DEF SubmitEditRequest
  <2>3. TypeOK'
    BY <2>1, <2>2 DEF TypeOK, IdleWriter, Nobody, Statuses
  <2>4. Kinds' /\ PromotionsFollow' /\ ChecksHold'
    BY <2>1, <2>2 DEF TypeOK, IdleWriter
  <2>5. OneHolder' /\ CommitsFollow'
    BY <2>1, <2>2 DEF TypeOK, Claimed
  <2> QED
    BY <2>3, <2>4, <2>5
<1> QED
  BY <1>2, <1>3, <1>4, <1>5, <1>6, <1>7 DEF WriteStep

\* The steps of an approval of an edit request, and the decisions taken past it.
LEMMA EditsStep ==
    ASSUME ReviewInv,
           \/ \E a \in Approvers, u \in Users, q \in Edits : BeginApprove(a, q, u)
           \/ \E a \in Approvers : EditStep(a) \/ CommitEditUnanswered(a)
           \/ \E q \in Edits, u \in Users : RejectEdit(q, u) \/ CancelEdit(q, u)
    PROVE  ReviewInv'
<1> USE DEF ReviewInv, Kinds, OneHolder, CommitsFollow, PromotionsFollow, PromotionDecisionsAgree,
            ChecksHold, NoDoorSkipsProtection, protection, writes, history, Claimed, Promoting
<1>1. ASSUME NEW a \in Approvers, NEW u \in Users, NEW q \in Edits, BeginApprove(a, q, u)
      PROVE  ReviewInv'
  BY <1>1 DEF BeginApprove, TypeOK
<1>2. ASSUME NEW a \in Approvers, ClaimForApply(a) PROVE ReviewInv'
  <2>1. CASE edit[approver[a].req].st = "pending"
    <3>1. /\ edit' = [edit EXCEPT ![approver[a].req].st = "applying"]
          /\ approver' = [approver EXCEPT ![a].pc = "decrypt"] /\ approver[a].pc = "claim"
          /\ UNCHANGED <<protection, writes, commits, promo, pcommits, history>>
      BY <1>2, <2>1 DEF ClaimForApply
    <3>2. TypeOK'
      <4>1. approver' \in Approvals
        BY <3>1, Moves DEF Places
      <4>2. approver[a].req \in Edits /\ "applying" \in Statuses
        BY <3>1 DEF Statuses
      <4>3. edit' \in EditRows
        BY <3>1, <4>2, Moves
      <4> QED
        BY <3>1, <4>1, <4>3 DEF TypeOK, Approvals, EditRows, Places
    <3>3. Kinds' /\ PromotionsFollow' /\ ChecksHold'
      BY <3>1 DEF TypeOK
    <3>4. OneHolder'
      BY <3>1, <2>1 DEF TypeOK
    <3>5. CommitsFollow'
      BY <3>1, <2>1 DEF TypeOK
    <3> QED
      BY <3>2, <3>3, <3>4, <3>5
  <2>2. CASE edit[approver[a].req].st # "pending"
    <3>1. /\ approver' = [approver EXCEPT ![a] = IdleApprover] /\ approver[a].pc = "claim"
          /\ UNCHANGED <<protection, writes, edit, commits, promo, pcommits, history>>
      BY <1>2, <2>2 DEF ClaimForApply
    <3>2. TypeOK'
      <4>1. approver' \in Approvals
        BY <3>1, Moves
      <4> QED
        BY <3>1, <4>1 DEF TypeOK, Approvals, Places
    <3>3. Kinds' /\ PromotionsFollow' /\ ChecksHold'
      BY <3>1 DEF TypeOK, IdleApprover
    <3>4. OneHolder' /\ CommitsFollow'
      BY <3>1, SMTT(30) DEF TypeOK, IdleApprover
    <3> QED
      BY <3>2, <3>3, <3>4
  <2> QED
    BY <2>1, <2>2
<1>3. ASSUME NEW a \in Approvers, DecryptProposal(a) PROVE ReviewInv'
  <2>1. PICK next \in {"commit", "revert"} : approver' = [approver EXCEPT ![a].pc = next]
    BY <1>3 DEF DecryptProposal
  <2>2. /\ approver[a].pc = "decrypt"
        /\ UNCHANGED <<protection, writes, edit, commits, promo, pcommits, history>>
    BY <1>3 DEF DecryptProposal
  <2>3. TypeOK'
    <3>1. approver' \in Approvals
      BY <2>1, Moves DEF Places
    <3> QED
      BY <2>2, <3>1 DEF TypeOK, Approvals, Places
  <2>4. OneHolder'
    <3>1. /\ \A b \in Approvers : approver'[b].req = approver[b].req
          /\ \A b \in Approvers : approver'[b].pc \in Claimed <=> approver[b].pc \in Claimed
      BY <2>1, <2>2 DEF TypeOK
    <3> QED
      BY <2>2, <3>1
  <2>5. Kinds' /\ CommitsFollow' /\ PromotionsFollow' /\ ChecksHold'
    BY <2>1, <2>2 DEF TypeOK
  <2> QED
    BY <2>3, <2>4, <2>5
<1>4. ASSUME NEW a \in Approvers, CommitEdit(a) PROVE ReviewInv'
  <2>1. /\ approver[a].pc = "commit" /\ commits[approver[a].req] < MaxCommits
        /\ commits' = [commits EXCEPT ![approver[a].req] = commits[approver[a].req] + 1]
        /\ approver' = [approver EXCEPT ![a].pc = "mark"]
        /\ UNCHANGED <<protection, writes, edit, promo, pcommits, history>>
    BY <1>4 DEF CommitEdit
  <2>2. TypeOK'
    <3>1. approver[a].req \in Edits /\ commits[approver[a].req] + 1 \in 0 .. MaxCommits
      BY <2>1, FourEyesAssumption DEF TypeOK
    <3>2. approver' \in Approvals
      BY <2>1, Moves DEF Places
    <3>3. commits' \in [Edits -> 0 .. MaxCommits]
      BY <2>1, <3>1 DEF TypeOK
    <3> QED
      BY <2>1, <3>2, <3>3 DEF TypeOK, Approvals, Places
  <2>3. Kinds' /\ PromotionsFollow' /\ ChecksHold'
    BY <2>1 DEF TypeOK
  <2>4. OneHolder'
    BY <2>1 DEF TypeOK
  <2>5. CommitsFollow'
    BY <2>1, <2>4 DEF TypeOK
  <2> QED
    BY <2>2, <2>3, <2>4, <2>5
<1>5. ASSUME NEW a \in Approvers, CommitEditFails(a) PROVE ReviewInv'
  BY <1>5 DEF CommitEditFails, TypeOK
<1>6. ASSUME NEW a \in Approvers, CommitEditUnanswered(a) PROVE ReviewInv'
  <2>1. /\ approver[a].pc = "commit" /\ commits[approver[a].req] < MaxCommits /\ faults < MaxFaults
        /\ commits' = [commits EXCEPT ![approver[a].req] = commits[approver[a].req] + 1]
        /\ approver' = [approver EXCEPT ![a].pc = "revert"]
        /\ doubtful' = doubtful \cup {approver[a].req} /\ faults' = faults + 1
        /\ UNCHANGED <<protection, writes, edit, promo, pcommits, abandoned, raced>>
    BY <1>6 DEF CommitEditUnanswered
  <2>2. TypeOK'
    <3>1. /\ approver[a].req \in Edits /\ faults + 1 \in 0 .. MaxFaults
          /\ commits[approver[a].req] + 1 \in 0 .. MaxCommits
      BY <2>1, FourEyesAssumption DEF TypeOK
    <3>2. approver' \in Approvals
      BY <2>1, Moves DEF Places
    <3>3. commits' \in [Edits -> 0 .. MaxCommits] /\ doubtful' \subseteq Edits \cup Promos
      BY <2>1, <3>1 DEF TypeOK
    <3> QED
      BY <2>1, <3>1, <3>2, <3>3 DEF TypeOK, Approvals, Places
  <2>3. Kinds' /\ PromotionsFollow' /\ ChecksHold'
    BY <2>1 DEF TypeOK
  <2>4. OneHolder'
    <3>1. /\ \A b \in Approvers : approver'[b].req = approver[b].req
          /\ \A b \in Approvers : approver'[b].pc \in Claimed <=> approver[b].pc \in Claimed
      BY <2>1 DEF TypeOK
    <3> QED
      BY <2>1, <3>1
  <2>5. CommitsFollow'
    BY <2>1 DEF TypeOK
  <2> QED
    BY <2>2, <2>3, <2>4, <2>5
<1>7. ASSUME NEW a \in Approvers, NEW from, NEW to, approver[a].pc = from,
             \/ from = "revert" /\ to = "pending"
             \/ from = "mark" /\ to = "applied",
             edit' = [edit EXCEPT ![approver[a].req].st =
                        IF edit[approver[a].req].st = "applying" THEN to ELSE edit[approver[a].req].st],
             approver' = [approver EXCEPT ![a] = IdleApprover],
             UNCHANGED <<protection, writes, commits, promo, pcommits, history>>
      PROVE  ReviewInv'
  <2>1. /\ edit[approver[a].req].st = "applying" /\ approver[a].req \in Edits
        /\ edit' = [edit EXCEPT ![approver[a].req].st = to]
    BY <1>7 DEF TypeOK
  <2>2. TypeOK'
    <3>1. to \in Statuses
      BY <1>7 DEF Statuses
    <3>2. approver' \in Approvals
      BY <1>7, Moves
    <3>3. edit' \in EditRows
      BY <2>1, <3>1, Moves
    <3> QED
      BY <1>7, <3>2, <3>3 DEF TypeOK, Approvals, EditRows, Places
  <2>3. Kinds' /\ PromotionsFollow' /\ ChecksHold'
    BY <1>7 DEF TypeOK, IdleApprover
  <2>4. OneHolder'
    <3>1. /\ \A b \in Approvers : b # a => approver'[b] = approver[b]
          /\ approver'[a].pc = "idle"
          /\ \A q \in Edits : q # approver[a].req => edit'[q] = edit[q]
          /\ edit'[approver[a].req].st # "applying" /\ abandoned' = abandoned
          /\ \A b \in Approvers : b # a /\ approver[b].pc \in Claimed => approver[b].req # approver[a].req
      BY <1>7, <2>1 DEF TypeOK, IdleApprover
    <3>2. \A b \in Approvers : approver'[b].pc \in Claimed => edit'[approver'[b].req].st = "applying"
      BY <1>7, <3>1 DEF TypeOK
    <3>3. \A b, c \in Approvers :
            approver'[b].pc \in Claimed /\ approver'[c].pc \in Claimed /\ approver'[b].req = approver'[c].req => b = c
      BY <1>7, <3>1
    <3>4. \A q \in Edits : edit'[q].st = "applying" /\ q \notin abandoned' =>
             \E b \in Approvers : approver'[b].pc \in Claimed /\ approver'[b].req = q
      BY <1>7, <3>1
    <3> QED
      BY <3>2, <3>3, <3>4
  <2>5. CommitsFollow'
    BY <1>7, <2>1 DEF TypeOK, IdleApprover
  <2> QED
    BY <2>2, <2>3, <2>4, <2>5
<1>8. ASSUME NEW a \in Approvers, RevertApplying(a) PROVE ReviewInv'
  BY <1>7, <1>8 DEF RevertApplying
<1>9. ASSUME NEW a \in Approvers, MarkApplied(a) PROVE ReviewInv'
  BY <1>7, <1>9 DEF MarkApplied
<1>10. ASSUME NEW q \in Edits, NEW to \in {"rejected", "cancelled"}, DecideEdit(q, to) PROVE ReviewInv'
  <2>1. /\ edit[q].st = "pending" /\ edit' = [edit EXCEPT ![q].st = to]
        /\ UNCHANGED <<protection, writes, commits, promo, pcommits, approver, history>>
    BY <1>10 DEF DecideEdit
  <2>2. TypeOK'
    <3>1. to \in Statuses
      BY DEF Statuses
    <3>2. edit' \in [Edits -> [st : Statuses, by : Users \cup {Nobody}]]
      BY <2>1, <3>1, SMTT(30) DEF TypeOK
    <3> QED
      BY <2>1, <3>2 DEF TypeOK
  <2>3. Kinds' /\ PromotionsFollow' /\ ChecksHold'
    BY <2>1 DEF TypeOK
  <2>4. OneHolder'
    BY <2>1 DEF TypeOK
  <2>5. CommitsFollow'
    BY <2>1 DEF TypeOK
  <2> QED
    BY <2>2, <2>3, <2>4, <2>5
<1> QED
  BY <1>1, <1>2, <1>3, <1>4, <1>5, <1>6, <1>8, <1>9, <1>10 DEF EditStep, RejectEdit, CancelEdit

\* The steps of promotion requests, and an approval of either kind that is abandoned.
LEMMA PromotionsStep ==
    ASSUME ReviewInv,
           \/ \E a \in Approvers, u \in Users, p \in Promos : BeginApproveRequest(a, p, u)
           \/ \E a \in Approvers : PromotionStep(a) \/ ApplyPromotionUnanswered(a) \/ Abandon(a)
           \/ \E p \in Promos, u \in Users : CreateRequest(p, u) \/ RejectRequest(p, u) \/ CancelRequest(p, u)
    PROVE  ReviewInv'
<1> USE DEF ReviewInv, Kinds, OneHolder, CommitsFollow, PromotionsFollow, PromotionDecisionsAgree,
            ChecksHold, NoDoorSkipsProtection, protection, writes, history, Claimed, Promoting
<1>1. ASSUME NEW a \in Approvers, NEW u \in Users, NEW p \in Promos, BeginApproveRequest(a, p, u)
      PROVE  ReviewInv'
  BY <1>1 DEF BeginApproveRequest, TypeOK
<1>2. ASSUME NEW a \in Approvers, Plan(a) PROVE ReviewInv'
  <2>1. /\ approver[a].pc = "plan"
        /\ UNCHANGED <<protection, writes, edit, commits, promo, pcommits, history>>
    BY <1>2 DEF Plan
  <2>2. \/ approver' = [approver EXCEPT ![a] = IdleApprover]
        \/ \E next \in {"promote", "decide"} : approver' = [approver EXCEPT ![a].pc = next]
    BY <1>2 DEF Plan
  <2>3. approver' \in Approvals
    <3>1. {"promote", "decide"} \subseteq Places
      BY DEF Places
    <3> QED
      BY <2>2, <3>1, Moves
  <2>4. TypeOK'
    BY <2>1, <2>3 DEF TypeOK, Approvals, Places
  <2>5. /\ \A b \in Approvers : b # a => approver'[b] = approver[b]
        /\ \/ approver'[a].pc = "idle"
           \/ approver'[a].pc \in {"promote", "decide"} /\ approver'[a].req = approver[a].req
    BY <2>2 DEF TypeOK, IdleApprover
  <2>6. Kinds' /\ OneHolder' /\ CommitsFollow' /\ ChecksHold'
    BY <2>1, <2>5
  <2>7. PromotionsFollow'
    BY <2>1, <2>5
  <2> QED
    BY <2>4, <2>6, <2>7
<1>3. ASSUME NEW a \in Approvers, ApplyPromotion(a) PROVE ReviewInv'
  <2>1. /\ approver[a].pc = "promote" /\ pcommits[approver[a].req] < MaxCommits
        /\ pcommits' = [pcommits EXCEPT ![approver[a].req] = pcommits[approver[a].req] + 1]
        /\ approver' = [approver EXCEPT ![a].pc = "decide"]
        /\ UNCHANGED <<protection, writes, edit, commits, promo, history>>
    BY <1>3 DEF ApplyPromotion
  <2>2. TypeOK'
    <3>1. approver[a].req \in Promos /\ pcommits[approver[a].req] + 1 \in 0 .. MaxCommits
      BY <2>1, FourEyesAssumption DEF TypeOK
    <3>2. approver' \in Approvals
      BY <2>1, Moves DEF Places
    <3>3. pcommits' \in [Promos -> 0 .. MaxCommits]
      BY <2>1, <3>1 DEF TypeOK
    <3> QED
      BY <2>1, <3>2, <3>3 DEF TypeOK, Approvals, Places
  <2>3. Kinds' /\ OneHolder' /\ CommitsFollow' /\ ChecksHold'
    BY <2>1 DEF TypeOK
  <2>4. PromotionsFollow'
    BY <2>1 DEF TypeOK
  <2> QED
    BY <2>2, <2>3, <2>4
<1>4. ASSUME NEW a \in Approvers, ApplyPromotionFails(a) PROVE ReviewInv'
  BY <1>4 DEF ApplyPromotionFails, TypeOK, IdleApprover, Nobody
<1>5. ASSUME NEW a \in Approvers, ApplyPromotionUnanswered(a) PROVE ReviewInv'
  <2>1. /\ approver[a].pc = "promote" /\ pcommits[approver[a].req] < MaxCommits /\ faults < MaxFaults
        /\ pcommits' = [pcommits EXCEPT ![approver[a].req] = pcommits[approver[a].req] + 1]
        /\ approver' = [approver EXCEPT ![a] = IdleApprover]
        /\ doubtful' = doubtful \cup {approver[a].req} /\ faults' = faults + 1
        /\ UNCHANGED <<protection, writes, edit, commits, promo, abandoned, raced>>
    BY <1>5 DEF ApplyPromotionUnanswered
  <2>2. TypeOK'
    <3>1. /\ approver[a].req \in Promos /\ faults + 1 \in 0 .. MaxFaults
          /\ pcommits[approver[a].req] + 1 \in 0 .. MaxCommits
      BY <2>1, FourEyesAssumption DEF TypeOK
    <3> QED
      BY <2>1, <3>1 DEF TypeOK, IdleApprover
  <2>3. Kinds' /\ OneHolder' /\ CommitsFollow' /\ ChecksHold'
    BY <2>1 DEF TypeOK, IdleApprover
  <2>4. PromotionsFollow'
    BY <2>1 DEF TypeOK, IdleApprover
  <2> QED
    BY <2>2, <2>3, <2>4
<1>6. ASSUME NEW a \in Approvers, MarkRequestApplied(a) PROVE ReviewInv'
  <2>1. /\ approver[a].pc = "decide" /\ approver' = [approver EXCEPT ![a] = IdleApprover]
        /\ promo' = [promo EXCEPT ![approver[a].req].st =
                       IF promo[approver[a].req].st = "pending" THEN "applied" ELSE promo[approver[a].req].st]
        /\ UNCHANGED <<protection, writes, edit, commits, pcommits, history>>
    BY <1>6 DEF MarkRequestApplied
  <2>2. TypeOK'
    BY <2>1, SMTT(30) DEF TypeOK, Statuses, IdleApprover, Nobody
  <2>3. Kinds' /\ OneHolder' /\ CommitsFollow' /\ ChecksHold'
    BY <2>1 DEF TypeOK, IdleApprover
  <2>4. PromotionsFollow'
    BY <2>1 DEF TypeOK, IdleApprover
  <2> QED
    BY <2>2, <2>3, <2>4
<1>7. ASSUME NEW p \in Promos, NEW to \in {"rejected", "cancelled"}, DecidePromotion(p, to)
      PROVE  ReviewInv'
  <2>1. /\ promo[p].st = "pending" /\ promo' = [promo EXCEPT ![p].st = to]
        /\ raced' = IF \E a \in Approvers : /\ approver[a].req = p
                                            /\ approver[a].pc \in {"plan", "promote", "decide"}
                    THEN raced \cup {p} ELSE raced
        /\ UNCHANGED <<protection, writes, edit, commits, pcommits, approver, abandoned, doubtful, faults>>
    BY <1>7 DEF DecidePromotion
  <2>2. TypeOK'
    BY <2>1 DEF TypeOK, Statuses
  <2>3. Kinds' /\ OneHolder' /\ CommitsFollow' /\ ChecksHold'
    BY <2>1 DEF TypeOK
  <2>4. PromotionsFollow'
    BY <2>1 DEF TypeOK
  <2> QED
    BY <2>2, <2>3, <2>4
<1>8. ASSUME NEW p \in Promos, NEW u \in Users, CreateRequest(p, u) PROVE ReviewInv'
  <2>1. /\ promo[p].st = "unfiled" /\ promo' = [promo EXCEPT ![p] = [st |-> "pending", by |-> u]]
        /\ UNCHANGED <<protection, writes, edit, commits, pcommits, approver, history>>
    BY <1>8 DEF CreateRequest
  <2>2. TypeOK'
    BY <2>1 DEF TypeOK, Statuses
  <2>3. Kinds' /\ OneHolder' /\ CommitsFollow' /\ ChecksHold'
    BY <2>1 DEF TypeOK
  <2>4. PromotionsFollow'
    BY <2>1 DEF TypeOK
  <2> QED
    BY <2>2, <2>3, <2>4
<1>9. ASSUME NEW a \in Approvers, Abandon(a) PROVE ReviewInv'
  <2>1. /\ approver[a].pc # "idle" /\ faults < MaxFaults /\ faults' = faults + 1
        /\ abandoned' = IF approver[a].pc \in {"claim", "plan"} THEN abandoned
                        ELSE abandoned \cup {approver[a].req}
        /\ approver' = [approver EXCEPT ![a] = IdleApprover]
        /\ UNCHANGED <<protection, writes, edit, commits, promo, pcommits, doubtful, raced>>
    BY <1>9 DEF Abandon
  <2>2. TypeOK'
    <3>1. faults + 1 \in 0 .. MaxFaults
      BY <2>1, FourEyesAssumption DEF TypeOK
    <3>2. approver' \in Approvals
      BY <2>1, Moves
    <3>3. approver[a].pc \notin {"claim", "plan"} => approver[a].req \in Edits \cup Promos
      BY <2>1 DEF TypeOK
    <3>4. abandoned' \subseteq Edits \cup Promos
      BY <2>1, <3>3 DEF TypeOK
    <3> QED
      BY <2>1, <3>1, <3>2, <3>4 DEF TypeOK, Approvals, Places
  <2>3. Kinds' /\ CommitsFollow' /\ ChecksHold'
    BY <2>1 DEF TypeOK, IdleApprover
  <2>4. OneHolder'
    <3>1. /\ \A b \in Approvers : b # a => approver'[b] = approver[b]
          /\ approver'[a].pc = "idle" /\ abandoned \subseteq abandoned'
          /\ approver[a].pc \in Claimed => approver[a].req \in abandoned'
      BY <2>1 DEF TypeOK, IdleApprover
    <3>2. \A b \in Approvers : approver'[b].pc \in Claimed => edit'[approver'[b].req].st = "applying"
      BY <2>1, <3>1 DEF TypeOK
    <3>3. \A b, c \in Approvers :
            approver'[b].pc \in Claimed /\ approver'[c].pc \in Claimed /\ approver'[b].req = approver'[c].req => b = c
      BY <2>1, <3>1
    <3>4. \A q \in Edits : edit'[q].st = "applying" /\ q \notin abandoned' =>
             \E b \in Approvers : approver'[b].pc \in Claimed /\ approver'[b].req = q
      BY <2>1, <3>1
    <3> QED
      BY <3>2, <3>3, <3>4
  <2>5. PromotionsFollow'
    BY <2>1 DEF TypeOK, IdleApprover
  <2> QED
    BY <2>2, <2>3, <2>4, <2>5
<1> QED
  BY <1>1, <1>2, <1>3, <1>4, <1>5, <1>6, <1>7, <1>8, <1>9 DEF PromotionStep, RejectRequest, CancelRequest

\* ReviewInv is inductive.
LEMMA StepInv == ReviewInv /\ [Next]_vars => ReviewInv'
<1> SUFFICES ASSUME ReviewInv, [Next]_vars PROVE ReviewInv'
  OBVIOUS
<1>1. CASE SetRequireApproval \/ SetEnvRequireApproval
  BY <1>1, FlagsStep
<1>2. CASE \E w \in Writers : WriteStep(w) \/ \E u \in Users : BeginWrite(w, u)
  BY <1>2, WritesStep
<1>3. CASE \/ \E a \in Approvers, u \in Users, q \in Edits : BeginApprove(a, q, u)
           \/ \E a \in Approvers : EditStep(a) \/ CommitEditUnanswered(a)
           \/ \E q \in Edits, u \in Users : RejectEdit(q, u) \/ CancelEdit(q, u)
  BY <1>3, EditsStep
<1>4. CASE \/ \E a \in Approvers, u \in Users, p \in Promos : BeginApproveRequest(a, p, u)
           \/ \E a \in Approvers : PromotionStep(a) \/ ApplyPromotionUnanswered(a) \/ Abandon(a)
           \/ \E p \in Promos, u \in Users : CreateRequest(p, u) \/ RejectRequest(p, u) \/ CancelRequest(p, u)
  BY <1>4, PromotionsStep
<1>5. CASE UNCHANGED vars
  BY <1>5 DEF vars, ReviewInv, TypeOK, Kinds, OneHolder, CommitsFollow, PromotionsFollow,
              PromotionDecisionsAgree, ChecksHold, NoDoorSkipsProtection
<1> QED
  BY <1>1, <1>2, <1>3, <1>4, <1>5 DEF Next

\* ReviewInv is an invariant.
LEMMA Invariant == Spec => []ReviewInv
BY InitInv, StepInv, PTL DEF Spec

\* Two-person control keeps its books: an edit request is committed at most once, and
\* exactly then when it is applied, one approval holds it at a time, and a promotion that
\* was rejected or cancelled has written nothing but through an approval it overtook
\* (editreq.Approve, promote.ApproveRequest, the stores' claims).
THEOREM DecisionsHold == Spec => []DecisionsAgree
<1>1. ASSUME ReviewInv PROVE DecisionsAgree
  <2>1. TypeOK /\ EditsAndCommitsAgree /\ PromotionDecisionsAgree
    BY <1>1 DEF ReviewInv, CommitsFollow, EditsAndCommitsAgree, PromotionsFollow
  <2>2. ClaimIsExclusive
    <3> SUFFICES ASSUME NEW q \in Edits
                 PROVE  /\ Cardinality(Holders(q)) <= 1
                        /\ edit[q].st = "applying" => Holders(q) # {} \/ q \in abandoned
      BY DEF ClaimIsExclusive
    <3>1. \A a, b \in Holders(q) : a = b
      BY <1>1 DEF ReviewInv, OneHolder, Holders, Claimed
    <3>2. CASE Holders(q) = {}
      BY <3>2, <1>1, FS_EmptySet DEF ReviewInv, OneHolder, Holders, Claimed
    <3>3. ASSUME NEW a \in Holders(q) PROVE Cardinality(Holders(q)) = 1
      <4>1. Holders(q) = {a}
        BY <3>1, <3>3
      <4> QED
        BY <4>1, FS_Singleton
    <3> QED
      BY <3>2, <3>3
  <2> QED
    BY <2>1, <2>2 DEF DecisionsAgree
<1> QED
  BY <1>1, Invariant, PTL

\* No write path skips protection, whatever the flags do meanwhile (requireApproval).
THEOREM ProtectionHolds == Spec => []NoDoorSkipsProtection
<1>1. ReviewInv => NoDoorSkipsProtection
  BY DEF ReviewInv, ChecksHold
<1> QED
  BY <1>1, Invariant, PTL

\* A decision is final: no later call, nor a late answer to an earlier one, moves a request
\* that was applied, rejected or cancelled.
THEOREM DecisionsStay == Spec => DecisionsAreFinal
<1>1. ReviewInv /\ [Next]_vars =>
        [/\ \A q \in Edits : edit[q].st \in {"applied", "rejected", "cancelled"} => edit'[q] = edit[q]
         /\ \A p \in Promos : promo[p].st \in {"applied", "rejected", "cancelled"} => promo'[p] = promo[p]]_vars
  <2> SUFFICES ASSUME ReviewInv, Next
               PROVE  /\ \A q \in Edits : edit[q].st \in {"applied", "rejected", "cancelled"} => edit'[q] = edit[q]
                      /\ \A p \in Promos : promo[p].st \in {"applied", "rejected", "cancelled"} => promo'[p] = promo[p]
    BY DEF vars
  <2> USE DEF ReviewInv, TypeOK
  <2>1. CASE SetRequireApproval \/ SetEnvRequireApproval
    BY <2>1 DEF SetRequireApproval, SetEnvRequireApproval, SetFlags
  <2>2. CASE \E w \in Writers : WriteStep(w) \/ \E u \in Users : BeginWrite(w, u)
    BY <2>2 DEF WriteStep, CheckConfig, CheckEnvironment, SaveDirectly, SubmitEditRequest, FailWrite, BeginWrite
  <2>3. CASE \E a \in Approvers, u \in Users : \/ \E q \in Edits : BeginApprove(a, q, u)
                                               \/ \E p \in Promos : BeginApproveRequest(a, p, u)
    BY <2>3 DEF BeginApprove, BeginApproveRequest
  <2>4. CASE \E a \in Approvers : EditStep(a)
    BY <2>4 DEF EditStep, ClaimForApply, DecryptProposal, CommitEdit, CommitEditFails, RevertApplying, MarkApplied
  <2>5. CASE \E a \in Approvers : PromotionStep(a)
    BY <2>5 DEF PromotionStep, Plan, ApplyPromotion, ApplyPromotionFails, MarkRequestApplied
  <2>6. CASE \E a \in Approvers : CommitEditUnanswered(a) \/ ApplyPromotionUnanswered(a) \/ Abandon(a)
    BY <2>6 DEF CommitEditUnanswered, ApplyPromotionUnanswered, Abandon
  <2>7. CASE \E q \in Edits, u \in Users : RejectEdit(q, u) \/ CancelEdit(q, u)
    BY <2>7 DEF RejectEdit, CancelEdit, DecideEdit
  <2>8. CASE \E p \in Promos, u \in Users : CreateRequest(p, u) \/ RejectRequest(p, u) \/ CancelRequest(p, u)
    BY <2>8 DEF CreateRequest, RejectRequest, CancelRequest, DecidePromotion
  <2> QED
    BY <2>1, <2>2, <2>3, <2>4, <2>5, <2>6, <2>7, <2>8 DEF Next
<1> QED
  BY <1>1, Invariant, PTL DEF Spec, DecisionsAreFinal

-----------------------------------------------------------------------------
(* Transit: the inductive invariant.                                       *)

\* Records as the model writes them. The flag deletable is kept out of the range, so that
\* the provers treat it as a value like any other.
KeyShape(q) ==
    /\ q \in [id : 0 .. MaxKeys, type : Types \cup {"none"}, latest : Nat, min : Nat, deletable : {q.deletable}]
    /\ q.id # 0 => q.latest \in Versions /\ q.min \in Versions
Materials == [Versions -> 0 .. MaxMaterial]
TransitPlaces == {"idle", "row", "versions", "act", "opened"}
CallShape(r) ==
    /\ r \in [pc : TransitPlaces, op : {r.op}, key : {r.key}, versions : Materials, arg : Nat]
    /\ KeyShape(r.key)
    /\ r.pc \in {"row", "act"} => r.key.id # 0

\* The type invariant, with the requests' records.
TransitTyped ==
    /\ KeyShape(key) /\ key.deletable \in BOOLEAN
    /\ versions \in Materials /\ highest \in Nat /\ slipped \in BOOLEAN
    /\ keys \in 0 .. MaxKeys /\ materials \in 0 .. MaxMaterial /\ issued \subseteq Envelopes
    /\ call = [c \in TransitCalls |-> call[c]]
    /\ \A c \in TransitCalls : CallShape(call[c])

\* Ids are handed out in order, and no request or envelope names one to come.
IdsAreOld ==
    /\ key.id <= keys
    /\ \A c \in TransitCalls : call[c].key.id <= keys
    /\ \A e \in issued : e.id <= keys

\* The floor has been at most highest; unless latest_version slipped back it is the
\* highest number there is, in use, and no floor ever passed it.
LatestHolds ==
    key.id # 0 =>
      /\ 1 <= highest /\ key.min <= highest
      /\ ~slipped => /\ highest <= key.latest /\ versions[key.latest] # 0
                     /\ \A v \in Versions : v > key.latest => versions[v] = 0

\* What a running request has read of the key was true of it: its floor was one, and
\* the numbers and materials it read are still those of the key, or trimmed.
Current(c) == key.id # 0 /\ call[c].key.id = key.id
ReadsHold ==
    \A c \in TransitCalls : Current(c) =>
      /\ call[c].key.min <= highest
      /\ ~slipped => call[c].key.latest <= key.latest
      /\ \A v \in Versions : call[c].versions[v] # 0 =>
            /\ v >= highest => versions[v] # 0
            /\ ~slipped => v <= key.latest /\ versions[v] \in {0, call[c].versions[v]}

\* The same of the envelopes.
EnvelopesHold ==
    \A e \in issued : key.id # 0 /\ e.id = key.id =>
      /\ e.ver >= highest => versions[e.ver] # 0
      /\ ~slipped => e.ver <= key.latest /\ versions[e.ver] \in {0, e.mat}

TransitInv == TransitTyped /\ IdsAreOld /\ LatestHolds /\ ReadsHold /\ EnvelopesHold

\* The invariant has the property.
LEMMA TransitInvImplies == TransitInv => EnvelopesStayOpenable
<1> SUFFICES ASSUME TransitInv PROVE EnvelopesStayOpenable
  OBVIOUS
<1> USE TransitAssumption DEF TransitInv, TransitTyped, KeyShape, Versions, Materials
<1>1. TransitTypeOK
  BY DEF TransitTypeOK, CallShape, TransitPlaces
<1>2. LatestIsUsable
  BY DEF LatestIsUsable, LatestHolds
<1>3. \A e \in issued : e.id # 0
  BY DEF Envelopes
<1>4. VersionsKeepTheirMaterial
  BY <1>3 DEF VersionsKeepTheirMaterial, EnvelopesHold
<1>5. TrimStaysBelowTheFloor
  BY <1>3 DEF TrimStaysBelowTheFloor, EnvelopesHold
<1> QED
  BY <1>1, <1>2, <1>4, <1>5 DEF EnvelopesStayOpenable

\* The record of a request that is not running.
LEMMA IdleCallFits == CallShape(IdleCall) /\ IdleCall.key.id = 0 /\ IdleCall.pc = "idle"
<1>1. NoVersions \in Materials
  BY TransitAssumption DEF NoVersions, Materials
<1>2. KeyShape(NoKey) /\ NoKey.id = 0
  BY TransitAssumption DEF NoKey, KeyShape
<1> QED
  BY <1>1, <1>2 DEF CallShape, IdleCall, TransitPlaces

\* Nothing has been created, read or issued.
LEMMA TransitInitInv == TransitInit => TransitInv
<1> SUFFICES ASSUME TransitInit PROVE TransitInv
  OBVIOUS
<1> USE TransitAssumption DEF TransitInit
<1>1. key = NoKey /\ key.id = 0 /\ KeyShape(key) /\ key.deletable = FALSE
  BY DEF NoKey, KeyShape, Versions, Types
<1>2. versions \in Materials
  BY DEF NoVersions, Materials, Versions
<1>3. \A c \in TransitCalls : call[c] = IdleCall
  OBVIOUS
<1>4. TransitTyped
  <2>1. \A c \in TransitCalls : CallShape(call[c])
    BY <1>3, IdleCallFits
  <2>2. call = [c \in TransitCalls |-> call[c]]
    OBVIOUS
  <2>3. highest \in Nat /\ slipped \in BOOLEAN /\ keys \in 0 .. MaxKeys /\ materials \in 0 .. MaxMaterial
        /\ issued \subseteq Envelopes
    <3>1. slipped \in BOOLEAN
      BY Zenon
    <3> QED
      BY <3>1
  <2> QED
    BY <1>1, <1>2, <2>1, <2>2, <2>3 DEF TransitTyped
<1> QED
  BY <1>1, <1>3, <1>4, IdleCallFits DEF TransitInv, IdsAreOld, LatestHolds, ReadsHold, EnvelopesHold, Current

\* A step that leaves the tables alone and moves one request keeps the invariant if the
\* record the request is left with is right.
LEMMA CallMoves ==
    ASSUME TransitInv, NEW c \in TransitCalls, NEW r, TransitGoto(c, r), CallShape(r),
           UNCHANGED <<key, versions, keys, materials, issued, highest, slipped>>,
           r.key.id <= keys,
           key.id # 0 /\ r.key.id = key.id =>
              /\ r.key.min <= highest
              /\ ~slipped => r.key.latest <= key.latest
              /\ \A v \in Versions : r.versions[v] # 0 =>
                    /\ v >= highest => versions[v] # 0
                    /\ ~slipped => v <= key.latest /\ versions[v] \in {0, r.versions[v]}
    PROVE  TransitInv'
<1> USE DEF TransitInv
<1>1. call' = [d \in TransitCalls |-> IF d = c THEN r ELSE call[d]]
  BY DEF TransitGoto, TransitTyped
<1>2. \A d \in TransitCalls : call'[d] = IF d = c THEN r ELSE call[d]
  BY <1>1
<1> HIDE DEF TransitInv
<1>3. \A d \in TransitCalls : CallShape(call'[d])
  BY <1>2 DEF TransitInv, TransitTyped
<1>4. TransitTyped'
  BY <1>1, <1>2, <1>3 DEF TransitInv, TransitTyped
<1>5. IdsAreOld'
  BY <1>2 DEF TransitInv, IdsAreOld
<1>6. LatestHolds' /\ EnvelopesHold'
  BY DEF TransitInv, LatestHolds, EnvelopesHold
<1>7. ReadsHold'
  BY <1>2 DEF TransitInv, ReadsHold, Current
<1> QED
  BY <1>4, <1>5, <1>6, <1>7 DEF TransitInv

\* A request that ends, whatever it has done to the tables, has nothing read any more.
LEMMA CallEnds ==
    ASSUME TransitInv, NEW c \in TransitCalls, TransitDone(c)
    PROVE  /\ call' = [d \in TransitCalls |-> call'[d]]
           /\ \A d \in TransitCalls : CallShape(call'[d])
           /\ \A d \in TransitCalls : call'[d].key.id <= keys
           /\ \A d \in TransitCalls : call'[d].key.id # 0 => call'[d] = call[d]
<1>1. call' = [d \in TransitCalls |-> IF d = c THEN IdleCall ELSE call[d]]
  BY DEF TransitInv, TransitGoto, TransitDone, TransitTyped
<1>2. \A d \in TransitCalls : call'[d] = IF d = c THEN IdleCall ELSE call[d]
  BY <1>1
<1>3. 0 <= keys
  BY TransitAssumption DEF TransitInv, TransitTyped
<1>4. \A d \in TransitCalls : CallShape(call[d]) /\ call[d].key.id <= keys
  BY DEF TransitInv, TransitTyped, IdsAreOld
<1> HIDE DEF CallShape
<1> QED
  BY <1>1, <1>2, <1>3, <1>4, IdleCallFits

-----------------------------------------------------------------------------
(* Transit: the steps.                                                     *)

\* A new key has an id nobody has read.
LEMMA CreateKeyInv == ASSUME TransitInv, NEW t \in Types, CreateKey(t) PROVE TransitInv'
<1> USE TransitAssumption
<1>0. keys' = keys + 1 /\ materials' = materials + 1 /\ highest' = 1 /\ issued' = issued /\ call' = call
      /\ slipped' = slipped /\ key.id = 0 /\ keys < MaxKeys /\ materials < MaxMaterial
      /\ keys \in Nat /\ materials \in Nat
  BY DEF CreateKey, TransitInv, TransitTyped
<1>1. key'.id = keys + 1 /\ key'.type = t /\ key'.latest = 1 /\ key'.min = 1 /\ key'.deletable = FALSE
      /\ key' = [id |-> keys + 1, type |-> t, latest |-> 1, min |-> 1, deletable |-> FALSE]
  BY DEF CreateKey
<1>2. versions' = [NoVersions EXCEPT ![1] = materials + 1]
  BY DEF CreateKey
<1>3. versions' \in Materials /\ versions'[1] = materials + 1 /\ \A v \in Versions : v > 1 => versions'[v] = 0
  BY <1>0, <1>2 DEF NoVersions, Materials, Versions
<1>4. KeyShape(key')
  BY <1>0, <1>1 DEF KeyShape, Versions
<1>5. TransitTyped'
  BY <1>0, <1>1, <1>3, <1>4 DEF TransitInv, TransitTyped
<1>6. IdsAreOld'
  <2>1. \A c \in TransitCalls : call[c].key.id \in Nat
    <3>1. \A c \in TransitCalls : KeyShape(call[c].key)
      BY DEF TransitInv, TransitTyped, CallShape
    <3>2. \A c \in TransitCalls : call[c].key.id \in 0 .. MaxKeys
      BY <3>1 DEF KeyShape
    <3> QED
      BY <3>2
  <2>2. \A e \in issued : e.id \in Nat
    BY DEF TransitInv, TransitTyped, Envelopes
  <2> QED
    BY <1>0, <1>1, <2>1, <2>2 DEF TransitInv, IdsAreOld
<1>7. LatestHolds'
  BY <1>0, <1>1, <1>3 DEF LatestHolds
<1>8. ReadsHold' /\ EnvelopesHold'
  <2>1. \A c \in TransitCalls : call[c].key.id # key'.id
    BY <1>0, <1>1 DEF TransitInv, IdsAreOld
  <2>2. \A e \in issued : e.id # key'.id
    BY <1>0, <1>1 DEF TransitInv, IdsAreOld
  <2> QED
    BY <1>0, <2>1, <2>2 DEF ReadsHold, EnvelopesHold, Current
<1> QED
  BY <1>5, <1>6, <1>7, <1>8 DEF TransitInv

\* GetByName: what is read is the key's; what a managing request does not use is reset.
LEMMA ReadRowInv ==
    ASSUME TransitInv, NEW c \in TransitCalls, NEW op \in Ops, NEW v \in Versions, ReadRow(c, op, v)
    PROVE  TransitInv'
<1> USE TransitAssumption
<1> DEFINE m == IF op \in {"rotate", "config", "delete"} THEN 1 ELSE key.min
           l == IF op \in {"trim", "delete"} THEN 1 ELSE key.latest
           d == op = "delete" /\ key.deletable
           q == [key EXCEPT !.min = IF op \in {"rotate", "config", "delete"} THEN 1 ELSE @,
                            !.latest = IF op \in {"trim", "delete"} THEN 1 ELSE @,
                            !.deletable = op = "delete" /\ @]
           r == [IdleCall EXCEPT !.pc = IF op \in Manages THEN "act" ELSE "row", !.op = op, !.arg = v, !.key = q]
<1>1. TransitGoto(c, r) /\ UNCHANGED <<key, versions, keys, materials, issued, highest, slipped>> /\ key.id # 0
  BY DEF ReadRow
<1>2. KeyShape(key)
  BY DEF TransitInv, TransitTyped
<1>3. q = [key EXCEPT !.min = m, !.latest = l, !.deletable = d]
  OBVIOUS
<1>4. m \in {1, key.min} /\ l \in {1, key.latest}
  OBVIOUS
<1> HIDE DEF m, l, d, q
<1>5. key \in [id : 0 .. MaxKeys, type : Types \cup {"none"}, latest : Nat, min : Nat, deletable : {key.deletable}]
  BY <1>2 DEF KeyShape
<1>6. m \in Nat /\ l \in Nat
  BY <1>4, <1>5
<1>7. q.id = key.id /\ q.type = key.type /\ q.min \in {1, key.min} /\ q.latest \in {1, key.latest}
      /\ q \in [id : 0 .. MaxKeys, type : Types \cup {"none"}, latest : Nat, min : Nat, deletable : {q.deletable}]
  BY <1>3, <1>4, <1>5, <1>6
<1>8. KeyShape(q)
  BY <1>2, <1>7 DEF KeyShape, Versions
<1>9. NoVersions \in Materials /\ \A w \in Versions : NoVersions[w] = 0
  BY DEF NoVersions, Materials
<1>10. r.key = q /\ r.versions = NoVersions /\ r.pc \in {"act", "row"} /\ r.arg = v
      /\ r \in [pc : TransitPlaces, op : {r.op}, key : {r.key}, versions : Materials, arg : Nat]
  <2> DEFINE p == IF op \in Manages THEN "act" ELSE "row"
  <2>1. p \in {"act", "row"} /\ v \in Nat
    BY DEF Versions
  <2>2. r = [[pc |-> "idle", op |-> "none", key |-> NoKey, versions |-> NoVersions, arg |-> 0]
               EXCEPT !.pc = p, !.op = op, !.arg = v, !.key = q]
    BY DEF IdleCall
  <2> HIDE DEF p, r
  <2> QED
    BY <1>9, <2>1, <2>2 DEF TransitPlaces
<1> HIDE DEF r
<1>11. CallShape(r)
  BY <1>1, <1>7, <1>8, <1>9, <1>10 DEF CallShape, TransitPlaces, Versions
<1>12. q.min <= highest /\ (~slipped => q.latest <= key.latest)
  BY <1>1, <1>2, <1>7 DEF TransitInv, LatestHolds, TransitTyped, KeyShape, Versions
<1>13. q.id <= keys
  BY <1>7 DEF TransitInv, IdsAreOld
<1> QED
  BY <1>1, <1>9, <1>10, <1>11, <1>12, <1>13, CallMoves

\* The versions read are the key's, or none if it is gone.
LEMMA ReadVersionsInv ==
    ASSUME TransitInv, NEW c \in TransitCalls, ReadVersions(c)
    PROVE  TransitInv'
<1> USE TransitAssumption
<1> DEFINE m == IF key.id = call[c].key.id THEN versions ELSE NoVersions
           r == [call[c] EXCEPT !.pc = "act", !.versions = m]
<1>1. TransitGoto(c, r) /\ UNCHANGED <<key, versions, keys, materials, issued, highest, slipped>>
      /\ call[c].pc = "row"
  BY DEF ReadVersions
<1>2. CallShape(call[c]) /\ versions \in Materials
  BY DEF TransitInv, TransitTyped
<1>3. m \in Materials /\ (key.id = call[c].key.id => m = versions)
  BY <1>2 DEF NoVersions, Materials
<1> HIDE DEF m
<1>4. r.key = call[c].key /\ r.versions = m /\ r.pc = "act" /\ r.arg = call[c].arg
      /\ r \in [pc : TransitPlaces, op : {r.op}, key : {r.key}, versions : Materials, arg : Nat]
  BY <1>2, <1>3 DEF CallShape, TransitPlaces
<1> HIDE DEF r
<1>5. CallShape(r)
  BY <1>1, <1>2, <1>3, <1>4 DEF CallShape, TransitPlaces
<1>6. r.key.id <= keys
  BY <1>4 DEF TransitInv, IdsAreOld
<1>7. ASSUME key.id # 0, r.key.id = key.id
      PROVE  /\ r.key.min <= highest
             /\ ~slipped => r.key.latest <= key.latest
             /\ \A v \in Versions : r.versions[v] # 0 =>
                   /\ v >= highest => versions[v] # 0
                   /\ ~slipped => v <= key.latest /\ versions[v] \in {0, r.versions[v]}
  <2>1. r.versions = versions
    BY <1>3, <1>4, <1>7
  <2>2. r.key.min <= highest /\ (~slipped => r.key.latest <= key.latest)
    BY <1>4, <1>7 DEF TransitInv, ReadsHold, Current
  <2>3. ~slipped => \A v \in Versions : versions[v] # 0 => v <= key.latest
    BY <1>7 DEF TransitInv, LatestHolds, Versions, TransitTyped, KeyShape
  <2> QED
    BY <2>1, <2>2, <2>3
<1> QED
  BY <1>1, <1>5, <1>6, <1>7, CallMoves

\* A number is inserted where there is none, and above the latest unless this is the slip.
LEMMA RotateInv ==
    ASSUME TransitInv, NEW c \in TransitCalls, Rotate(c)
    PROVE  TransitInv'
<1> USE TransitAssumption
<1> DEFINE v == call[c].key.latest + 1
<1>1. /\ v \in Versions /\ materials < MaxMaterial /\ materials' = materials + 1
      /\ keys' = keys /\ issued' = issued /\ highest' = highest /\ TransitDone(c)
      /\ call[c].pc = "act"
      /\ slipped' = (slipped \/ (Still(c) /\ versions[v] = 0 /\ v <= key.latest))
  BY DEF Rotate, Acting
<1>2. /\ KeyShape(key) /\ key.deletable \in BOOLEAN /\ versions \in Materials /\ CallShape(call[c])
      /\ materials \in 0 .. MaxMaterial /\ slipped \in BOOLEAN /\ highest \in Nat
  BY DEF TransitInv, TransitTyped
<1>3. call[c].key.latest \in Versions /\ call[c].key.id # 0
  BY <1>1, <1>2 DEF CallShape, KeyShape
<1>4. /\ materials' \in 0 .. MaxMaterial /\ slipped' \in BOOLEAN /\ (slipped => slipped')
  BY <1>1, <1>2
<1>5. CASE Still(c) /\ versions[v] = 0
  <2> HIDE DEF v
  <2>1. versions' = [versions EXCEPT ![v] = materials + 1] /\ key' = [key EXCEPT !.latest = v]
    BY <1>5 DEF Rotate, AppendVersion, v
  <2>2. /\ versions' \in Materials /\ versions'[v] = materials + 1 /\ materials + 1 # 0
        /\ \A w \in Versions : w # v => versions'[w] = versions[w]
    BY <1>1, <1>2, <2>1 DEF Materials
  <2>3. /\ key'.id = key.id /\ key'.latest = v /\ key'.min = key.min /\ key'.deletable = key.deletable
        /\ key'.type = key.type
        /\ key' \in [id : 0 .. MaxKeys, type : Types \cup {"none"}, latest : Nat, min : Nat,
                      deletable : {key'.deletable}]
    BY <1>1, <1>2, <2>1 DEF KeyShape, Versions
  <2>4. KeyShape(key')
    BY <1>1, <1>2, <2>3 DEF KeyShape, Versions
  <2>5. key.id # 0
    BY <1>3, <1>5 DEF Still
  <2>6. ~slipped' => ~slipped /\ v = key.latest + 1
    <3>1. ~slipped => call[c].key.latest <= key.latest
      BY <1>5, <2>5 DEF TransitInv, ReadsHold, Current, Still
    <3>2. key.latest \in Nat /\ call[c].key.latest \in Nat
      BY <1>2, <1>3 DEF KeyShape, Versions
    <3>3. slipped' = (slipped \/ v <= key.latest)
      BY <1>1, <1>5, Zenon DEF v
    <3>4. ~slipped' => ~slipped /\ ~(v <= key.latest)
      BY <3>3, Zenon
    <3> QED
      BY <3>1, <3>2, <3>4 DEF v
  <2>7. /\ highest >= 1 /\ key.min <= highest
        /\ ~slipped => /\ highest <= key.latest /\ versions[key.latest] # 0
                       /\ \A w \in Versions : w > key.latest => versions[w] = 0
    BY <2>5 DEF TransitInv, LatestHolds
  <2>8. TransitTyped'
    BY <1>1, <1>2, <1>4, <2>2, <2>3, <2>4, CallEnds DEF TransitInv, TransitTyped
  <2>9. IdsAreOld'
    BY <1>1, <2>3, CallEnds DEF TransitInv, IdsAreOld
  <2>10. key.latest \in Nat /\ v \in Nat /\ Versions \subseteq Nat
    BY <1>1, <1>2 DEF KeyShape, Versions
  <2>11. LatestHolds'
    <3>1. ~slipped' => highest' <= key'.latest /\ versions'[key'.latest] # 0
      BY <1>1, <1>2, <2>2, <2>3, <2>6, <2>7, <2>10
    <3>2. ~slipped' => \A w \in Versions : w > key'.latest => versions'[w] = 0
      BY <2>2, <2>3, <2>6, <2>7, <2>10
    <3> QED
      BY <1>1, <2>3, <2>7, <3>1, <3>2 DEF LatestHolds
  <2>12. ReadsHold'
    <3> SUFFICES ASSUME NEW d \in TransitCalls, Current(d)'
                 PROVE  /\ call'[d].key.min <= highest'
                        /\ ~slipped' => call'[d].key.latest <= key'.latest
                        /\ \A w \in Versions : call'[d].versions[w] # 0 =>
                              /\ w >= highest' => versions'[w] # 0
                              /\ ~slipped' => w <= key'.latest /\ versions'[w] \in {0, call'[d].versions[w]}
      BY DEF ReadsHold
    <3>1. call'[d] = call[d] /\ Current(d)
      BY <1>1, <2>3, CallEnds DEF Current
    <3>2. CallShape(call[d])
      BY DEF TransitInv, TransitTyped
    <3>3. call[d].key.latest \in Nat
      BY <3>2 DEF CallShape, KeyShape
    <3>4. /\ call[d].key.min <= highest
          /\ ~slipped => call[d].key.latest <= key.latest
          /\ \A w \in Versions : call[d].versions[w] # 0 =>
                /\ w >= highest => versions[w] # 0
                /\ ~slipped => w <= key.latest /\ versions[w] \in {0, call[d].versions[w]}
      BY <3>1 DEF TransitInv, ReadsHold
    <3>5. ASSUME NEW w \in Versions, call[d].versions[w] # 0
          PROVE  /\ w >= highest => versions'[w] # 0
                 /\ ~slipped' => w <= key'.latest /\ versions'[w] \in {0, call[d].versions[w]}
      <4>1. w >= highest => versions'[w] # 0
        BY <2>2, <3>4, <3>5
      <4>2. ~slipped' => w # v /\ w <= key'.latest
        BY <2>3, <2>6, <2>10, <3>4, <3>5
      <4> QED
        BY <2>2, <2>6, <3>4, <3>5, <4>1, <4>2
    <3> QED
      BY <1>1, <2>3, <2>6, <2>10, <3>1, <3>3, <3>4, <3>5
  <2>13. EnvelopesHold'
    <3> SUFFICES ASSUME NEW e \in issued, e.id = key.id
                 PROVE  /\ e.ver >= highest => versions'[e.ver] # 0
                        /\ ~slipped' => e.ver <= key'.latest /\ versions'[e.ver] \in {0, e.mat}
      BY <1>1, <2>3 DEF EnvelopesHold
    <3>1. e.ver \in Versions
      BY DEF TransitInv, TransitTyped, Envelopes
    <3>2. /\ e.ver >= highest => versions[e.ver] # 0
          /\ ~slipped => e.ver <= key.latest /\ versions[e.ver] \in {0, e.mat}
      BY <2>5 DEF TransitInv, EnvelopesHold
    <3>3. ~slipped' => e.ver # v /\ e.ver <= key'.latest
      BY <2>3, <2>6, <2>10, <3>1, <3>2
    <3> QED
      BY <2>2, <2>6, <3>1, <3>2, <3>3
  <2> QED
    BY <2>8, <2>9, <2>11, <2>12, <2>13 DEF TransitInv
<1>6. CASE ~(Still(c) /\ versions[v] = 0)
  <2>1. key' = key /\ versions' = versions /\ slipped' = slipped
    <3>1. key' = key /\ versions' = versions
      BY <1>6 DEF Rotate, AppendVersion
    <3>2. slipped' = slipped
      BY <1>1, <1>2, <1>6
    <3> QED
      BY <3>1, <3>2
  <2>2. TransitTyped'
    BY <1>1, <1>2, <1>4, <2>1, CallEnds DEF TransitInv, TransitTyped
  <2>3. IdsAreOld'
    BY <1>1, <2>1, CallEnds DEF TransitInv, IdsAreOld
  <2>4. LatestHolds' /\ EnvelopesHold'
    BY <1>1, <2>1 DEF TransitInv, LatestHolds, EnvelopesHold
  <2>5. ReadsHold'
    BY <1>1, <2>1, CallEnds DEF TransitInv, ReadsHold, Current
  <2> QED
    BY <2>2, <2>3, <2>4, <2>5 DEF TransitInv
<1> QED
  BY <1>5, <1>6

\* The new floor is at most the latest version read, which is at most the key's.
LEMMA UpdateConfigInv ==
    ASSUME TransitInv, NEW c \in TransitCalls, UpdateConfig(c)
    PROVE  TransitInv'
<1> USE TransitAssumption
<1> DEFINE a == call[c].arg
<1>1. /\ call[c].pc = "act" /\ key.id = call[c].key.id /\ a \in 1 .. call[c].key.latest
      /\ key' = [key EXCEPT !.min = a] /\ highest' = (IF a > highest THEN a ELSE highest)
      /\ TransitDone(c) /\ versions' = versions /\ keys' = keys /\ materials' = materials
      /\ issued' = issued /\ slipped' = slipped
  BY DEF UpdateConfig, Acting, Still
<1>2. KeyShape(key) /\ CallShape(call[c]) /\ highest \in Nat
  BY DEF TransitInv, TransitTyped
<1>3. key.id # 0 /\ Current(c) /\ call[c].key.latest \in Versions /\ key.latest \in Nat
  BY <1>1, <1>2 DEF CallShape, KeyShape, Current
<1>4. a \in Versions
  BY <1>1, <1>3 DEF Versions
<1> HIDE DEF a
<1>5. /\ key'.id = key.id /\ key'.type = key.type /\ key'.latest = key.latest /\ key'.min = a
      /\ key'.deletable = key.deletable
      /\ key' \in [id : 0 .. MaxKeys, type : Types \cup {"none"}, latest : Nat, min : Nat,
                   deletable : {key'.deletable}]
  BY <1>1, <1>2, <1>4 DEF KeyShape, Versions
<1>6. KeyShape(key')
  BY <1>2, <1>4, <1>5 DEF KeyShape
<1>7. highest' \in Nat /\ highest <= highest' /\ a <= highest'
  BY <1>1, <1>2, <1>4 DEF Versions
<1>8. TransitTyped'
  BY <1>1, <1>5, <1>6, <1>7, CallEnds DEF TransitInv, TransitTyped
<1>9. IdsAreOld'
  BY <1>1, <1>5, CallEnds DEF TransitInv, IdsAreOld
<1>10. LatestHolds'
  <2>1. 1 <= highest /\ (~slipped => highest <= key.latest /\ call[c].key.latest <= key.latest)
    BY <1>3 DEF TransitInv, LatestHolds, ReadsHold
  <2>2. 1 <= highest' /\ (~slipped => highest' <= key.latest)
    BY <1>1, <1>2, <1>3, <1>4, <2>1 DEF a, Versions
  <2> QED
    BY <1>1, <1>3, <1>5, <1>7, <2>2 DEF TransitInv, LatestHolds
<1>11. EnvelopesHold'
  <2>1. \A e \in issued : e.ver \in Nat
    BY DEF TransitInv, TransitTyped, Envelopes, Versions
  <2>2. \A e \in issued : e.ver >= highest' => e.ver >= highest
    BY <1>2, <1>7, <2>1
  <2> QED
    BY <1>1, <1>5, <2>2 DEF TransitInv, EnvelopesHold
<1>12. ReadsHold'
  <2>1. \A v \in Versions : v >= highest' => v >= highest
    BY <1>2, <1>7 DEF Versions
  <2>2. \A d \in TransitCalls : Current(d)' => Current(d) /\ call'[d] = call[d]
    BY <1>1, <1>5, CallEnds DEF Current
  <2>3. \A d \in TransitCalls : Current(d) => call[d].key.min <= highest'
    <3>1. \A d \in TransitCalls : Current(d) => call[d].key.min \in Versions /\ call[d].key.min <= highest
      BY DEF TransitInv, TransitTyped, CallShape, KeyShape, Current, ReadsHold
    <3> QED
      BY <1>2, <1>7, <3>1 DEF Versions
  <2> HIDE DEF Current
  <2> QED
    BY <1>1, <1>5, <2>1, <2>2, <2>3 DEF TransitInv, ReadsHold
<1> QED
  BY <1>8, <1>9, <1>10, <1>11, <1>12 DEF TransitInv

\* Only the flag changes.
LEMMA AllowDeletionInv ==
    ASSUME TransitInv, NEW c \in TransitCalls, AllowDeletion(c)
    PROVE  TransitInv'
<1> USE TransitAssumption
<1> DEFINE b == ~key.deletable
<1>0. b \in BOOLEAN
  BY Zenon
<1>1. /\ key' = [key EXCEPT !.deletable = b] /\ highest' = highest
      /\ TransitDone(c) /\ versions' = versions /\ keys' = keys /\ materials' = materials
      /\ issued' = issued /\ slipped' = slipped
  BY DEF AllowDeletion
<1> HIDE DEF b
<1>2. KeyShape(key)
  BY DEF TransitInv, TransitTyped
<1>3. /\ key'.id = key.id /\ key'.type = key.type /\ key'.latest = key.latest /\ key'.min = key.min
      /\ key'.deletable = b
      /\ key' \in [id : 0 .. MaxKeys, type : Types \cup {"none"}, latest : Nat, min : Nat,
                   deletable : {key'.deletable}]
  BY <1>1, <1>2 DEF KeyShape
<1>4. KeyShape(key')
  BY <1>2, <1>3 DEF KeyShape
<1>5. TransitTyped'
  BY <1>0, <1>1, <1>3, <1>4, CallEnds DEF TransitInv, TransitTyped
<1>6. IdsAreOld'
  BY <1>1, <1>3, CallEnds DEF TransitInv, IdsAreOld
<1>7. LatestHolds' /\ EnvelopesHold'
  BY <1>1, <1>3 DEF TransitInv, LatestHolds, EnvelopesHold
<1>8. ReadsHold'
  <2>1. \A d \in TransitCalls : Current(d)' => Current(d) /\ call'[d] = call[d]
    BY <1>1, <1>3, CallEnds DEF Current
  <2> HIDE DEF Current
  <2> QED
    BY <1>1, <1>3, <2>1 DEF TransitInv, ReadsHold
<1> QED
  BY <1>5, <1>6, <1>7, <1>8 DEF TransitInv

\* What is trimmed lay below a floor the key has had.
LEMMA TrimInv ==
    ASSUME TransitInv, NEW c \in TransitCalls, Trim(c)
    PROVE  TransitInv'
<1> USE TransitAssumption
<1>1. /\ call[c].pc = "act" /\ call[c].arg \in 1 .. call[c].key.min
      /\ key' = key /\ highest' = highest
      /\ TransitDone(c) /\ keys' = keys /\ materials' = materials
      /\ issued' = issued /\ slipped' = slipped
  BY DEF Trim, Acting
<1>2. KeyShape(key) /\ CallShape(call[c]) /\ highest \in Nat /\ versions \in Materials
  BY DEF TransitInv, TransitTyped
<1>3. call[c].key.id # 0 /\ call[c].key.min \in Versions
  BY <1>1, <1>2 DEF CallShape, KeyShape
<1>4. /\ versions' \in Materials
      /\ \A v \in Versions : versions'[v] \in {0, versions[v]}
      /\ key.id # 0 => \A v \in Versions : v >= highest => versions'[v] = versions[v]
  <2>1. CASE Still(c)
    <3>1. versions' = [w \in Versions |-> IF w < call[c].arg THEN 0 ELSE versions[w]]
      BY <2>1 DEF Trim, TrimBelow
    <3>2. call[c].arg <= highest
      <4>1. call[c].key.min <= highest
        BY <1>3, <2>1 DEF Still, TransitInv, ReadsHold, Current
      <4> QED
        BY <1>1, <1>2, <1>3, <4>1 DEF Versions
    <3>3. call[c].arg \in Nat
      BY <1>1, <1>3 DEF Versions
    <3>4. versions' \in Materials
      BY <1>2, <3>1 DEF Materials
    <3> QED
      BY <1>2, <3>1, <3>2, <3>3, <3>4 DEF Versions
  <2>2. CASE ~Still(c)
    BY <1>2, <2>2 DEF Trim
  <2> QED
    BY <2>1, <2>2
<1>5. TransitTyped'
  BY <1>1, <1>4, CallEnds DEF TransitInv, TransitTyped
<1>6. IdsAreOld'
  BY <1>1, CallEnds DEF TransitInv, IdsAreOld
<1>7. LatestHolds'
  <2>1. key.id # 0 => key.latest \in Versions /\ Versions \subseteq Nat
    BY <1>2 DEF KeyShape, Versions
  <2> QED
    BY <1>1, <1>2, <1>4, <2>1 DEF TransitInv, LatestHolds
<1>8. EnvelopesHold'
  <2>1. \A e \in issued : e.ver \in Versions
    BY DEF TransitInv, TransitTyped, Envelopes
  <2> QED
    BY <1>1, <1>4, <2>1 DEF TransitInv, EnvelopesHold
<1>9. ReadsHold'
  <2>1. \A d \in TransitCalls : Current(d)' => Current(d) /\ call'[d] = call[d]
    BY <1>1, CallEnds DEF Current
  <2>2. \A d \in TransitCalls : Current(d) => key.id # 0
    BY DEF Current
  <2> HIDE DEF Current
  <2> QED
    BY <1>1, <1>4, <2>1, <2>2 DEF TransitInv, ReadsHold
<1> QED
  BY <1>5, <1>6, <1>7, <1>8, <1>9 DEF TransitInv

\* Of a deleted key nothing is left but what requests have read.
LEMMA DeleteKeyInv ==
    ASSUME TransitInv, NEW c \in TransitCalls, DeleteKey(c)
    PROVE  TransitInv'
<1> USE TransitAssumption
<1>1. /\ key' = NoKey /\ versions' = NoVersions /\ highest' = 0 /\ slipped' = FALSE /\ issued' = {}
      /\ TransitDone(c) /\ keys' = keys /\ materials' = materials
  BY DEF DeleteKey
<1>2. key'.id = 0 /\ KeyShape(key') /\ key'.deletable = FALSE
  BY <1>1 DEF NoKey, KeyShape
<1>3. versions' \in Materials
  BY <1>1 DEF NoVersions, Materials
<1>4. slipped' \in BOOLEAN /\ key'.deletable \in BOOLEAN
  BY <1>1, <1>2, Zenon
<1>5. TransitTyped'
  BY <1>1, <1>2, <1>3, <1>4, CallEnds DEF TransitInv, TransitTyped
<1>6. IdsAreOld'
  BY <1>1, <1>2, CallEnds DEF TransitInv, TransitTyped, IdsAreOld
<1>7. LatestHolds' /\ EnvelopesHold' /\ ReadsHold'
  BY <1>2 DEF LatestHolds, EnvelopesHold, ReadsHold, Current
<1> QED
  BY <1>5, <1>6, <1>7 DEF TransitInv

\* An envelope names what its maker read.
LEMMA MakeInv ==
    ASSUME TransitInv, NEW c \in TransitCalls, NEW op, Make(c, op)
    PROVE  TransitInv'
<1> USE TransitAssumption
<1> DEFINE k == call[c].key
           mat == call[c].versions[k.latest]
           e == [id |-> k.id, ver |-> k.latest, mat |-> mat]
<1>1. /\ call[c].pc = "act" /\ mat # 0 /\ TransitDone(c)
      /\ issued' = (IF Still(c) THEN issued \cup {e} ELSE issued)
      /\ key' = key /\ versions' = versions /\ keys' = keys /\ materials' = materials
      /\ highest' = highest /\ slipped' = slipped
  BY DEF Make, Acting
<1>2. CallShape(call[c]) /\ k.id <= keys /\ keys \in 0 .. MaxKeys
  BY DEF TransitInv, TransitTyped, IdsAreOld
<1>3. k.id \in 1 .. MaxKeys /\ k.latest \in Versions /\ mat \in 1 .. MaxMaterial
  BY <1>1, <1>2 DEF CallShape, KeyShape, Materials
<1>4. e \in Envelopes /\ e.id = k.id /\ e.ver = k.latest /\ e.mat = mat
  BY <1>3 DEF Envelopes
<1>5. TransitTyped'
  <2>1. issued' \subseteq Envelopes
    BY <1>1, <1>4 DEF TransitInv, TransitTyped
  <2> QED
    BY <1>1, <2>1, CallEnds DEF TransitInv, TransitTyped
<1>6. IdsAreOld'
  BY <1>1, <1>2, <1>4, CallEnds DEF TransitInv, IdsAreOld
<1>7. LatestHolds'
  BY <1>1 DEF TransitInv, LatestHolds
<1>8. ReadsHold'
  <2>1. \A d \in TransitCalls : Current(d)' => Current(d) /\ call'[d] = call[d]
    BY <1>1, CallEnds DEF Current
  <2> HIDE DEF Current
  <2> QED
    BY <1>1, <2>1 DEF TransitInv, ReadsHold
<1>9. EnvelopesHold'
  <2>1. key.id # 0 /\ e.id = key.id =>
          /\ e.ver >= highest => versions[e.ver] # 0
          /\ ~slipped => e.ver <= key.latest /\ versions[e.ver] \in {0, e.mat}
    BY <1>1, <1>3, <1>4 DEF TransitInv, ReadsHold, Current
  <2> HIDE DEF e
  <2> QED
    BY <1>1, <2>1 DEF TransitInv, EnvelopesHold
<1> QED
  BY <1>5, <1>6, <1>7, <1>8, <1>9 DEF TransitInv

\* The requests that only read: an envelope opened, a rewrap, a request given up.
LEMMA UseInv ==
    ASSUME TransitInv, NEW c \in TransitCalls
    PROVE  /\ \A op, e : Open(c, op, e) => TransitInv'
           /\ \A e : RewrapOpens(c, e) => TransitInv'
           /\ RewrapReads(c) => TransitInv'
           /\ GiveUp(c) => TransitInv'
<1> USE TransitAssumption
<1>0. keys \in Nat /\ KeyShape(key) /\ key.id <= keys /\ 0 <= keys
  BY DEF TransitInv, TransitTyped, IdsAreOld
<1>1. ASSUME TransitDone(c), UNCHANGED <<key, versions, keys, materials, issued, highest, slipped>>
      PROVE  TransitInv'
  BY <1>0, <1>1, IdleCallFits, CallMoves DEF TransitDone
<1>2. ASSUME NEW e, RewrapOpens(c, e) PROVE TransitInv'
  <2> DEFINE r == [IdleCall EXCEPT !.pc = "opened"]
  <2>1. TransitGoto(c, r) /\ UNCHANGED <<key, versions, keys, materials, issued, highest, slipped>>
    BY <1>2 DEF RewrapOpens
  <2>2. r.pc = "opened" /\ r.key = IdleCall.key
        /\ r \in [pc : TransitPlaces, op : {r.op}, key : {r.key}, versions : Materials, arg : Nat]
    BY IdleCallFits DEF CallShape, TransitPlaces
  <2> HIDE DEF r
  <2>3. CallShape(r) /\ r.key.id = 0
    BY <2>2, IdleCallFits DEF CallShape
  <2> QED
    BY <1>0, <2>1, <2>3, CallMoves
<1>3. ASSUME RewrapReads(c) PROVE TransitInv'
  <2> DEFINE r == [IdleCall EXCEPT !.pc = "row", !.op = "encrypt", !.key = key]
  <2>1. TransitGoto(c, r) /\ UNCHANGED <<key, versions, keys, materials, issued, highest, slipped>> /\ key.id # 0
    BY <1>3 DEF RewrapReads
  <2>2. NoVersions \in Materials /\ \A w \in Versions : NoVersions[w] = 0
    BY DEF NoVersions, Materials
  <2>3. r.pc = "row" /\ r.key = key /\ r.versions = NoVersions
        /\ r \in [pc : TransitPlaces, op : {r.op}, key : {r.key}, versions : Materials, arg : Nat]
    BY <2>2 DEF IdleCall, TransitPlaces
  <2> HIDE DEF r
  <2>4. CallShape(r)
    BY <1>0, <2>1, <2>3 DEF CallShape
  <2>5. key.min <= highest /\ key.latest <= key.latest
    BY <1>0, <2>1 DEF TransitInv, LatestHolds, KeyShape
  <2> QED
    BY <1>0, <2>1, <2>2, <2>3, <2>4, <2>5, CallMoves
<1> QED
  BY <1>1, <1>2, <1>3 DEF Open, GiveUp

\* Every step keeps the invariant.
LEMMA TransitStep == TransitInv /\ [TransitNext]_transitVars => TransitInv'
<1> SUFFICES ASSUME TransitInv, [TransitNext]_transitVars PROVE TransitInv'
  OBVIOUS
<1>1. CASE TransitNext
  BY <1>1, CreateKeyInv, ReadRowInv, ReadVersionsInv, RotateInv, UpdateConfigInv, AllowDeletionInv, TrimInv,
     DeleteKeyInv, MakeInv, UseInv DEF TransitNext
<1>2. CASE UNCHANGED transitVars
  BY <1>2 DEF transitVars, TransitInv, TransitTyped, IdsAreOld, LatestHolds, ReadsHold, EnvelopesHold, Current
<1> QED
  BY <1>1, <1>2

\* However creations, rotations, floors, trims, deletions and uses overlap, a transit key
\* has a latest version to encrypt and sign with, a version number keeps its material, and
\* an envelope made under a version that was never below the floor can still be opened;
\* the first two unless latest_version slipped back (Rotate, Trim and UpdateConfig of
\* transit/lifecycle.go act on a key read before).
THEOREM KeysStayUsable == TransitSpec => []EnvelopesStayOpenable
<1>1. TransitSpec => []TransitInv
  BY TransitInitInv, TransitStep, PTL DEF TransitSpec
<1> QED
  BY <1>1, TransitInvImplies, PTL

-----------------------------------------------------------------------------
(* Audit: the inductive invariant.                                         *)

\* A stored row: as long as its seq, chained by the event it was written for; only its
\* body and its age ever change.
EventFits(row, s) ==
    /\ row \in [prev : Seq(Nat), hash : Seq(Nat), body : Nat, aged : {row.aged}]
    /\ EventOf(row) \in Nat \ {0}
    /\ row.hash = Append(row.prev, EventOf(row))
    /\ Len(row.prev) = s - 1
    /\ row.body \in {Forged, EventOf(row)}

\* The log has no hole, and every row in it continues the one before.
LogFits(r) ==
    /\ r = [s \in Seqs(r) |-> r[s]]
    /\ \E lo \in Nat \ {0}, hi \in Nat : Seqs(r) = lo .. hi
    /\ \A s \in Seqs(r) : EventFits(r[s], s)
    /\ \A s \in Seqs(r) : s - 1 \in Seqs(r) => r[s].prev = r[s - 1].hash

\* A hash the program has read for a seq. As long as no prune has emptied the table it is that
\* of the row, if it is still there, and the next row continues it.
Known(n, h, r, e) ==
    /\ n \in Nat /\ h \in Seq(Nat) /\ Len(h) = n
    /\ ~e => /\ n <= HeadSeq(r)
             /\ n \in Seqs(r) => r[n].hash = h
             /\ n + 1 \in Seqs(r) => r[n + 1].prev = h

\* A checkpoint: its hash covers as many events as its count and its seq say.
AnchorFits(a) ==
    /\ a \in [through : Nat, hash : Seq(Nat), count : Nat, mac : {a.mac}, unsound : {{}}]
    /\ Len(a.hash) = a.through /\ a.count = a.through

Chain ==
    /\ LogFits(rows) /\ born \in Nat /\ altered \in Nat
    /\ altered = 0 => \A s \in Seqs(rows) : rows[s].body = EventOf(rows[s])
    /\ ~emptied => \A s \in Seqs(rows) :
                     s = 1 \/ s - 1 \in Seqs(rows) \/ \E a \in anchors : s - 1 <= a.through

Anchored ==
    /\ \A a \in anchors : /\ AnchorFits(a) /\ a.through >= 1
                          /\ Known(a.through, a.hash, rows, emptied)
                          /\ altered = 0 => a.mac
    /\ \A a, b \in anchors : a.through = b.through => a = b
    /\ anchors # {} => \E a \in anchors : \A b \in anchors : b.through <= a.through

\* The calls under way.
CheckpointFits(k, r, e) ==
    /\ k.at = "hash" => k.seq \in Nat \ {0}
    /\ k.at \in {"anchored", "sound"} => k.seq >= 1 /\ Known(k.seq, k.hash, r, e)
    /\ k.at = "sound" => AnchorFits(k.anchor)
    /\ k.at = "insert" => /\ AnchorFits(k.row) /\ k.row.through >= 1 /\ k.row.mac
                          /\ Known(k.row.through, k.row.hash, r, e)
VerifyFits(k, cs, e, alt) ==
    /\ k.op = "verify" => k.at \in {"walk", "answered"}
    /\ k.at \in {"walk", "answered"} =>
         /\ k \in [op : {"verify"}, anchor : {k.anchor}, at : {"walk", "answered"}, valid : {k.valid},
                   count : {k.count}, hash : {k.hash}]
         /\ AnchorFits(k.anchor)
         /\ alt = 0 => k.anchor \in cs \cup {NoAnchor}
    /\ k.at = "answered" =>
         /\ ~k.valid => alt > 0 \/ e \/ k.anchor # Latest(cs)
         /\ k.valid => k.count = Len(k.hash)

\* What a prune may take as far as the retention floor goes: rows with enough newer ones.
Spares(n, r, ev) ==
    ev > 0 => n < HeadSeq(r) /\ \A s \in Seqs(r) : s <= n => s + ev <= HeadSeq(r)
\* ... and as far as the sink goes.
Shipped(n, ship) == ship # Unbounded => n # Unbounded /\ n <= ship
PruneFits(k, r, cs, m, ev) ==
    /\ k.at \in {"retention", "boundary", "delete", "gone"} =>
         k.ship = Unbounded \/ (k.ship \in Nat \ {0} /\ k.ship <= m)
    /\ k.at \in {"boundary", "delete"} =>
         /\ k.ceiling = Unbounded \/ k.ceiling \in Nat \ {0}
         /\ Shipped(k.ceiling, k.ship)
         /\ ev > 0 => k.ceiling # Unbounded /\ Spares(k.ceiling, r, ev)
    /\ k.at = "delete" => AnchorFits(k.anchor) /\ \E b \in cs : k.anchor.through <= b.through
    /\ k.at = "gone" =>
         /\ k.through \in Nat \ {0} /\ \E b \in cs : k.through <= b.through
         /\ Shipped(k.through, k.ship) /\ Spares(k.through, r, ev)
Calling ==
    /\ acall = [c \in AuditCalls |-> acall[c]]
    /\ \A c \in AuditCalls : /\ CheckpointFits(acall[c], rows, emptied)
                             /\ VerifyFits(acall[c], anchors, emptied, altered)
                             /\ PruneFits(acall[c], rows, anchors, mark, floor.events)

\* The shipper's batch is every row past the mark up to its last one.
BatchFits(b, from, r, e) ==
    /\ \E x \in b : \A y \in b : y.seq <= x.seq
    /\ \A x \in b : x.seq \in Nat
    /\ ~e => \A x \in b : /\ x.seq <= HeadSeq(r)
                          /\ \A s \in Seqs(r) : from < s /\ s <= x.seq =>
                               \E y \in b : y.seq = s /\ y.id = EventOf(r[s])
Shipping ==
    /\ mark \in Nat /\ seeded \in Nat
    /\ shipper \in [at : {"idle", "tail", "send", "advance"}, from : Nat, batch : {shipper.batch}]
    /\ shipper.at # "idle" => shipper.from = mark
    /\ shipper.at \in {"send", "advance"} => BatchFits(shipper.batch, mark, rows, emptied)
    /\ shipper.at = "advance" => \A x \in shipper.batch : x.id \in sent
    /\ ~emptied => mark <= HeadSeq(rows)
Keeping ==
    /\ SinkHasNoGap /\ FloorOutlastsThePrune
    /\ floor.events \in Nat /\ (floor.events > 0 => ~emptied)

AuditInv == Chain /\ Anchored /\ Calling /\ Shipping /\ Keeping

-----------------------------------------------------------------------------
(* Audit: lemmas on the log.                                               *)

LEMMA MaxInterval ==
    ASSUME NEW lo \in Int, NEW hi \in Int, lo <= hi
    PROVE  Max(lo .. hi) = hi /\ Min(lo .. hi) = lo
<1>1. hi \in lo .. hi /\ \A y \in lo .. hi : hi >= y
  OBVIOUS
<1>2. \A x \in lo .. hi : (\A y \in lo .. hi : x >= y) => x = hi
  OBVIOUS
<1>3. lo \in lo .. hi /\ \A y \in lo .. hi : lo <= y
  OBVIOUS
<1>4. \A x \in lo .. hi : (\A y \in lo .. hi : x <= y) => x = lo
  OBVIOUS
<1> QED
  BY <1>1, <1>2, <1>3, <1>4 DEF Max, Min

\* Where the log ends.
LEMMA HeadOf ==
    ASSUME NEW r, LogFits(r)
    PROVE  \E lo \in Nat \ {0}, hi \in Nat :
             /\ Seqs(r) = lo .. hi
             /\ lo <= hi => HeadSeq(r) = hi
             /\ hi < lo => HeadSeq(r) = 0
             /\ hi < lo <=> r = <<>>
<1>1. PICK lo \in Nat \ {0}, hi \in Nat : Seqs(r) = lo .. hi
  BY DEF LogFits
<1>2. CASE lo <= hi
  <2>1. r # <<>>
    BY <1>1, <1>2 DEF Seqs
  <2>2. HeadSeq(r) = hi
    BY <1>1, <1>2, <2>1, MaxInterval DEF HeadSeq
  <2> QED
    BY <1>1, <1>2, <2>1, <2>2
<1>3. CASE hi < lo
  <2>1. Seqs(r) = {}
    BY <1>1, <1>3
  <2>2. r = <<>>
    BY <2>1 DEF LogFits
  <2> QED
    BY <1>1, <1>3, <2>2 DEF HeadSeq
<1> QED
  BY <1>2, <1>3

\* An event's row: what is appended last is the event it was written for.
LEMMA AppendedEvent ==
    ASSUME NEW p \in Seq(Nat), NEW e \in Nat
    PROVE  /\ Append(p, e) \in Seq(Nat) /\ Len(Append(p, e)) = Len(p) + 1
           /\ Append(p, e)[Len(p) + 1] = e
           /\ \A f \in Nat : Append(p, e) = Append(p, f) => e = f
<1>1. Append(p, e) \in Seq(Nat) /\ Len(Append(p, e)) = Len(p) + 1 /\ Append(p, e)[Len(p) + 1] = e
  OBVIOUS
<1>2. \A f \in Nat : Append(p, f)[Len(p) + 1] = f
  OBVIOUS
<1> QED
  BY <1>1, <1>2

LEMMA EventLength ==
    ASSUME NEW row, NEW s \in Nat \ {0}, EventFits(row, s)
    PROVE  /\ row.hash \in Seq(Nat) /\ Len(row.hash) = s /\ row.prev \in Seq(Nat)
           /\ row.body \in Nat /\ EventOf(row) \in Nat
           /\ row.hash = Append(row.prev, row.body) => row.body # Forged
<1>1. /\ row.prev \in Seq(Nat) /\ row.hash \in Seq(Nat) /\ row.body \in Nat
      /\ EventOf(row) \in Nat \ {0} /\ row.hash = Append(row.prev, EventOf(row)) /\ Len(row.prev) = s - 1
  BY DEF EventFits
<1>2. Len(row.hash) = Len(row.prev) + 1
  BY <1>1, AppendedEvent
<1>3. row.hash = Append(row.prev, row.body) => row.body = EventOf(row)
  BY <1>1, AppendedEvent
<1> QED
  BY <1>1, <1>2, <1>3 DEF Forged

\* A walk that meets no break counts the events its hash covers, ends where its count says
\* and meets no changed row.
LEMMA IntactWalk ==
    ASSUME NEW r, LogFits(r), NEW a, AnchorFits(a), NEW through \in Nat, WalkChain(r, a, through).intact
    PROVE  LET w == WalkChain(r, a, through) IN
           /\ w.hash \in Seq(Nat) /\ Len(w.hash) = w.count /\ w.head = w.count /\ w.count \in Nat
           /\ \A s \in Walked(r, a, through) : r[s].body # Forged
<1> DEFINE w == WalkChain(r, a, through)
           seen == Walked(r, a, through)
           top == IF seen = {} THEN a.through ELSE Max(seen)
<1>1. /\ \A s \in seen : LinksAt(r, a, s)
      /\ w.head = top /\ w.hash = (IF seen = {} THEN a.hash ELSE r[top].hash)
      /\ w.count = a.count + Cardinality(seen)
  BY DEF WalkChain
<1>2. a.through \in Nat /\ a.hash \in Seq(Nat) /\ Len(a.hash) = a.through /\ a.count = a.through
  BY DEF AnchorFits
<1>3. PICK lo \in Nat \ {0}, hi \in Nat : Seqs(r) = lo .. hi
  BY DEF LogFits
<1>4. \A s \in seen : s \in Nat \ {0} /\ EventFits(r[s], s) /\ s \in lo .. hi /\ s > a.through
  BY <1>2, <1>3 DEF Walked, LogFits
<1>5. \A s \in seen : r[s].body # Forged
  <2> SUFFICES ASSUME NEW s \in seen PROVE r[s].body # Forged
    OBVIOUS
  <2>1. r[s].hash = Append(r[s].prev, r[s].body)
    BY <1>1 DEF LinksAt
  <2> QED
    BY <1>4, <2>1, EventLength
<1>6. CASE seen = {}
  <2>1. Cardinality(seen) = 0
    BY <1>6, FS_EmptySet
  <2> HIDE DEF w, seen
  <2>2. w.hash = a.hash /\ w.head = a.through /\ w.count = a.through
    BY <1>1, <1>2, <1>6, <2>1
  <2> QED
    BY <1>2, <1>5, <2>2 DEF w, seen
<1>7. CASE seen # {}
  <2> DEFINE from == IF lo > a.through THEN lo ELSE a.through + 1
             to == IF through > 0 /\ through < hi THEN through ELSE hi
  <2>1. seen = from .. to /\ from \in Nat /\ to \in Nat
    BY <1>2, <1>3 DEF Walked
  <2>2. from <= to /\ from \in seen
    BY <1>7, <2>1
  <2>3. from = a.through + 1
    BY <1>1, <1>2, <1>3, <2>2 DEF LinksAt
  <2>4. Max(seen) = to
    BY <2>1, <2>2, MaxInterval
  <2>5. to \in seen
    BY <2>1, <2>2
  <2> HIDE DEF w, seen, to, from
  <2>6. Cardinality(seen) = to - a.through
    <3>1. Cardinality(from .. to) = IF from > to THEN 0 ELSE to - from + 1
      BY <2>1, FS_Interval
    <3> QED
      BY <1>2, <2>1, <2>2, <2>3, <3>1
  <2>7. w.head = to /\ w.hash = r[to].hash /\ w.count = to
    <3>1. w.head = to /\ w.hash = r[to].hash
      BY <1>1, <1>7, <2>4
    <3>2. w.count = a.through + (to - a.through)
      BY <1>1, <1>2, <2>6
    <3> QED
      BY <1>2, <2>1, <3>1, <3>2
  <2>8. r[to].hash \in Seq(Nat) /\ Len(r[to].hash) = to
    BY <1>4, <2>5, EventLength
  <2> QED
    BY <1>5, <2>1, <2>7, <2>8 DEF w, seen
<1> QED
  BY <1>6, <1>7

\* A walk over rows nobody changed, from an anchor their chain continues without a hole, is
\* intact.
LEMMA UnbrokenWalk ==
    ASSUME NEW r, LogFits(r), NEW a, AnchorFits(a),
           \A s \in Seqs(r) : r[s].body = EventOf(r[s]),
           \A s \in Seqs(r) : s - 1 > a.through => s - 1 \in Seqs(r),
           a.through + 1 \in Seqs(r) => r[a.through + 1].prev = a.hash
    PROVE  WalkChain(r, a, 0).intact
<1> SUFFICES ASSUME NEW s \in Walked(r, a, 0) PROVE LinksAt(r, a, s)
  BY DEF WalkChain
<1>1. PICK lo \in Nat \ {0}, hi \in Nat : Seqs(r) = lo .. hi
  BY DEF LogFits
<1>2. a.through \in Nat /\ s \in Seqs(r) /\ s \in Nat /\ s > a.through /\ EventFits(r[s], s)
  BY <1>1 DEF AnchorFits, Walked, LogFits
<1>3. r[s].hash = Append(r[s].prev, r[s].body)
  BY <1>2 DEF EventFits
<1>4. s = a.through + 1 \/ s - 1 \in Seqs(r)
  BY <1>2
<1>5. r[s].prev = IF s = a.through + 1 THEN a.hash ELSE r[s - 1].hash
  BY <1>2, <1>4 DEF LogFits
<1> QED
  BY <1>3, <1>4, <1>5 DEF LinksAt

-----------------------------------------------------------------------------
(* Audit: what happens to the log.                                         *)

\* The rows are rewritten, but none of their hashes.
Touched(r, q) ==
    /\ q = [s \in Seqs(r) |-> q[s]]
    /\ \A s \in Seqs(r) : /\ EventFits(q[s], s) /\ EventOf(q[s]) = EventOf(r[s])
                          /\ q[s].prev = r[s].prev /\ q[s].hash = r[s].hash

LEMMA TouchedLog ==
    ASSUME NEW r, NEW q, LogFits(r), Touched(r, q)
    PROVE  /\ LogFits(q) /\ HeadSeq(q) = HeadSeq(r) /\ Seqs(q) = Seqs(r)
           /\ \A n, h, e : Known(n, h, r, e) => Known(n, h, q, e)
           /\ \A n, ev : Spares(n, r, ev) => Spares(n, q, ev)
<1>1. Seqs(q) = Seqs(r)
  BY DEF Touched, Seqs
<1>2. LogFits(q)
  BY <1>1 DEF LogFits, Touched
<1>3. HeadSeq(q) = HeadSeq(r)
  <2>1. r = <<>> <=> q = <<>>
    BY <1>1, <1>2, HeadOf
  <2> QED
    BY <1>1, <2>1 DEF HeadSeq
<1>4. \A n, h, e : Known(n, h, r, e) => Known(n, h, q, e)
  BY <1>1, <1>3 DEF Known, Touched
<1>5. \A n, ev : Spares(n, r, ev) => Spares(n, q, ev)
  BY <1>1, <1>3 DEF Spares
<1> QED
  BY <1>1, <1>2, <1>3, <1>4, <1>5

\* One row more, at the end.
LEMMA AppendedLog ==
    ASSUME NEW r, LogFits(r), born \in Nat, NEW q, q = Appended(r)
    PROVE  LET head == HeadSeq(r) IN
           /\ LogFits(q) /\ head \in Nat /\ HeadSeq(q) = head + 1
           /\ Seqs(q) = Seqs(r) \cup {head + 1} /\ head + 1 \notin Seqs(r)
           /\ head # 0 => head \in Seqs(r)
           /\ \A s \in Seqs(r) : q[s] = r[s] /\ s \in Nat /\ s <= head
           /\ EventOf(q[head + 1]) = born + 1 /\ q[head + 1].body = born + 1
           /\ q[head + 1].prev = IF head = 0 THEN Genesis ELSE r[head].hash
<1> DEFINE head == HeadSeq(r)
           prev == IF head = 0 THEN Genesis ELSE r[head].hash
           new == [prev |-> prev, hash |-> Append(prev, born + 1), body |-> born + 1, aged |-> FALSE]
<1>1. PICK lo \in Nat \ {0}, hi \in Nat :
         /\ Seqs(r) = lo .. hi
         /\ lo <= hi => head = hi
         /\ hi < lo => head = 0
  BY HeadOf
<1>2. /\ head \in Nat /\ head + 1 \notin Seqs(r)
      /\ head # 0 => head \in Seqs(r)
      /\ \A s \in Seqs(r) : s \in Nat \ {0} /\ s <= head
  BY <1>1
<1>3. q = [s \in Seqs(r) \cup {head + 1} |-> IF s = head + 1 THEN new ELSE r[s]]
  BY DEF Appended
<1> HIDE DEF head, new
<1>4. /\ Seqs(q) = Seqs(r) \cup {head + 1} /\ q[head + 1] = new
      /\ \A s \in Seqs(r) : q[s] = r[s]
      /\ q = [s \in Seqs(q) |-> q[s]]
  BY <1>2, <1>3 DEF Seqs
<1>5. prev \in Seq(Nat) /\ Len(prev) = head
  <2>1. CASE head = 0
    BY <2>1 DEF Genesis
  <2>2. CASE head # 0
    <3>1. EventFits(r[head], head)
      BY <1>2, <2>2 DEF LogFits
    <3> QED
      BY <1>2, <2>2, <3>1, EventLength
  <2> QED
    BY <2>1, <2>2
<1> HIDE DEF prev
<1>6. /\ new.prev = prev /\ new.hash = Append(prev, born + 1) /\ new.body = born + 1
      /\ new \in [prev : {prev}, hash : {new.hash}, body : {born + 1}, aged : {new.aged}]
  BY DEF new
<1>7. new.hash \in Seq(Nat) /\ Len(new.hash) = head + 1 /\ new.hash[head + 1] = born + 1
  BY <1>2, <1>5, <1>6, AppendedEvent
<1>8. EventOf(new) = born + 1
  BY <1>7 DEF EventOf
<1>9. EventFits(new, head + 1)
  <2>1. new \in [prev : Seq(Nat), hash : Seq(Nat), body : Nat, aged : {new.aged}]
    <3>1. Append(prev, born + 1) \in Seq(Nat) /\ born + 1 \in Nat
      BY <1>6, <1>7
    <3> QED
      BY <1>5, <3>1 DEF new
  <2>2. EventOf(new) \in Nat \ {0} /\ new.body \in {Forged, EventOf(new)}
    BY <1>6, <1>8
  <2>3. new.hash = Append(new.prev, EventOf(new)) /\ Len(new.prev) = (head + 1) - 1
    BY <1>2, <1>5, <1>6, <1>8
  <2> QED
    BY <2>1, <2>2, <2>3 DEF EventFits
<1>10. \E l \in Nat \ {0}, h \in Nat : Seqs(q) = l .. h
  <2>1. CASE lo <= hi
    <3>1. Seqs(q) = lo .. (hi + 1) /\ hi + 1 \in Nat
      BY <1>1, <1>4, <2>1
    <3> QED
      BY <3>1
  <2>2. CASE hi < lo
    <3>1. Seqs(q) = 1 .. 1
      BY <1>1, <1>4, <2>2
    <3> QED
      BY <3>1
  <2> QED
    BY <2>1, <2>2
<1>11. \A s \in Seqs(q) : EventFits(q[s], s)
  BY <1>4, <1>9 DEF LogFits
<1>12. \A s \in Seqs(q) : s - 1 \in Seqs(q) => q[s].prev = q[s - 1].hash
  <2> SUFFICES ASSUME NEW s \in Seqs(q), s - 1 \in Seqs(q) PROVE q[s].prev = q[s - 1].hash
    OBVIOUS
  <2>1. CASE s \in Seqs(r)
    <3>1. s - 1 \in Seqs(r)
      BY <1>2, <1>4, <2>1
    <3> QED
      BY <1>4, <2>1, <3>1 DEF LogFits
  <2>2. CASE s = head + 1
    <3>1. s - 1 = head /\ head \in Seqs(r)
      BY <1>2, <1>4, <2>2
    <3>2. prev = r[head].hash
      BY <1>2, <3>1 DEF prev
    <3> QED
      BY <1>4, <1>6, <2>2, <3>1, <3>2
  <2> QED
    BY <1>4, <2>1, <2>2
<1>13. LogFits(q)
  BY <1>4, <1>10, <1>11, <1>12 DEF LogFits
<1>14. HeadSeq(q) = head + 1
  <2>1. PICK l \in Nat \ {0}, h \in Nat :
           /\ Seqs(q) = l .. h
           /\ l <= h => HeadSeq(q) = h
           /\ h < l => HeadSeq(q) = 0
    BY <1>13, HeadOf
  <2>2. head + 1 \in l .. h /\ h \in Seqs(q)
    BY <1>2, <1>4, <2>1
  <2>3. h <= head + 1
    BY <1>2, <1>4, <2>2
  <2> QED
    BY <2>1, <2>2, <2>3
<1> QED
  BY <1>2, <1>4, <1>6, <1>8, <1>13, <1>14 DEF head, prev

LEMMA AppendKeeps ==
    ASSUME NEW r, LogFits(r), born \in Nat, NEW q, q = Appended(r)
    PROVE  /\ \A n, h, e : Known(n, h, r, e) => Known(n, h, q, e)
           /\ \A n \in Nat, ev \in Nat : Spares(n, r, ev) => Spares(n, q, ev)
<1> DEFINE head == HeadSeq(r)
<1>1. /\ head \in Nat /\ HeadSeq(q) = head + 1
      /\ Seqs(q) = Seqs(r) \cup {head + 1} /\ head + 1 \notin Seqs(r)
      /\ head # 0 => head \in Seqs(r)
      /\ \A s \in Seqs(r) : q[s] = r[s] /\ s \in Nat /\ s <= head
      /\ q[head + 1].prev = IF head = 0 THEN Genesis ELSE r[head].hash
  BY AppendedLog
<1> HIDE DEF head
<1>2. ASSUME NEW n, NEW h, NEW e, Known(n, h, r, e) PROVE Known(n, h, q, e)
  <2>1. CASE e
    BY <1>2, <2>1 DEF Known
  <2>2. CASE ~e
    <3>1. /\ n \in Nat /\ h \in Seq(Nat) /\ Len(h) = n /\ n <= head
          /\ n \in Seqs(r) => r[n].hash = h
          /\ n + 1 \in Seqs(r) => r[n + 1].prev = h
      BY <1>2, <2>2 DEF Known, head
    <3>2. n \in Seqs(q) => q[n].hash = h
      BY <1>1, <3>1
    <3>3. n + 1 \in Seqs(q) => q[n + 1].prev = h
      <4>1. CASE n = head /\ head = 0
        <5>1. h = <<>>
          BY <3>1, <4>1
        <5> QED
          BY <1>1, <4>1, <5>1 DEF Genesis
      <4>2. CASE n = head /\ head # 0
        BY <1>1, <3>1, <4>2
      <4>3. CASE n # head
        BY <1>1, <3>1, <4>3
      <4> QED
        BY <4>1, <4>2, <4>3
    <3> QED
      BY <1>1, <3>1, <3>2, <3>3 DEF Known
  <2> QED
    BY <2>1, <2>2
<1>3. ASSUME NEW n \in Nat, NEW ev \in Nat, Spares(n, r, ev) PROVE Spares(n, q, ev)
  <2> SUFFICES ASSUME ev > 0 PROVE n < HeadSeq(q) /\ \A s \in Seqs(q) : s <= n => s + ev <= HeadSeq(q)
    BY DEF Spares
  <2>1. n < head /\ \A s \in Seqs(r) : s <= n => s + ev <= head
    BY <1>3 DEF Spares, head
  <2> QED
    BY <1>1, <2>1
<1> QED
  BY <1>2, <1>3

\* A prefix goes.
LEMMA PrunedLog ==
    ASSUME NEW r, LogFits(r), NEW n \in Nat,
           NEW gone, gone = {s \in Seqs(r) : s <= n},
           NEW q, q = [s \in Seqs(r) \ gone |-> r[s]]
    PROVE  /\ LogFits(q) /\ Seqs(q) = Seqs(r) \ gone
           /\ \A s \in Seqs(q) : q[s] = r[s]
           /\ ~(Seqs(q) = {} /\ gone # {}) =>
                /\ HeadSeq(q) = HeadSeq(r)
                /\ \A m, h, e : Known(m, h, r, e) => Known(m, h, q, e)
                /\ \A m, ev : Spares(m, r, ev) => Spares(m, q, ev)
<1>1. PICK lo \in Nat \ {0}, hi \in Nat : Seqs(r) = lo .. hi
  BY DEF LogFits
<1>2. Seqs(q) = Seqs(r) \ gone /\ (\A s \in Seqs(q) : q[s] = r[s]) /\ q = [s \in Seqs(q) |-> q[s]]
  BY DEF Seqs
<1>3. LogFits(q)
  <2>1. \E l \in Nat \ {0}, h \in Nat : Seqs(q) = l .. h
    <3>1. \A s : s \in Seqs(q) <=> s \in lo .. hi /\ ~(s <= n)
      BY <1>1, <1>2
    <3>2. CASE n < lo
      <4>1. \A s : s \in Seqs(q) <=> s \in lo .. hi
        BY <3>1, <3>2
      <4>2. Seqs(q) = lo .. hi
        BY <4>1
      <4> QED
        BY <4>2
    <3>3. CASE lo <= n
      <4>1. \A s : s \in Seqs(q) <=> s \in (n + 1) .. hi
        BY <3>1, <3>3
      <4>2. Seqs(q) = (n + 1) .. hi
        BY <4>1, Zenon
      <4>3. n + 1 \in Nat \ {0}
        OBVIOUS
      <4> QED
        BY <4>2, <4>3
    <3>4. n < lo \/ lo <= n
      OBVIOUS
    <3> QED
      BY <3>2, <3>3, <3>4
  <2>2. \A s \in Seqs(q) : EventFits(q[s], s) /\ (s - 1 \in Seqs(q) => q[s].prev = q[s - 1].hash)
    BY <1>2 DEF LogFits
  <2> QED
    BY <1>2, <2>1, <2>2 DEF LogFits
<1>4. ASSUME ~(Seqs(q) = {} /\ gone # {}) PROVE HeadSeq(q) = HeadSeq(r)
  <2>1. CASE Seqs(q) = {}
    <3>1. Seqs(r) = {}
      BY <1>2, <1>4, <2>1
    <3>2. r = <<>> /\ q = <<>>
      BY <1>3, <2>1, <3>1, HeadOf
    <3> QED
      BY <3>2
  <2>2. CASE Seqs(q) # {}
    <3>1. PICK l \in Nat \ {0}, h \in Nat :
             /\ Seqs(q) = l .. h
             /\ l <= h => HeadSeq(q) = h
      BY <1>3, HeadOf
    <3>2. HeadSeq(q) = h /\ h \in Seqs(q)
      BY <2>2, <3>1
    <3>3. HeadSeq(r) = hi
      BY <1>1, <1>2, <2>2, MaxInterval, HeadOf
    <3>4. h \in lo .. hi /\ hi > n /\ hi \in Seqs(q)
      BY <1>1, <1>2, <3>2
    <3> QED
      BY <3>1, <3>2, <3>3, <3>4
  <2> QED
    BY <2>1, <2>2
<1>5. ASSUME HeadSeq(q) = HeadSeq(r), NEW m, NEW h, NEW e, Known(m, h, r, e) PROVE Known(m, h, q, e)
  BY <1>2, <1>5 DEF Known
<1>6. ASSUME HeadSeq(q) = HeadSeq(r), NEW m, NEW ev, Spares(m, r, ev) PROVE Spares(m, q, ev)
  BY <1>2, <1>6 DEF Spares
<1> QED
  BY <1>2, <1>3, <1>4, <1>5, <1>6

-----------------------------------------------------------------------------
(* Audit: the calls.                                                       *)

CallFits(k) ==
    /\ CheckpointFits(k, rows, emptied) /\ VerifyFits(k, anchors, emptied, altered)
    /\ PruneFits(k, rows, anchors, mark, floor.events)

\* What a call that is under way relies on survives the step.
Onward ==
    /\ \A n \in Nat : \A h : Known(n, h, rows, emptied) => Known(n, h, rows', emptied')
    /\ \A n \in Nat : Spares(n, rows, floor.events) => Spares(n, rows', floor.events)
    /\ \A b \in anchors : \E d \in anchors' : d.through = b.through
    /\ altered' = 0 => /\ altered = 0
                       /\ \A a \in anchors \cup {NoAnchor} :
                            /\ a \in anchors' \cup {NoAnchor}
                            /\ a # Latest(anchors) => a # Latest(anchors')
    /\ emptied => emptied'
    /\ altered \in Nat /\ altered' \in Nat
    /\ mark \in Nat /\ mark' \in Nat /\ mark <= mark' /\ floor' = floor

LEMMA CallStays ==
    ASSUME NEW k, CallFits(k), Onward
    PROVE  /\ CheckpointFits(k, rows', emptied') /\ VerifyFits(k, anchors', emptied', altered')
           /\ PruneFits(k, rows', anchors', mark', floor'.events)
<1>1. CheckpointFits(k, rows', emptied')
  <2>1. \A n, h : Known(n, h, rows, emptied) => Known(n, h, rows', emptied')
    BY DEF Onward, Known
  <2> QED
    BY <2>1 DEF CallFits, CheckpointFits
<1>2. VerifyFits(k, anchors', emptied', altered')
  <2>1. /\ altered' = 0 => altered = 0
        /\ altered > 0 => altered' > 0
        /\ altered = 0 \/ altered > 0
        /\ emptied => emptied'
    BY DEF Onward
  <2>2. VerifyFits(k, anchors, emptied, altered)
    BY DEF CallFits
  <2>3. CASE altered' = 0
    <3>1. \A a \in anchors \cup {NoAnchor} :
             /\ a \in anchors' \cup {NoAnchor}
             /\ a # Latest(anchors) => a # Latest(anchors')
      BY <2>3 DEF Onward
    <3>2. altered = 0
      BY <2>1, <2>3
    <3> QED
      BY <2>1, <2>2, <2>3, <3>1, <3>2 DEF VerifyFits
  <2>4. CASE altered' # 0
    <3>1. altered' > 0
      BY <2>4 DEF Onward
    <3> QED
      BY <2>2, <2>4, <3>1 DEF VerifyFits
  <2> QED
    BY <2>3, <2>4
<1>3. PruneFits(k, rows', anchors', mark', floor'.events)
  <2>1. PruneFits(k, rows, anchors, mark, floor.events)
    BY DEF CallFits
  <2>2. \A n \in Nat : (\E b \in anchors : n <= b.through) => \E b \in anchors' : n <= b.through
    BY DEF Onward
  <2>3. k.at \in {"retention", "boundary", "delete", "gone"} =>
          k.ship = Unbounded \/ (k.ship \in Nat \ {0} /\ k.ship <= mark')
    BY <2>1 DEF PruneFits, Onward
  <2>4. k.at \in {"boundary", "delete"} =>
          (floor.events > 0 => k.ceiling # Unbounded /\ Spares(k.ceiling, rows', floor.events))
    BY <2>1 DEF PruneFits, Onward
  <2>5. k.at = "delete" => \E b \in anchors' : k.anchor.through <= b.through
    BY <2>1, <2>2 DEF PruneFits, AnchorFits
  <2>6. k.at = "gone" => (\E b \in anchors' : k.through <= b.through) /\ Spares(k.through, rows', floor.events)
    BY <2>1, <2>2 DEF PruneFits, Onward
  <2>7. floor' = floor
    BY DEF Onward
  <2> QED
    BY <2>1, <2>3, <2>4, <2>5, <2>6, <2>7 DEF PruneFits
<1> QED
  BY <1>1, <1>2, <1>3

\* Nobody's call moves, or one does.
LEMMA CallsStay ==
    ASSUME Calling, Onward, acall' = acall
    PROVE  Calling'
<1>1. \A c \in AuditCalls : CallFits(acall[c])
  BY DEF Calling, CallFits
<1>2. \A c \in AuditCalls : /\ CheckpointFits(acall[c], rows', emptied')
                            /\ VerifyFits(acall[c], anchors', emptied', altered')
                            /\ PruneFits(acall[c], rows', anchors', mark', floor'.events)
  BY <1>1, CallStays
<1> QED
  BY <1>2 DEF Calling
LEMMA AuditCallMoves ==
    ASSUME Calling, Onward, NEW c \in AuditCalls, NEW q, acall' = [acall EXCEPT ![c] = q],
           CheckpointFits(q, rows', emptied'), VerifyFits(q, anchors', emptied', altered'),
           PruneFits(q, rows', anchors', mark', floor'.events)
    PROVE  Calling'
<1>1. \A d \in AuditCalls : CallFits(acall[d])
  BY DEF Calling, CallFits
<1>2. \A d \in AuditCalls : /\ CheckpointFits(acall[d], rows', emptied')
                            /\ VerifyFits(acall[d], anchors', emptied', altered')
                            /\ PruneFits(acall[d], rows', anchors', mark', floor'.events)
  BY <1>1, CallStays
<1>3. /\ acall' = [d \in AuditCalls |-> acall'[d]]
      /\ \A d \in AuditCalls : acall'[d] = IF d = c THEN q ELSE acall[d]
  BY DEF Calling
<1>4. \A d \in AuditCalls : /\ CheckpointFits(acall'[d], rows', emptied')
                            /\ VerifyFits(acall'[d], anchors', emptied', altered')
                            /\ PruneFits(acall'[d], rows', anchors', mark', floor'.events)
  BY <1>2, <1>3
<1> QED
  BY <1>3, <1>4 DEF Calling

\* A step of a call that reads only.
Reads == UNCHANGED <<rows, anchors, mark, shipper, floor, born, seeded, sent, lost, cut, emptied, altered>>
LEMMA ReadsKeeps ==
    ASSUME AuditInv, Reads, NEW c \in AuditCalls, NEW q, acall' = [acall EXCEPT ![c] = q], CallFits(q)
    PROVE  AuditInv'
<1>1. Onward
  BY DEF Onward, Reads, AuditInv, Chain, Shipping
<1>2. Calling'
  BY <1>1, AuditCallMoves DEF AuditInv, CallFits, Reads
<1> QED
  BY <1>2 DEF AuditInv, Reads, Chain, Anchored, Shipping, Keeping, SinkHasNoGap, FloorOutlastsThePrune
LEMMA IdleAuditCallFits ==
    ASSUME NEW k, k.at \in {"idle", "record"}, k.op # "verify"
    PROVE  CallFits(k)
BY DEF CallFits, CheckpointFits, VerifyFits, PruneFits

-----------------------------------------------------------------------------
(* Audit: the rows.                                                        *)

\* One more event: a row at the end, which nothing has shipped.
LEMMA AppendGoesOn ==
    ASSUME AuditInv, rows' = Appended(rows), born' = born + 1,
           UNCHANGED <<anchors, mark, shipper, floor, seeded, sent, lost, cut, emptied, altered>>
    PROVE  Onward /\ Chain' /\ Anchored' /\ Shipping' /\ Keeping'
<1> DEFINE head == HeadSeq(rows)
<1>1. LogFits(rows) /\ born \in Nat /\ altered \in Nat /\ floor.events \in Nat /\ mark \in Nat
  BY DEF AuditInv, Chain, Shipping, Keeping
<1>2. /\ LogFits(rows') /\ head \in Nat /\ HeadSeq(rows') = head + 1
      /\ Seqs(rows') = Seqs(rows) \cup {head + 1} /\ head + 1 \notin Seqs(rows)
      /\ head # 0 => head \in Seqs(rows)
      /\ \A s \in Seqs(rows) : rows'[s] = rows[s] /\ s \in Nat /\ s <= head
      /\ EventOf(rows'[head + 1]) = born + 1 /\ rows'[head + 1].body = born + 1
  BY <1>1, AppendedLog
<1>3. /\ \A n, h, e : Known(n, h, rows, e) => Known(n, h, rows', e)
      /\ \A n \in Nat, ev \in Nat : Spares(n, rows, ev) => Spares(n, rows', ev)
  BY <1>1, AppendKeeps
<1> HIDE DEF head
<1>4. Onward
  BY <1>1, <1>3 DEF Onward
<1>5. Chain'
  <2>1. altered' = 0 => \A s \in Seqs(rows') : rows'[s].body = EventOf(rows'[s])
    BY <1>2 DEF AuditInv, Chain
  <2>2. ~emptied' => \A s \in Seqs(rows') :
          s = 1 \/ s - 1 \in Seqs(rows') \/ \E a \in anchors' : s - 1 <= a.through
    <3> SUFFICES ASSUME ~emptied, NEW s \in Seqs(rows')
                 PROVE  s = 1 \/ s - 1 \in Seqs(rows') \/ \E a \in anchors : s - 1 <= a.through
      OBVIOUS
    <3>1. CASE s \in Seqs(rows)
      BY <1>2, <3>1 DEF AuditInv, Chain
    <3>2. CASE s = head + 1
      BY <1>2, <3>2
    <3> QED
      BY <1>2, <3>1, <3>2
  <2>3. born' \in Nat /\ altered' \in Nat
    BY <1>1
  <2> QED
    BY <1>2, <2>1, <2>2, <2>3 DEF Chain
<1>6. Anchored'
  BY <1>3 DEF AuditInv, Anchored
<1>7. mark <= head \/ emptied
  BY DEF AuditInv, Shipping, head
<1>8. Shipping'
  <2>1. \A b : BatchFits(b, mark, rows, emptied) => BatchFits(b, mark, rows', emptied)
    <3> SUFFICES ASSUME NEW b, BatchFits(b, mark, rows, emptied), ~emptied, NEW x \in b
                 PROVE  /\ x.seq <= HeadSeq(rows')
                        /\ \A s \in Seqs(rows') : mark < s /\ s <= x.seq =>
                             \E y \in b : y.seq = s /\ y.id = EventOf(rows'[s])
      BY DEF BatchFits
    <3>1. /\ x.seq \in Nat /\ x.seq <= head
          /\ \A s \in Seqs(rows) : mark < s /\ s <= x.seq =>
               \E y \in b : y.seq = s /\ y.id = EventOf(rows[s])
      BY DEF BatchFits, head
    <3>2. \A s \in Seqs(rows') : s <= x.seq => s \in Seqs(rows)
      BY <1>2, <3>1
    <3> QED
      BY <1>2, <3>1, <3>2
  <2> QED
    BY <1>1, <1>2, <1>7, <2>1 DEF AuditInv, Shipping
<1>9. Keeping'
  <2>1. ~emptied => \A s \in Seqs(rows') : s <= mark => EventOf(rows'[s]) \in sent \cup 1..seeded
    <3> SUFFICES ASSUME ~emptied, NEW s \in Seqs(rows'), s <= mark
                 PROVE  EventOf(rows'[s]) \in sent \cup 1..seeded
      OBVIOUS
    <3>1. s \in Seqs(rows)
      BY <1>1, <1>2, <1>7
    <3> QED
      BY <1>2, <3>1 DEF AuditInv, Keeping, SinkHasNoGap
  <2> QED
    BY <2>1 DEF AuditInv, Keeping, SinkHasNoGap, FloorOutlastsThePrune
<1> QED
  BY <1>4, <1>5, <1>6, <1>8, <1>9
LEMMA RecordKeeps ==
    ASSUME AuditInv, Record
    PROVE  AuditInv'
<1>1. Onward /\ Chain' /\ Anchored' /\ Shipping' /\ Keeping'
  BY AppendGoesOn DEF Record
<1>2. Calling'
  BY <1>1, CallsStay DEF AuditInv, Record
<1> QED
  BY <1>1, <1>2 DEF AuditInv
LEMMA RecordOwnKeeps ==
    ASSUME AuditInv, NEW c \in AuditCalls, RecordOwn(c)
    PROVE  AuditInv'
<1>1. Onward /\ Chain' /\ Anchored' /\ Shipping' /\ Keeping'
  BY AppendGoesOn DEF RecordOwn
<1>2. Calling'
  <2>1. acall' = [acall EXCEPT ![c] = Idle]
    BY DEF RecordOwn, Finished
  <2>2. /\ CheckpointFits(Idle, rows', emptied') /\ VerifyFits(Idle, anchors', emptied', altered')
        /\ PruneFits(Idle, rows', anchors', mark', floor'.events)
    BY DEF Idle, CheckpointFits, VerifyFits, PruneFits
  <2> QED
    BY <1>1, <2>1, <2>2, AuditCallMoves DEF AuditInv
<1> QED
  BY <1>1, <1>2 DEF AuditInv

\* A row's age, or its body, changes.
LEMMA TouchKeeps ==
    ASSUME AuditInv, Touched(rows, rows'), altered' \in Nat, altered' >= altered,
           altered' = 0 => \A s \in Seqs(rows') : rows'[s].body = EventOf(rows'[s]),
           UNCHANGED <<anchors, mark, shipper, floor, acall, born, seeded, sent, lost, cut, emptied>>
    PROVE  AuditInv'
<1>1. LogFits(rows) /\ altered \in Nat /\ mark \in Nat
  BY DEF AuditInv, Chain, Shipping
<1>2. /\ LogFits(rows') /\ HeadSeq(rows') = HeadSeq(rows) /\ Seqs(rows') = Seqs(rows)
      /\ \A n, h, e : Known(n, h, rows, e) => Known(n, h, rows', e)
      /\ \A n, ev : Spares(n, rows, ev) => Spares(n, rows', ev)
  BY <1>1, TouchedLog
<1>3. \A s \in Seqs(rows) : EventOf(rows'[s]) = EventOf(rows[s])
  BY DEF Touched
<1>4. Onward
  BY <1>1, <1>2 DEF Onward
<1>5. Calling'
  BY <1>4, CallsStay DEF AuditInv
<1>6. Chain'
  BY <1>2 DEF AuditInv, Chain
<1>7. Anchored'
  BY <1>1, <1>2 DEF AuditInv, Anchored
<1>8. Shipping'
  <2>1. \A b : BatchFits(b, mark, rows, emptied) => BatchFits(b, mark, rows', emptied)
    BY <1>2, <1>3 DEF BatchFits
  <2> QED
    BY <1>2, <2>1 DEF AuditInv, Shipping
<1>9. Keeping'
  BY <1>2, <1>3 DEF AuditInv, Keeping, SinkHasNoGap, FloorOutlastsThePrune
<1> QED
  BY <1>5, <1>6, <1>7, <1>8, <1>9 DEF AuditInv
LEMMA EventAgesKeeps ==
    ASSUME AuditInv, EventAges
    PROVE  AuditInv'
<1>1. PICK s \in Seqs(rows) : rows' = [rows EXCEPT ![s].aged = TRUE]
  BY DEF EventAges
<1>2. LogFits(rows)
  BY DEF AuditInv, Chain
<1>3. \A t \in Seqs(rows) : EventFits(rows[t], t)
  BY <1>2 DEF LogFits
<1> DEFINE q == [rows[s] EXCEPT !.aged = TRUE]
<1>4. /\ q.prev = rows[s].prev /\ q.hash = rows[s].hash /\ q.body = rows[s].body
      /\ q \in [prev : Seq(Nat), hash : Seq(Nat), body : Nat, aged : {q.aged}]
  BY <1>3 DEF EventFits
<1>5. rows' = [t \in Seqs(rows) |-> IF t = s THEN q ELSE rows[t]]
  BY <1>1, <1>2 DEF LogFits, Seqs
<1> HIDE DEF q
<1>6. EventOf(q) = EventOf(rows[s]) /\ EventFits(q, s)
  BY <1>3, <1>4 DEF EventFits, EventOf
<1>7. Touched(rows, rows') /\ Seqs(rows') = Seqs(rows)
  BY <1>3, <1>4, <1>5, <1>6 DEF Touched, Seqs
<1>8. altered' = 0 => \A t \in Seqs(rows') : rows'[t].body = EventOf(rows'[t])
  BY <1>4, <1>5, <1>6, <1>7 DEF AuditInv, Chain, EventAges, ghosts
<1>9. altered' \in Nat /\ altered' >= altered
  BY DEF AuditInv, Chain, EventAges, ghosts
<1> QED
  BY <1>7, <1>8, <1>9, TouchKeeps DEF EventAges, ghosts

-----------------------------------------------------------------------------
(* Audit: the anchors, verifications and checkpoints.                      *)

LEMMA LatestFits ==
    ASSUME AuditInv
    PROVE  /\ AnchorFits(Latest(anchors)) /\ Latest(anchors) \in anchors \cup {NoAnchor}
           /\ altered = 0 => Latest(anchors).mac
           /\ anchors = {} => Latest(anchors) = NoAnchor
           /\ anchors # {} => Latest(anchors) \in anchors
           /\ \A b \in anchors : b.through <= Latest(anchors).through
<1>1. CASE anchors = {}
  <2>1. Latest(anchors) = NoAnchor
    BY <1>1 DEF Latest
  <2>2. AnchorFits(NoAnchor) /\ NoAnchor.mac
    BY DEF AnchorFits, NoAnchor, Genesis
  <2> QED
    BY <1>1, <2>1, <2>2
<1>2. CASE anchors # {}
  <2>1. \E a \in anchors : \A b \in anchors : b.through <= a.through
    BY <1>2 DEF AuditInv, Anchored
  <2>2. Latest(anchors) \in anchors /\ \A b \in anchors : b.through <= Latest(anchors).through
    BY <1>2, <2>1 DEF Latest
  <2> QED
    BY <1>2, <2>2 DEF AuditInv, Anchored
<1> QED
  BY <1>1, <1>2

\* The alteration of a row or of an anchor.
LEMMA AlterKeeps ==
    ASSUME AuditInv, Alter
    PROVE  AuditInv'
<1>1. altered \in Nat /\ altered' = altered + 1 /\ mark \in Nat /\ LogFits(rows)
  BY DEF AuditInv, Chain, Shipping, Alter
<1>2. UNCHANGED <<mark, shipper, floor, acall, born, seeded, sent, lost, cut, emptied>>
  BY DEF Alter
<1>3. ASSUME NEW s \in Seqs(rows), rows' = [rows EXCEPT ![s].body = Forged], anchors' = anchors
      PROVE  AuditInv'
  <2>1. \A t \in Seqs(rows) : EventFits(rows[t], t)
    BY <1>1 DEF LogFits
  <2> DEFINE q == [rows[s] EXCEPT !.body = Forged]
  <2>2. /\ q.prev = rows[s].prev /\ q.hash = rows[s].hash /\ q.body = Forged /\ q.aged = rows[s].aged
        /\ q \in [prev : Seq(Nat), hash : Seq(Nat), body : Nat, aged : {q.aged}]
    BY <2>1 DEF EventFits, Forged
  <2>3. rows' = [t \in Seqs(rows) |-> IF t = s THEN q ELSE rows[t]]
    BY <1>1, <1>3 DEF LogFits, Seqs
  <2> HIDE DEF q
  <2>4. EventOf(q) = EventOf(rows[s]) /\ EventFits(q, s)
    BY <2>1, <2>2 DEF EventFits, EventOf
  <2>5. Touched(rows, rows')
    BY <2>1, <2>2, <2>3, <2>4 DEF Touched, Seqs
  <2> QED
    BY <1>1, <1>2, <1>3, <2>5, TouchKeeps
<1>4. ASSUME NEW a \in anchors, anchors' = (anchors \ {a}) \cup {[a EXCEPT !.mac = FALSE]}, rows' = rows
      PROVE  AuditInv'
  <2> DEFINE q == [a EXCEPT !.mac = FALSE]
  <2>1. /\ q.through = a.through /\ q.hash = a.hash /\ q.count = a.count /\ q.unsound = a.unsound
        /\ q \in [through : Nat, hash : Seq(Nat), count : Nat, mac : {q.mac}, unsound : {{}}]
        /\ AnchorFits(a) /\ a.through >= 1 /\ Known(a.through, a.hash, rows, emptied)
    BY DEF AuditInv, Anchored, AnchorFits
  <2> HIDE DEF q
  <2>2. anchors' = (anchors \ {a}) \cup {q}
    BY <1>4 DEF q
  <2>3. /\ \A b \in anchors : \E d \in anchors' : d.through = b.through
        /\ \A d \in anchors' : \E b \in anchors : d.through = b.through
    BY <2>1, <2>2
  <2>4. Onward
    BY <1>1, <1>2, <1>4, <2>3 DEF Onward
  <2>5. Calling'
    BY <1>2, <2>4, CallsStay DEF AuditInv
  <2>6. Chain'
    BY <1>1, <1>2, <1>4, <2>3 DEF AuditInv, Chain
  <2>7. Anchored'
    <3>1. AnchorFits(q)
      BY <2>1 DEF AnchorFits
    <3>2. \A d \in anchors' : AnchorFits(d) /\ d.through >= 1 /\ Known(d.through, d.hash, rows, emptied)
      BY <2>1, <2>2, <3>1 DEF AuditInv, Anchored
    <3>3. \A b, d \in anchors' : b.through = d.through => b = d
      BY <2>1, <2>2 DEF AuditInv, Anchored
    <3>4. \E d \in anchors' : \A b \in anchors' : b.through <= d.through
      <4>1. PICK x \in anchors : \A b \in anchors : b.through <= x.through
        BY DEF AuditInv, Anchored
      <4>2. PICK d \in anchors' : d.through = x.through
        BY <2>3
      <4> QED
        BY <2>3, <4>1, <4>2
    <3>5. altered' # 0
      BY <1>1
    <3> QED
      BY <1>2, <1>4, <3>2, <3>3, <3>4, <3>5 DEF Anchored
  <2> QED
    BY <1>1, <1>2, <1>4, <2>5, <2>6, <2>7 DEF AuditInv, Shipping, Keeping, SinkHasNoGap, FloorOutlastsThePrune
<1> QED
  BY <1>3, <1>4 DEF Alter

LEMMA VerifyAnchorKeeps ==
    ASSUME AuditInv, NEW c \in AuditCalls, VerifyAnchor(c)
    PROVE  AuditInv'
<1> DEFINE a == Latest(anchors)
           q == [op |-> "verify", anchor |-> a, at |-> IF a.mac THEN "walk" ELSE "answered",
                 valid |-> FALSE, count |-> 0, hash |-> Genesis]
<1>1. acall' = [acall EXCEPT ![c] = q] /\ Reads
  BY DEF VerifyAnchor, GoesOn, Reads, ghosts
<1>2. AnchorFits(a) /\ a \in anchors \cup {NoAnchor} /\ (altered = 0 => a.mac) /\ altered \in Nat
  BY LatestFits DEF AuditInv, Chain
<1> HIDE DEF a
<1>3. /\ q.op = "verify" /\ q.anchor = a /\ q.valid = FALSE /\ q.at \in {"walk", "answered"}
      /\ q.at = "answered" => ~a.mac
      /\ q \in [op : {"verify"}, anchor : {q.anchor}, at : {"walk", "answered"}, valid : {q.valid},
                count : {q.count}, hash : {q.hash}]
  OBVIOUS
<1> HIDE DEF q
<1>4. CallFits(q)
  BY <1>2, <1>3 DEF CallFits, CheckpointFits, VerifyFits, PruneFits
<1> QED
  BY <1>1, <1>4, ReadsKeeps

LEMMA VerifyWalkKeeps ==
    ASSUME AuditInv, NEW c \in AuditCalls, VerifyWalk(c)
    PROVE  AuditInv'
<1> DEFINE k == acall[c]
           w == WalkChain(rows, k.anchor, 0)
           q == [k EXCEPT !.at = "answered", !.valid = w.intact, !.count = w.count, !.hash = w.hash]
<1>1. acall' = [acall EXCEPT ![c] = q] /\ Reads /\ k.at = "walk"
  BY DEF VerifyWalk, GoesOn, Reads, ghosts
<1>2. VerifyFits(k, anchors, emptied, altered)
  BY DEF AuditInv, Calling
<1>3. /\ k \in [op : {"verify"}, anchor : {k.anchor}, at : {"walk", "answered"}, valid : {k.valid},
                count : {k.count}, hash : {k.hash}]
      /\ AnchorFits(k.anchor)
      /\ altered = 0 => k.anchor \in anchors \cup {NoAnchor}
  BY <1>1, <1>2 DEF VerifyFits
<1>4. LogFits(rows) /\ altered \in Nat
  BY DEF AuditInv, Chain
<1> HIDE DEF k
<1>5. w.intact => w.count = Len(w.hash)
  BY <1>3, <1>4, IntactWalk
<1>6. ~w.intact => altered > 0 \/ emptied \/ k.anchor # Latest(anchors)
  <2> SUFFICES ASSUME altered = 0, ~emptied, k.anchor = Latest(anchors) PROVE w.intact
    BY <1>4
  <2>1. \A s \in Seqs(rows) : rows[s].body = EventOf(rows[s])
    BY DEF AuditInv, Chain
  <2>2. \A s \in Seqs(rows) : s - 1 > k.anchor.through => s - 1 \in Seqs(rows)
    <3> SUFFICES ASSUME NEW s \in Seqs(rows), s - 1 > k.anchor.through, s - 1 \notin Seqs(rows) PROVE FALSE
      OBVIOUS
    <3>1. s \in Nat /\ k.anchor.through \in Nat
      BY <1>3, <1>4 DEF LogFits, AnchorFits
    <3>2. s # 1
      BY <3>1
    <3>3. PICK b \in anchors : s - 1 <= b.through
      BY <3>2 DEF AuditInv, Chain
    <3>4. b.through <= k.anchor.through /\ b.through \in Nat
      BY LatestFits DEF AuditInv, Anchored, AnchorFits
    <3> QED
      BY <3>1, <3>3, <3>4
  <2>3. k.anchor.through + 1 \in Seqs(rows) => rows[k.anchor.through + 1].prev = k.anchor.hash
    <3>1. CASE k.anchor \in anchors
      BY <3>1 DEF AuditInv, Anchored, Known
    <3>2. CASE k.anchor = NoAnchor
      <4>1. k.anchor.through = 0 /\ k.anchor.hash = <<>>
        BY <3>2 DEF NoAnchor, Genesis
      <4>2. 1 \in Seqs(rows) => rows[1].prev \in Seq(Nat) /\ Len(rows[1].prev) = 0
        BY <1>4 DEF LogFits, EventFits
      <4>3. \A p \in Seq(Nat) : Len(p) = 0 => p = <<>>
        OBVIOUS
      <4>4. 1 \in Seqs(rows) => rows[1].prev = <<>>
        BY <4>2, <4>3
      <4> QED
        BY <4>1, <4>4
    <3> QED
      BY <1>3, <3>1, <3>2
  <2> QED
    BY <1>3, <1>4, <2>1, <2>2, <2>3, UnbrokenWalk
<1> HIDE DEF w
<1>7. /\ q.op = "verify" /\ q.anchor = k.anchor /\ q.at = "answered" /\ q.valid = w.intact
      /\ q.count = w.count /\ q.hash = w.hash
  BY <1>3
<1>8. q \in [op : {"verify"}, anchor : {q.anchor}, at : {"walk", "answered"}, valid : {q.valid},
             count : {q.count}, hash : {q.hash}]
  BY <1>3
<1> HIDE DEF q
<1>9. CallFits(q)
  BY <1>3, <1>5, <1>6, <1>7, <1>8 DEF CallFits, CheckpointFits, VerifyFits, PruneFits
<1> QED
  BY <1>1, <1>9, ReadsKeeps

LEMMA CheckpointMaxKeeps ==
    ASSUME AuditInv, NEW c \in AuditCalls, CheckpointMax(c)
    PROVE  AuditInv'
<1> DEFINE q == [op |-> "checkpoint", at |-> "hash", seq |-> HeadSeq(rows)]
<1>1. acall' = [acall EXCEPT ![c] = q] /\ Reads /\ rows # <<>>
  BY DEF CheckpointMax, GoesOn, Reads, ghosts
<1>2. LogFits(rows)
  BY DEF AuditInv, Chain
<1>3. HeadSeq(rows) \in Nat \ {0}
  BY <1>1, <1>2, HeadOf
<1>4. CallFits(q)
  BY <1>3 DEF CallFits, CheckpointFits, VerifyFits, PruneFits
<1> QED
  BY <1>1, <1>4, ReadsKeeps

LEMMA FinishedKeeps ==
    ASSUME AuditInv, NEW c \in AuditCalls, Finished(c), Reads
    PROVE  AuditInv'
<1>1. acall' = [acall EXCEPT ![c] = Idle]
  BY DEF Finished
<1>2. CallFits(Idle)
  BY IdleAuditCallFits DEF Idle
<1> QED
  BY <1>1, <1>2, ReadsKeeps

\* The hash of a row that is in the log is known from then on.
LEMMA KnownFromTheRow ==
    ASSUME AuditInv, NEW n \in Seqs(rows)
    PROVE  n \in Nat \ {0} /\ Known(n, rows[n].hash, rows, emptied)
<1>1. LogFits(rows)
  BY DEF AuditInv, Chain
<1>2. n \in Nat \ {0} /\ n <= HeadSeq(rows) /\ EventFits(rows[n], n)
  <2>1. PICK lo \in Nat \ {0}, hi \in Nat :
          Seqs(rows) = lo .. hi /\ (lo <= hi => HeadSeq(rows) = hi)
    BY <1>1, HeadOf
  <2> QED
    BY <1>1, <2>1 DEF LogFits
<1>3. rows[n].hash \in Seq(Nat) /\ Len(rows[n].hash) = n
  BY <1>2, EventLength
<1>4. n + 1 \in Seqs(rows) => rows[n + 1].prev = rows[n].hash
  BY <1>1, <1>2 DEF LogFits
<1> QED
  BY <1>2, <1>3, <1>4 DEF Known

LEMMA CheckpointHeadKeeps ==
    ASSUME AuditInv, NEW c \in AuditCalls, CheckpointHead(c)
    PROVE  AuditInv'
<1>1. Reads
  BY DEF CheckpointHead, Reads, ghosts
<1>2. CASE Finished(c)
  BY <1>1, <1>2, FinishedKeeps
<1>3. CASE ~Finished(c)
  <2> DEFINE n == acall[c].seq
             q == [op |-> "checkpoint", at |-> "anchored", seq |-> n, hash |-> rows[n].hash]
  <2>1. n \in Seqs(rows) /\ acall' = [acall EXCEPT ![c] = q]
    BY <1>3 DEF CheckpointHead, GoesOn
  <2> HIDE DEF n
  <2>2. n \in Nat \ {0} /\ Known(n, rows[n].hash, rows, emptied)
    BY <2>1, KnownFromTheRow
  <2>3. CallFits(q)
    BY <2>2 DEF CallFits, CheckpointFits, VerifyFits, PruneFits
  <2> QED
    BY <1>1, <2>1, <2>3, ReadsKeeps
<1> QED
  BY <1>2, <1>3

LEMMA CheckpointAnchorKeeps ==
    ASSUME AuditInv, NEW c \in AuditCalls, CheckpointAnchor(c)
    PROVE  AuditInv'
<1>1. Reads
  BY DEF CheckpointAnchor, Reads, ghosts
<1>2. CASE Finished(c)
  BY <1>1, <1>2, FinishedKeeps
<1>3. CASE ~Finished(c)
  <2> DEFINE k == acall[c]
             a == Latest(anchors)
             q == [op |-> "checkpoint", at |-> "sound", seq |-> k.seq, hash |-> k.hash, anchor |-> a]
  <2>1. k.at = "anchored" /\ acall' = [acall EXCEPT ![c] = q]
    BY <1>3 DEF CheckpointAnchor, GoesOn
  <2>2. k.seq >= 1 /\ Known(k.seq, k.hash, rows, emptied)
    BY <2>1 DEF AuditInv, Calling, CheckpointFits
  <2>3. AnchorFits(a)
    BY LatestFits
  <2> HIDE DEF k, a
  <2>4. CallFits(q)
    BY <2>2, <2>3 DEF CallFits, CheckpointFits, VerifyFits, PruneFits
  <2> QED
    BY <1>1, <2>1, <2>4, ReadsKeeps
<1> QED
  BY <1>2, <1>3

LEMMA CheckpointWalkKeeps ==
    ASSUME AuditInv, NEW c \in AuditCalls, CheckpointWalk(c)
    PROVE  AuditInv'
<1>1. Reads
  BY DEF CheckpointWalk, Reads, ghosts
<1>2. CASE Finished(c)
  BY <1>1, <1>2, FinishedKeeps
<1>3. CASE ~Finished(c)
  <2> DEFINE k == acall[c]
             same == k.anchor.through = k.seq
             w == WalkChain(rows, k.anchor, k.seq)
             bad == {s \in Walked(rows, k.anchor, k.seq) : rows[s].body = Forged}
             row == [through |-> k.seq, hash |-> k.hash, mac |-> TRUE,
                     count |-> IF same THEN k.anchor.count ELSE w.count,
                     unsound |-> IF same THEN {} ELSE bad]
             q == [op |-> "checkpoint", at |-> "insert", row |-> row]
  <2>1. /\ k.at = "sound" /\ acall' = [acall EXCEPT ![c] = q]
        /\ same \/ SoundToSign(rows, k.anchor, k.seq, k.hash)
    BY <1>3 DEF CheckpointWalk, GoesOn
  <2>2. k.seq >= 1 /\ Known(k.seq, k.hash, rows, emptied) /\ AnchorFits(k.anchor)
    BY <2>1 DEF AuditInv, Calling, CheckpointFits
  <2>3. k.seq \in Nat /\ k.hash \in Seq(Nat) /\ Len(k.hash) = k.seq
    BY <2>2 DEF Known
  <2>4. LogFits(rows)
    BY DEF AuditInv, Chain
  <2> HIDE DEF k
  <2>5. ~same => w.count = k.seq /\ bad = {}
    <3> SUFFICES ASSUME ~same PROVE w.count = k.seq /\ bad = {}
      OBVIOUS
    <3>1. w.intact /\ w.head = k.seq
      BY <2>1 DEF SoundToSign
    <3>2. w.head = w.count /\ \A s \in Walked(rows, k.anchor, k.seq) : rows[s].body # Forged
      BY <2>2, <2>3, <2>4, <3>1, IntactWalk
    <3> QED
      BY <3>1, <3>2
  <2>6. same => k.anchor.count = k.seq
    BY <2>2 DEF AnchorFits
  <2> HIDE DEF same, w, bad
  <2>7. row = [through |-> k.seq, hash |-> k.hash, mac |-> TRUE, count |-> k.seq, unsound |-> {}]
    BY <2>5, <2>6
  <2> HIDE DEF row
  <2>8. AnchorFits(row) /\ row.through >= 1 /\ row.mac /\ Known(row.through, row.hash, rows, emptied)
    BY <2>2, <2>3, <2>7 DEF AnchorFits
  <2>9. CallFits(q)
    BY <2>8 DEF CallFits, CheckpointFits, VerifyFits, PruneFits
  <2> QED
    BY <1>1, <2>1, <2>9, ReadsKeeps
<1> QED
  BY <1>2, <1>3

LEMMA CheckpointInsertKeeps ==
    ASSUME AuditInv, NEW c \in AuditCalls, CheckpointInsert(c)
    PROVE  AuditInv'
<1> DEFINE row == acall[c].row
           q == [op |-> "checkpoint", at |-> "record"]
<1>1. /\ acall[c].at = "insert"
      /\ UNCHANGED <<rows, mark, shipper, floor, born, seeded, sent, lost, cut, emptied, altered>>
  BY DEF CheckpointInsert, ghosts
<1>2. CASE Finished(c) /\ anchors' = anchors
  BY <1>1, <1>2, FinishedKeeps DEF Reads
<1>3. CASE ~(Finished(c) /\ anchors' = anchors)
  <2>1. /\ \A a \in anchors : a.through # row.through
        /\ anchors' = anchors \cup {row}
        /\ acall' = [acall EXCEPT ![c] = q]
    BY <1>3 DEF CheckpointInsert, GoesOn
  <2>2. /\ AnchorFits(row) /\ row.through >= 1 /\ row.mac
        /\ Known(row.through, row.hash, rows, emptied)
    BY <1>1 DEF AuditInv, Calling, CheckpointFits
  <2> HIDE DEF row
  <2>3. row.through \in Nat /\ \A a \in anchors : AnchorFits(a) /\ a.through >= 1 /\ a.through \in Nat
    BY <2>2 DEF AuditInv, Anchored, AnchorFits
  <2>4. \A a, b \in anchors' : a.through = b.through => a = b
    BY <2>1 DEF AuditInv, Anchored
  <2>5. \E a \in anchors' : \A b \in anchors' : b.through <= a.through
    <3>1. CASE \A b \in anchors : b.through <= row.through
      BY <2>1, <2>3, <3>1
    <3>2. CASE \E b \in anchors : ~(b.through <= row.through)
      <4>1. PICK a \in anchors : \A b \in anchors : b.through <= a.through
        BY <3>2 DEF AuditInv, Anchored
      <4>2. row.through <= a.through
        BY <2>3, <3>2, <4>1
      <4> QED
        BY <2>1, <4>1, <4>2
    <3> QED
      BY <3>1, <3>2
  <2>6. Anchored'
    BY <1>1, <2>1, <2>2, <2>4, <2>5 DEF AuditInv, Anchored
  <2>7. \A a \in anchors \cup {NoAnchor} : a # Latest(anchors) => a # Latest(anchors')
    <3>1. Latest(anchors') \in anchors' /\ \A b \in anchors' : b.through <= Latest(anchors').through
      BY <2>1, <2>5 DEF Latest
    <3> SUFFICES ASSUME NEW a \in anchors \cup {NoAnchor}, a = Latest(anchors') PROVE a = Latest(anchors)
      OBVIOUS
    <3>2. a # NoAnchor
      <4>1. a.through >= 1
        BY <2>1, <2>2, <2>3, <3>1
      <4> QED
        BY <4>1 DEF NoAnchor
    <3>3. a \in anchors /\ \A b \in anchors : b.through <= a.through
      BY <2>1, <3>1, <3>2
    <3>4. Latest(anchors) \in anchors /\ a.through <= Latest(anchors).through
      BY <3>3, LatestFits
    <3>5. a.through = Latest(anchors).through
      BY <2>3, <3>3, <3>4
    <3> QED
      BY <3>3, <3>4, <3>5 DEF AuditInv, Anchored
  <2>8. Onward
    <3>1. \A b \in anchors : \E d \in anchors' : d.through = b.through
      BY <2>1
    <3>2. /\ altered' = 0 => altered = 0
          /\ \A a \in anchors \cup {NoAnchor} : a \in anchors' \cup {NoAnchor}
      BY <1>1, <2>1
    <3>3. altered \in Nat /\ mark \in Nat
      BY DEF AuditInv, Chain, Shipping
    <3> QED
      BY <1>1, <2>7, <3>1, <3>2, <3>3 DEF Onward
  <2>9. Calling'
    <3>1. /\ CheckpointFits(q, rows', emptied') /\ VerifyFits(q, anchors', emptied', altered')
          /\ PruneFits(q, rows', anchors', mark', floor'.events)
      BY DEF CheckpointFits, VerifyFits, PruneFits
    <3> QED
      BY <2>1, <2>8, <3>1, AuditCallMoves DEF AuditInv
  <2>10. Chain'
    BY <1>1, <2>1 DEF AuditInv, Chain
  <2> QED
    BY <1>1, <2>6, <2>9, <2>10 DEF AuditInv, Shipping, Keeping, SinkHasNoGap, FloorOutlastsThePrune
<1> QED
  BY <1>2, <1>3

LEMMA AuditCallEndsKeeps ==
    ASSUME AuditInv, NEW c \in AuditCalls, AuditCallEnds(c)
    PROVE  AuditInv'
BY FinishedKeeps DEF AuditCallEnds, Reads, ghosts

-----------------------------------------------------------------------------
(* Audit: pruning.                                                         *)

\* A set of numbers up to n has a largest one.
LEMMA LargestUpTo ==
    ASSUME NEW n \in Nat, NEW S, S \subseteq 0 .. n, S # {}
    PROVE  \E m \in S : \A x \in S : m >= x
<1> DEFINE T == {n - x : x \in S}
           R == {ss \in Nat \X Nat : ss[1] < ss[2]}
<1>1. \A x \in S : x \in Nat /\ n - x \in Nat
  OBVIOUS
<1>2. T \subseteq Nat /\ T # {}
  BY <1>1
<1>3. IsWellFoundedOn(R, Nat)
  BY NatLessThanWellFounded DEF OpToRel
<1>4. PICK t \in T : \A y \in T : ~ (<<y, t>> \in R)
  <2> HIDE DEF T, R
  <2> QED
    BY <1>2, <1>3, WFMin
<1>5. \A y \in T : ~ (y < t)
  BY <1>2, <1>4
<1>6. PICK m \in S : t = n - m
  BY <1>4
<1>7. \A x \in S : m >= x
  BY <1>1, <1>5, <1>6
<1> QED
  BY <1>7

LEMMA CombinedOf ==
    ASSUME NEW a \in Nat \cup {Unbounded}, NEW b \in Nat \cup {Unbounded}
    PROVE  /\ Combined({a, b}) \in Nat \cup {Unbounded}
           /\ Combined({a, b}) = Unbounded => a = Unbounded /\ b = Unbounded
           /\ Combined({a, b}) # Unbounded => Combined({a, b}) \in {a, b}
           /\ a # Unbounded => Combined({a, b}) <= a
           /\ b # Unbounded => Combined({a, b}) <= b
<1> DEFINE on == {a, b} \ {Unbounded}
<1>1. Unbounded \notin Nat
  BY DEF Unbounded
<1>2. CASE on = {}
  BY <1>2 DEF Combined
<1>3. CASE on # {}
  <2>1. \E x \in on : \A y \in on : x <= y
    BY <1>3
  <2>2. Min(on) \in on /\ \A y \in on : Min(on) <= y
    BY <2>1 DEF Min
  <2>3. Combined({a, b}) = Min(on)
    BY <1>3 DEF Combined
  <2> HIDE DEF on
  <2>4. Min(on) \in Nat /\ Min(on) # Unbounded /\ Min(on) \in {a, b}
    BY <1>1, <2>2 DEF on
  <2>5. /\ a # Unbounded => Min(on) <= a
        /\ b # Unbounded => Min(on) <= b
    BY <2>2 DEF on
  <2> QED
    BY <2>3, <2>4, <2>5
<1> HIDE DEF on
<1> QED
  BY <1>2, <1>3

\* The newest rows are those with few rows above them.
LEMMA NewestOf ==
    ASSUME NEW r, LogFits(r), NEW n \in Nat, NEW s \in Seqs(r)
    PROVE  /\ s \in Nat /\ HeadSeq(r) \in Seqs(r) /\ s <= HeadSeq(r)
           /\ s \in Newest(r, n) <=> HeadSeq(r) < s + n
<1>1. PICK lo \in Nat \ {0}, hi \in Nat : Seqs(r) = lo .. hi /\ (lo <= hi => HeadSeq(r) = hi)
  BY HeadOf
<1>2. s \in Nat /\ lo <= hi /\ HeadSeq(r) = hi /\ hi \in Seqs(r) /\ s <= hi
  BY <1>1
<1>3. {t \in Seqs(r) : t > s} = (s + 1) .. hi
  BY <1>1, <1>2
<1>4. Cardinality((s + 1) .. hi) = hi - s
  <2>1. Cardinality((s + 1) .. hi) = IF s + 1 > hi THEN 0 ELSE hi - (s + 1) + 1
    BY <1>2, FS_Interval
  <2> QED
    BY <1>2, <2>1
<1>5. s \in Newest(r, n) <=> Cardinality({t \in Seqs(r) : t > s}) < n
  BY DEF Newest
<1>6. s \in Newest(r, n) <=> hi - s < n
  BY <1>3, <1>4, <1>5
<1> QED
  BY <1>2, <1>6

\* What the retention floor allows to go spares the newest rows; and so does less.
LEMMA FloorSpares ==
    ASSUME NEW r, LogFits(r), NEW n \in Nat \ {0}
    PROVE  /\ SeqRetainingNewest(r, n) \in Nat
           /\ SeqRetainingNewest(r, n) # 0 => Spares(SeqRetainingNewest(r, n), r, n)
<1> DEFINE keep == Newest(r, n)
           least == SeqRetainingNewest(r, n)
<1>1. CASE keep = {}
  BY <1>1 DEF SeqRetainingNewest
<1>2. CASE keep # {}
  <2>1. PICK lo \in Nat \ {0}, hi \in Nat : Seqs(r) = lo .. hi
    BY DEF LogFits
  <2>2. keep \subseteq Seqs(r)
    BY DEF Newest
  <2>3. HeadSeq(r) = hi /\ hi \in Seqs(r) /\ \A s \in Seqs(r) : s \in keep <=> hi < s + n
    <3>1. PICK s \in Seqs(r) : s \in keep
      BY <1>2, <2>2
    <3>2. lo <= hi /\ hi \in Seqs(r)
      BY <2>1, <3>1
    <3>3. HeadSeq(r) = hi
      BY <2>1, <3>2, HeadOf, MaxInterval DEF HeadSeq, Seqs
    <3> QED
      BY <3>2, <3>3, NewestOf
  <2> DEFINE from == IF lo + n > hi + 1 THEN lo ELSE (hi + 1) - n
  <2>4. from \in keep /\ \A s \in keep : from <= s
    <3>1. from \in Int /\ lo <= from /\ from <= hi
      BY <2>1, <2>3
    <3>2. from \in Seqs(r)
      BY <2>1, <3>1
    <3>3. hi < from + n
      OBVIOUS
    <3>4. from \in keep
      BY <2>3, <3>2, <3>3
    <3> HIDE DEF keep
    <3>5. \A s \in keep : s \in Seqs(r) /\ hi < s + n
      BY <2>2, <2>3
    <3> QED
      BY <2>1, <3>4, <3>5
  <2>5. Min(keep) \in keep /\ \A s \in keep : Min(keep) <= s
    <3> HIDE DEF keep, from
    <3> QED
      BY <2>4 DEF Min
  <2>6. Min(keep) \in lo .. hi /\ least = IF Min(keep) <= 1 THEN 0 ELSE Min(keep) - 1
    BY <1>2, <2>1, <2>2, <2>5 DEF SeqRetainingNewest
  <2> HIDE DEF keep, least, from
  <2>7. \A s \in Seqs(r) : s < Min(keep) => s + n <= hi
    BY <2>1, <2>3, <2>5, <2>6
  <2>8. least \in Nat
    BY <2>6
  <2>9. least # 0 => least < hi /\ least < Min(keep)
    BY <2>6
  <2>10. least # 0 => \A s \in Seqs(r) : s <= least => s + n <= hi
    BY <2>1, <2>6, <2>7, <2>8, <2>9
  <2>11. least # 0 => Spares(least, r, n)
    BY <2>3, <2>9, <2>10 DEF Spares
  <2> QED
    BY <2>8, <2>11 DEF least
<1> QED
  BY <1>1, <1>2
LEMMA LessSpares ==
    ASSUME NEW r, LogFits(r), NEW ev, NEW m \in Nat, NEW n \in Nat, n <= m, Spares(m, r, ev)
    PROVE  Spares(n, r, ev)
<1> SUFFICES ASSUME ev > 0 PROVE n < HeadSeq(r) /\ \A s \in Seqs(r) : s <= n => s + ev <= HeadSeq(r)
  BY DEF Spares
<1>1. m < HeadSeq(r) /\ \A s \in Seqs(r) : s <= m => s + ev <= HeadSeq(r)
  BY DEF Spares
<1>2. HeadSeq(r) \in Nat /\ \A s \in Seqs(r) : s \in Nat
  BY HeadOf
<1> QED
  BY <1>1, <1>2

LEMMA PruneShipCeilingKeeps ==
    ASSUME AuditInv, NEW c \in AuditCalls, PruneShipCeiling(c)
    PROVE  AuditInv'
<1> DEFINE ship == IF mark <= 0 THEN Unbounded ELSE mark
           q == [op |-> "prune", at |-> "retention", ship |-> ship]
<1>1. acall' = [acall EXCEPT ![c] = q] /\ Reads
  BY DEF PruneShipCeiling, GoesOn, Reads, ghosts
<1>2. ship = Unbounded \/ (ship \in Nat \ {0} /\ ship <= mark)
  BY DEF AuditInv, Shipping
<1> HIDE DEF ship
<1>3. CallFits(q)
  BY <1>2 DEF CallFits, CheckpointFits, VerifyFits, PruneFits
<1> QED
  BY <1>1, <1>3, ReadsKeeps

LEMMA PruneRetentionKeeps ==
    ASSUME AuditInv, NEW c \in AuditCalls, PruneRetention(c)
    PROVE  AuditInv'
<1>1. Reads
  BY DEF PruneRetention, Reads, ghosts
<1>2. CASE Finished(c)
  BY <1>1, <1>2, FinishedKeeps
<1>3. CASE ~Finished(c)
  <2> DEFINE ship == acall[c].ship
             ev == floor.events
             days == IF floor.days THEN SeqOlderThanDays(rows) ELSE Unbounded
             keep == IF ev > 0 THEN SeqRetainingNewest(rows, ev) ELSE Unbounded
             retention == Combined({days, keep})
             ceiling == Combined({ship, retention})
             q == [op |-> "prune", at |-> "boundary", ship |-> ship, ceiling |-> ceiling]
  <2>1. acall[c].at = "retention" /\ retention # 0 /\ acall' = [acall EXCEPT ![c] = q]
    BY <1>3 DEF PruneRetention, GoesOn
  <2>2. ship = Unbounded \/ (ship \in Nat \ {0} /\ ship <= mark)
    BY <2>1 DEF AuditInv, Calling, PruneFits
  <2>3. LogFits(rows) /\ ev \in Nat
    BY DEF AuditInv, Chain, Keeping
  <2>4. days \in Nat \cup {Unbounded}
    <3> DEFINE old == {s \in Seqs(rows) : rows[s].aged}
    <3>1. CASE old = {}
      BY <3>1 DEF SeqOlderThanDays
    <3>2. CASE old # {}
      <4>1. PICK lo \in Nat \ {0}, hi \in Nat : Seqs(rows) = lo .. hi
        BY <2>3 DEF LogFits
      <4>2. old \subseteq 0 .. hi /\ \E x \in old : \A y \in old : x >= y
        <5>1. old \subseteq 0 .. hi
          BY <4>1
        <5> HIDE DEF old
        <5> QED
          BY <3>2, <5>1, LargestUpTo
      <4>3. Max(old) \in old
        <5> HIDE DEF old
        <5> QED
          BY <4>2 DEF Max
      <4> QED
        BY <3>2, <4>2, <4>3 DEF SeqOlderThanDays
    <3> QED
      BY <3>1, <3>2
  <2>5. /\ keep \in Nat \cup {Unbounded}
        /\ ev > 0 => keep \in Nat /\ (keep # 0 => Spares(keep, rows, ev))
    BY <2>3, FloorSpares
  <2> HIDE DEF ship, ev, days, keep
  <2>6. /\ retention \in Nat \cup {Unbounded} /\ retention # 0
        /\ keep # Unbounded => retention # Unbounded /\ retention <= keep
    BY <2>1, <2>4, <2>5, CombinedOf
  <2>7. Unbounded \notin Nat
    BY DEF Unbounded
  <2> HIDE DEF retention
  <2>8. /\ ceiling = Unbounded \/ ceiling \in Nat \ {0}
        /\ ship # Unbounded => ceiling # Unbounded /\ ceiling <= ship
        /\ retention # Unbounded => ceiling # Unbounded /\ ceiling <= retention
    <3>1. ship \in Nat \cup {Unbounded}
      BY <2>2
    <3>2. /\ ceiling \in Nat \cup {Unbounded}
          /\ ceiling # Unbounded => ceiling \in {ship, retention}
          /\ ceiling = Unbounded => ship = Unbounded /\ retention = Unbounded
          /\ ship # Unbounded => ceiling <= ship
          /\ retention # Unbounded => ceiling <= retention
      BY <2>6, <3>1, CombinedOf
    <3> HIDE DEF ceiling
    <3> QED
      BY <2>2, <2>6, <2>7, <3>2
  <2> HIDE DEF ceiling
  <2>9. ev > 0 => ceiling # Unbounded /\ Spares(ceiling, rows, ev)
    <3> SUFFICES ASSUME ev > 0 PROVE ceiling # Unbounded /\ Spares(ceiling, rows, ev)
      OBVIOUS
    <3>1. keep \in Nat /\ keep # Unbounded /\ retention # Unbounded /\ retention <= keep
      BY <2>5, <2>6, <2>7
    <3>2. retention \in Nat /\ ceiling \in Nat /\ ceiling <= retention
      BY <2>6, <2>8, <3>1
    <3>3. keep # 0 /\ ceiling <= keep
      BY <2>6, <3>1, <3>2
    <3>4. Spares(keep, rows, ev)
      BY <2>5, <3>3
    <3> QED
      BY <2>3, <2>8, <3>1, <3>2, <3>3, <3>4, LessSpares
  <2>10. Shipped(ceiling, ship)
    BY <2>8 DEF Shipped
  <2>11. CallFits(q)
    BY <2>2, <2>8, <2>9, <2>10 DEF CallFits, CheckpointFits, VerifyFits, PruneFits, ev
  <2> QED
    BY <1>1, <2>1, <2>11, ReadsKeeps DEF ship
<1> QED
  BY <1>2, <1>3

LEMMA PruneAnchorKeeps ==
    ASSUME AuditInv, NEW c \in AuditCalls, PruneAnchor(c)
    PROVE  AuditInv'
<1>1. Reads
  BY DEF PruneAnchor, Reads, ghosts
<1>2. CASE Finished(c)
  BY <1>1, <1>2, FinishedKeeps
<1>3. CASE ~Finished(c)
  <2> DEFINE k == acall[c]
             a == Latest(anchors)
             q == [op |-> "prune", at |-> "delete", anchor |-> a, ship |-> k.ship, ceiling |-> k.ceiling]
  <2>1. k.at = "boundary" /\ anchors # {} /\ acall' = [acall EXCEPT ![c] = q]
    BY <1>3 DEF PruneAnchor, GoesOn
  <2>2. PruneFits(k, rows, anchors, mark, floor.events)
    BY DEF AuditInv, Calling
  <2>3. AnchorFits(a) /\ a \in anchors
    BY <2>1, LatestFits
  <2>4. a.through <= a.through
    BY <2>3 DEF AnchorFits
  <2> HIDE DEF k, a
  <2>5. PruneFits(q, rows, anchors, mark, floor.events)
    BY <2>1, <2>2, <2>3, <2>4 DEF PruneFits
  <2>6. CallFits(q)
    BY <2>5 DEF CallFits, CheckpointFits, VerifyFits
  <2> QED
    BY <1>1, <2>1, <2>6, ReadsKeeps DEF k
<1> QED
  BY <1>2, <1>3

LEMMA PruneBoundaryKeeps ==
    ASSUME AuditInv, NEW c \in AuditCalls, PruneBoundary(c)
    PROVE  AuditInv'
<1>1. Reads
  BY DEF PruneBoundary, Reads, ghosts
<1>2. CASE Finished(c)
  BY <1>1, <1>2, FinishedKeeps
<1>3. CASE ~Finished(c)
  <2> DEFINE k == acall[c]
             ev == floor.events
             through == Clamp(k.anchor, k.ceiling)
             q == [op |-> "prune", at |-> "gone", through |-> through, ship |-> k.ship]
  <2>1. k.at = "delete" /\ through >= 1 /\ acall' = [acall EXCEPT ![c] = q]
    BY <1>3 DEF PruneBoundary, GoesOn
  <2>2. PruneFits(k, rows, anchors, mark, ev)
    BY DEF AuditInv, Calling
  <2>3. LogFits(rows) /\ Unbounded = -1
    BY DEF AuditInv, Chain, Unbounded
  <2> HIDE DEF k, ev
  <2>4. /\ k.ship = Unbounded \/ (k.ship \in Nat \ {0} /\ k.ship <= mark)
        /\ k.ceiling = Unbounded \/ k.ceiling \in Nat \ {0}
        /\ Shipped(k.ceiling, k.ship)
        /\ ev > 0 => k.ceiling # Unbounded /\ Spares(k.ceiling, rows, ev)
        /\ AnchorFits(k.anchor) /\ \E b \in anchors : k.anchor.through <= b.through
    BY <2>1, <2>2 DEF PruneFits
  <2>5. PICK b \in anchors : k.anchor.through <= b.through
    BY <2>4
  <2>6. k.anchor.through \in Nat /\ b.through \in Nat
    BY <2>4 DEF AnchorFits, AuditInv, Anchored
  <2>7. /\ through \in Nat /\ through <= k.anchor.through
        /\ k.ceiling # Unbounded => k.ceiling \in Nat /\ through <= k.ceiling
    BY <2>3, <2>4, <2>6 DEF Clamp
  <2> HIDE DEF through
  <2>8. Shipped(through, k.ship)
    <3> SUFFICES ASSUME k.ship # Unbounded PROVE through # Unbounded /\ through <= k.ship
      BY DEF Shipped
    <3>1. k.ceiling # Unbounded /\ k.ceiling <= k.ship /\ k.ship \in Nat
      BY <2>4 DEF Shipped
    <3> QED
      BY <2>3, <2>7, <3>1
  <2>9. Spares(through, rows, ev)
    <3>1. CASE ev > 0
      BY <2>3, <2>4, <2>7, <3>1, LessSpares
    <3>2. CASE ~(ev > 0)
      BY <3>2 DEF Spares
    <3> QED
      BY <3>1, <3>2
  <2>10. through <= b.through /\ through \in Nat \ {0}
    BY <2>1, <2>5, <2>6, <2>7
  <2>11. PruneFits(q, rows, anchors, mark, ev)
    BY <2>4, <2>8, <2>9, <2>10 DEF PruneFits
  <2>12. CallFits(q)
    BY <2>11 DEF CallFits, CheckpointFits, VerifyFits, ev
  <2> QED
    BY <1>1, <2>1, <2>12, ReadsKeeps DEF k
<1> QED
  BY <1>2, <1>3

\* The rows of a prune go: never the newest of the floor, never one the sink has not got.
LEMMA PruneThroughKeeps ==
    ASSUME AuditInv, NEW c \in AuditCalls, PruneThrough(c)
    PROVE  AuditInv'
<1> DEFINE k == acall[c]
           n == k.through
           ev == floor.events
           gone == {s \in Seqs(rows) : s <= n}
           left == Seqs(rows) \ gone
           empties == left = {} /\ gone # {}
           q == [op |-> "prune", at |-> "record"]
<1>1. /\ k.at = "gone" /\ acall' = [acall EXCEPT ![c] = q]
      /\ rows' = [s \in left |-> rows[s]]
      /\ lost' = IF k.ship = Unbounded THEN lost
                 ELSE lost \cup ({EventOf(rows[s]) : s \in gone} \ (sent \cup 1..seeded))
      /\ cut' = (cut \/ gone \cap Newest(rows, ev) # {})
      /\ emptied' = (emptied \/ empties)
      /\ UNCHANGED <<anchors, mark, shipper, floor, born, seeded, sent, altered>>
  BY DEF PruneThrough, GoesOn
<1>2. PruneFits(k, rows, anchors, mark, ev)
  BY DEF AuditInv, Calling
<1>3. /\ LogFits(rows) /\ ev \in Nat /\ altered \in Nat /\ mark \in Nat
      /\ ~emptied => mark <= HeadSeq(rows)
  BY DEF AuditInv, Chain, Keeping, Shipping
<1>4. /\ n \in Nat \ {0} /\ (\E b \in anchors : n <= b.through)
      /\ k.ship = Unbounded \/ (k.ship \in Nat \ {0} /\ k.ship <= mark)
      /\ Shipped(n, k.ship) /\ Spares(n, rows, ev)
  BY <1>1, <1>2 DEF PruneFits
<1> HIDE DEF k, n, ev
<1>5. /\ LogFits(rows') /\ Seqs(rows') = left
      /\ \A s \in left : rows'[s] = rows[s]
      /\ ~empties => /\ HeadSeq(rows') = HeadSeq(rows)
                     /\ \A m, h, e : Known(m, h, rows, e) => Known(m, h, rows', e)
                     /\ \A m, e : Spares(m, rows, e) => Spares(m, rows', e)
  <2> HIDE DEF gone
  <2>1. n \in Nat /\ gone = {s \in Seqs(rows) : s <= n}
    BY <1>4 DEF gone
  <2> QED
    BY <1>1, <1>3, <2>1, PrunedLog
<1>6. ev > 0 => ~empties /\ gone \cap Newest(rows, ev) = {}
  <2> SUFFICES ASSUME ev > 0 PROVE ~empties /\ gone \cap Newest(rows, ev) = {}
    OBVIOUS
  <2>1. n < HeadSeq(rows) /\ \A s \in Seqs(rows) : s <= n => s + ev <= HeadSeq(rows)
    BY <1>4 DEF Spares
  <2>2. ~empties
    <3>1. HeadSeq(rows) \in Nat /\ (Seqs(rows) # {} => HeadSeq(rows) \in Seqs(rows))
      BY <1>3, HeadOf
    <3>2. gone # {} => HeadSeq(rows) \in left
      BY <1>4, <2>1, <3>1
    <3> QED
      BY <3>2
  <2>3. \A s \in gone : s \notin Newest(rows, ev)
    <3> SUFFICES ASSUME NEW s \in gone PROVE s \notin Newest(rows, ev)
      OBVIOUS
    <3>1. s \in Nat /\ HeadSeq(rows) \in Nat /\ (s \in Newest(rows, ev) <=> HeadSeq(rows) < s + ev)
      <4>1. HeadSeq(rows) \in Nat
        BY <1>3, HeadOf
      <4> QED
        BY <1>3, <4>1, NewestOf
    <3> QED
      BY <1>3, <2>1, <3>1
  <2> QED
    BY <2>2, <2>3
<1>7. ev = 0 => Newest(rows, ev) = {}
  <2> SUFFICES ASSUME ev = 0, NEW s \in Newest(rows, ev) PROVE FALSE
    OBVIOUS
  <2>1. s \in Seqs(rows)
    BY DEF Newest
  <2>2. s \in Nat /\ HeadSeq(rows) \in Seqs(rows) /\ s <= HeadSeq(rows) /\ HeadSeq(rows) < s + ev
    BY <1>3, <2>1, NewestOf
  <2>3. HeadSeq(rows) \in Nat
    BY <1>3, HeadOf
  <2> QED
    BY <2>2, <2>3
<1>8. ~cut'
  <2>1. ~cut
    BY DEF AuditInv, Keeping, FloorOutlastsThePrune
  <2>2. gone \cap Newest(rows, ev) = {}
    BY <1>3, <1>6, <1>7
  <2> QED
    BY <1>1, <2>1, <2>2
<1>9. /\ ev > 0 => ~emptied'
      /\ emptied => emptied'
      /\ ~emptied' => ~emptied /\ ~empties
  BY <1>1, <1>6 DEF AuditInv, Keeping, ev
<1>10. ASSUME ~emptied'
       PROVE  lost' = {} /\ \A s \in left : s <= mark => EventOf(rows[s]) \in sent \cup 1..seeded
  <2>1. lost = {} /\ \A s \in Seqs(rows) : s <= mark => EventOf(rows[s]) \in sent \cup 1..seeded
    BY <1>9, <1>10 DEF AuditInv, Keeping, SinkHasNoGap
  <2>2. k.ship # Unbounded => \A s \in gone : EventOf(rows[s]) \in sent \cup 1..seeded
    <3> SUFFICES ASSUME k.ship # Unbounded, NEW s \in gone PROVE s <= mark
      BY <2>1
    <3>1. n <= k.ship /\ k.ship \in Nat /\ k.ship <= mark /\ n \in Nat
      BY <1>4 DEF Shipped
    <3>2. s \in Nat
      BY <1>3 DEF LogFits
    <3> QED
      BY <1>3, <3>1, <3>2
  <2>3. k.ship # Unbounded => {EventOf(rows[s]) : s \in gone} \ (sent \cup 1..seeded) = {}
    BY <2>2
  <2> QED
    BY <1>1, <2>1, <2>3
<1> HIDE DEF empties
<1>11. Onward
  <2>1. \A m \in Nat : \A h : Known(m, h, rows, emptied) => Known(m, h, rows', emptied')
    <3>1. CASE emptied'
      BY <3>1 DEF Known
    <3>2. CASE ~emptied'
      <4>1. \A m \in Nat : \A h : Known(m, h, rows, emptied) => Known(m, h, rows', emptied)
        BY <1>5, <1>9, <3>2
      <4> QED
        BY <1>9, <3>2, <4>1 DEF Known
    <3> QED
      BY <3>1, <3>2
  <2>2. \A m \in Nat : Spares(m, rows, ev) => Spares(m, rows', ev)
    <3>1. CASE ev > 0
      BY <1>5, <1>6, <3>1
    <3>2. CASE ~(ev > 0)
      BY <3>2 DEF Spares
    <3> QED
      BY <3>1, <3>2
  <2> QED
    BY <1>1, <1>3, <1>9, <2>1, <2>2 DEF Onward, ev
<1>12. Calling'
  <2>1. /\ CheckpointFits(q, rows', emptied') /\ VerifyFits(q, anchors', emptied', altered')
        /\ PruneFits(q, rows', anchors', mark', floor'.events)
    BY DEF CheckpointFits, VerifyFits, PruneFits
  <2> QED
    BY <1>1, <1>11, <2>1, AuditCallMoves DEF AuditInv
<1>13. Chain'
  <2>1. altered' = 0 => \A s \in Seqs(rows') : rows'[s].body = EventOf(rows'[s])
    BY <1>1, <1>5 DEF AuditInv, Chain
  <2>2. ~emptied' => \A s \in Seqs(rows') :
          s = 1 \/ s - 1 \in Seqs(rows') \/ \E a \in anchors' : s - 1 <= a.through
    <3> SUFFICES ASSUME ~emptied', NEW s \in left
                 PROVE  s = 1 \/ s - 1 \in left \/ \E a \in anchors : s - 1 <= a.through
      BY <1>1, <1>5
    <3>1. s = 1 \/ s - 1 \in Seqs(rows) \/ \E a \in anchors : s - 1 <= a.through
      BY <1>9 DEF AuditInv, Chain
    <3>2. CASE s - 1 \in gone
      <4>1. PICK b \in anchors : n <= b.through
        BY <1>4
      <4>2. b.through \in Nat /\ s \in Nat /\ n \in Nat
        BY <1>3, <1>4 DEF AuditInv, Anchored, AnchorFits, LogFits
      <4>3. s - 1 <= b.through
        BY <3>2, <4>1, <4>2
      <4> QED
        BY <4>3
    <3> QED
      BY <3>1, <3>2
  <2> QED
    BY <1>1, <1>5, <2>1, <2>2 DEF AuditInv, Chain
<1>14. Anchored'
  <2>1. \A a \in anchors : Known(a.through, a.hash, rows', emptied')
    BY <1>11 DEF AuditInv, Anchored, Onward, AnchorFits
  <2> QED
    BY <1>1, <2>1 DEF AuditInv, Anchored
<1>15. Shipping'
  <2>1. \A b : BatchFits(b, mark, rows, emptied) => BatchFits(b, mark, rows', emptied')
    BY <1>5, <1>9 DEF BatchFits
  <2>2. ~emptied' => mark <= HeadSeq(rows')
    BY <1>3, <1>5, <1>9
  <2> QED
    BY <1>1, <2>1, <2>2 DEF AuditInv, Shipping
<1>16. Keeping'
  <2>1. SinkHasNoGap'
    BY <1>1, <1>5, <1>10 DEF SinkHasNoGap
  <2> QED
    BY <1>1, <1>8, <1>9, <2>1 DEF AuditInv, Keeping, FloorOutlastsThePrune, ev
<1> QED
  BY <1>12, <1>13, <1>14, <1>15, <1>16 DEF AuditInv

-----------------------------------------------------------------------------
(* Audit: the shipper.                                                     *)

\* A step of the shipper.
LEMMA ShipperMoves ==
    ASSUME AuditInv, Shipping', SinkHasNoGap', mark <= mark',
           UNCHANGED <<rows, anchors, floor, acall, born, seeded, lost, cut, emptied, altered>>
    PROVE  AuditInv'
<1>1. Onward
  BY DEF Onward, AuditInv, Chain, Shipping
<1>2. Calling'
  BY <1>1, CallsStay DEF AuditInv
<1>3. Chain' /\ Anchored'
  BY DEF AuditInv, Chain, Anchored
<1> QED
  BY <1>2, <1>3 DEF AuditInv, Keeping, FloorOutlastsThePrune

LEMMA RestingFits == Resting \in [at : {"idle", "tail", "send", "advance"}, from : Nat, batch : {Resting.batch}]
                     /\ Resting.at = "idle"
BY DEF Resting

LEMMA ShipReadKeeps ==
    ASSUME AuditInv, ShipRead
    PROVE  AuditInv'
<1>1. mark \in Nat /\ SinkHasNoGap
  BY DEF AuditInv, Shipping, Keeping
<1>2. shipper' = [at |-> "tail", from |-> mark, batch |-> {}]
  BY DEF ShipRead
<1>3. /\ shipper' \in [at : {"idle", "tail", "send", "advance"}, from : Nat, batch : {shipper'.batch}]
      /\ shipper'.at = "tail" /\ shipper'.from = mark
  BY <1>1, <1>2
<1>4. Shipping'
  BY <1>1, <1>3 DEF AuditInv, Shipping, ShipRead, ghosts
<1>5. SinkHasNoGap'
  BY <1>1 DEF SinkHasNoGap, ShipRead, ghosts
<1> QED
  BY <1>1, <1>4, <1>5, ShipperMoves DEF ShipRead, ghosts

LEMMA ShipRestsKeeps ==
    ASSUME AuditInv, shipper' = Resting,
           UNCHANGED <<rows, anchors, mark, floor, acall, born, seeded, sent, lost, cut, emptied, altered>>
    PROVE  AuditInv'
<1>1. mark \in Nat /\ SinkHasNoGap
  BY DEF AuditInv, Shipping, Keeping
<1>2. Shipping'
  BY RestingFits DEF AuditInv, Shipping
<1>3. SinkHasNoGap'
  BY <1>1 DEF SinkHasNoGap
<1> QED
  BY <1>1, <1>2, <1>3, ShipperMoves

\* The rows of one query: all of those past the mark, up to the last of them.
LEMMA ListSinceFits ==
    ASSUME NEW r, LogFits(r), NEW from \in Nat, ListSince(r, from) # {}
    PROVE  /\ \E x \in ListSince(r, from) : \A y \in ListSince(r, from) : y <= x
           /\ \A x \in ListSince(r, from) : x \in Nat /\ x <= HeadSeq(r)
           /\ \A x \in ListSince(r, from) : \A s \in Seqs(r) : from < s /\ s <= x => s \in ListSince(r, from)
<1> DEFINE seqs == ListSince(r, from)
<1>1. PICK lo \in Nat \ {0}, hi \in Nat : Seqs(r) = lo .. hi /\ (lo <= hi => HeadSeq(r) = hi)
  BY HeadOf
<1>2. seqs \subseteq Seqs(r) /\ \A s \in seqs : s > from
  BY DEF ListSince
<1>3. \A x \in seqs : x \in Nat /\ x <= HeadSeq(r)
  BY <1>1, <1>2
<1>4. \E x \in seqs : \A y \in seqs : y <= x
  <2>1. seqs \subseteq 0 .. hi
    BY <1>1, <1>2
  <2> HIDE DEF seqs
  <2>2. PICK x \in seqs : \A y \in seqs : x >= y
    BY <2>1, LargestUpTo DEF seqs
  <2> QED
    BY <1>3, <2>2
<1>5. ASSUME NEW x \in seqs, NEW s \in Seqs(r), from < s, s <= x PROVE s \in seqs
  <2> DEFINE A == {t \in Seqs(r) : from < t /\ t < s}
             B == {t \in Seqs(r) : from < t /\ t < x}
  <2>1. A \subseteq B
    BY <1>1, <1>2, <1>5
  <2>2. IsFiniteSet(B)
    <3>1. B \subseteq lo .. hi
      BY <1>1
    <3>2. IsFiniteSet(lo .. hi)
      BY <1>1, FS_Interval
    <3> HIDE DEF B
    <3> QED
      BY <3>1, <3>2, FS_Subset
  <2>3. IsFiniteSet(A) /\ Cardinality(A) <= Cardinality(B)
    BY <2>1, <2>2, FS_Subset
  <2>4. Cardinality(B) < ShipBatch
    BY DEF ListSince
  <2>5. Cardinality(A) \in Nat /\ Cardinality(B) \in Nat /\ ShipBatch \in Nat
    BY <2>2, <2>3, FS_CardinalityType, AuditAssumption
  <2> HIDE DEF A, B
  <2>6. Cardinality(A) < ShipBatch
    BY <2>3, <2>4, <2>5
  <2> QED
    BY <1>5, <2>6 DEF ListSince, A
<1> QED
  BY <1>3, <1>4, <1>5

LEMMA ShipTailKeeps ==
    ASSUME AuditInv, ShipTail
    PROVE  AuditInv'
<1>1. CASE shipper' = Resting
  BY <1>1, ShipRestsKeeps DEF ShipTail, ghosts
<1>2. CASE shipper' # Resting
  <2> DEFINE seqs == ListSince(rows, mark)
             batch == {[seq |-> s, id |-> EventOf(rows[s])] : s \in seqs}
  <2>1. mark \in Nat /\ SinkHasNoGap /\ LogFits(rows) /\ (shipper.at = "tail" => shipper.from = mark)
    BY DEF AuditInv, Shipping, Keeping, Chain
  <2>2. seqs # {} /\ shipper' = [at |-> "send", from |-> mark, batch |-> batch]
    BY <1>2, <2>1 DEF ShipTail
  <2>3. /\ \E x \in seqs : \A y \in seqs : y <= x
        /\ \A x \in seqs : x \in Nat /\ x <= HeadSeq(rows)
        /\ \A x \in seqs : \A s \in Seqs(rows) : mark < s /\ s <= x => s \in seqs
    BY <2>1, <2>2, ListSinceFits
  <2> HIDE DEF seqs
  <2>4. BatchFits(batch, mark, rows, emptied)
    <3>1. PICK x \in seqs : \A y \in seqs : y <= x
      BY <2>3
    <3>2. [seq |-> x, id |-> EventOf(rows[x])] \in batch
      OBVIOUS
    <3>3. \A y \in batch : y.seq \in seqs
      OBVIOUS
    <3>4. \A s \in seqs : \E y \in batch : y.seq = s /\ y.id = EventOf(rows[s])
      <4> TAKE s \in seqs
      <4> WITNESS [seq |-> s, id |-> EventOf(rows[s])] \in batch
      <4> QED
        OBVIOUS
    <3> HIDE DEF batch
    <3> QED
      BY <2>3, <3>1, <3>2, <3>3, <3>4 DEF BatchFits
  <2> HIDE DEF batch
  <2>5. /\ shipper' \in [at : {"idle", "tail", "send", "advance"}, from : Nat, batch : {shipper'.batch}]
        /\ shipper'.at = "send" /\ shipper'.from = mark /\ shipper'.batch = batch
    BY <2>1, <2>2
  <2>6. Shipping'
    BY <2>4, <2>5 DEF AuditInv, Shipping, ShipTail, ghosts
  <2>7. SinkHasNoGap'
    BY <2>1 DEF SinkHasNoGap, ShipTail, ghosts
  <2> QED
    BY <2>1, <2>6, <2>7, ShipperMoves DEF ShipTail, ghosts
<1> QED
  BY <1>1, <1>2

LEMMA ShipSendKeeps ==
    ASSUME AuditInv, ShipSend
    PROVE  AuditInv'
<1>1. mark \in Nat /\ SinkHasNoGap /\ Shipping
  BY DEF AuditInv, Shipping, Keeping
<1>2. /\ shipper.at = "send"
      /\ UNCHANGED <<rows, anchors, mark, floor, acall, born, seeded, lost, cut, emptied, altered>>
  BY DEF ShipSend
<1>3. sent \subseteq sent'
  BY DEF ShipSend
<1>4. SinkHasNoGap'
  BY <1>1, <1>2, <1>3 DEF SinkHasNoGap
<1>5. CASE shipper' = Resting
  <2>1. Shipping'
    BY <1>1, <1>2, <1>5, RestingFits DEF Shipping
  <2> QED
    BY <1>1, <1>2, <1>4, <2>1, ShipperMoves
<1>6. CASE shipper' # Resting
  <2>1. shipper' = [shipper EXCEPT !.at = "advance"] /\ sent' = sent \cup {e.id : e \in shipper.batch}
    BY <1>6 DEF ShipSend
  <2>2. shipper'.at = "advance" /\ shipper'.from = shipper.from /\ shipper'.batch = shipper.batch
    BY <1>1, <2>1 DEF Shipping
  <2>3. shipper' \in [at : {"idle", "tail", "send", "advance"}, from : Nat, batch : {shipper'.batch}]
    BY <1>1, <2>1 DEF Shipping
  <2>4. \A x \in shipper.batch : x.id \in sent'
    BY <2>1
  <2>5. Shipping'
    BY <1>1, <1>2, <2>2, <2>3, <2>4 DEF Shipping
  <2> QED
    BY <1>1, <1>2, <1>4, <2>5, ShipperMoves
<1> QED
  BY <1>5, <1>6

LEMMA ShipAdvanceKeeps ==
    ASSUME AuditInv, ShipAdvance
    PROVE  AuditInv'
<1> DEFINE b == shipper.batch
           S == {mark} \cup {e.seq : e \in b}
<1>1. /\ shipper.at = "advance" /\ mark' = Max(S) /\ shipper' = Resting
      /\ UNCHANGED <<rows, anchors, floor, acall, born, seeded, sent, lost, cut, emptied, altered>>
  BY DEF ShipAdvance, ghosts
<1>2. /\ mark \in Nat /\ SinkHasNoGap /\ LogFits(rows)
      /\ BatchFits(b, mark, rows, emptied) /\ \A x \in b : x.id \in sent
      /\ ~emptied => mark <= HeadSeq(rows)
  BY <1>1 DEF AuditInv, Shipping, Keeping, Chain
<1> HIDE DEF b
<1>3. PICK x \in b : \A y \in b : y.seq <= x.seq
  BY <1>2 DEF BatchFits
<1>4. \A y \in b : y.seq \in Nat
  BY <1>2 DEF BatchFits
<1>5. S \subseteq Nat /\ \E m \in S : \A y \in S : m >= y
  <2>1. S \subseteq Nat
    BY <1>2, <1>4
  <2>2. CASE x.seq <= mark
    BY <1>2, <1>3, <1>4, <2>2
  <2>3. CASE mark <= x.seq
    BY <1>2, <1>3, <1>4, <2>3
  <2> QED
    BY <1>2, <1>4, <2>1, <2>2, <2>3
<1>6. Max(S) \in S /\ \A y \in S : Max(S) >= y
  <2> HIDE DEF S
  <2> QED
    BY <1>5 DEF Max
<1>7. mark' \in Nat /\ mark <= mark' /\ (mark' = mark \/ \E y \in b : mark' = y.seq)
  BY <1>1, <1>5, <1>6
<1> HIDE DEF S
<1>8. ~emptied => mark' <= HeadSeq(rows)
  BY <1>2, <1>7 DEF BatchFits
<1>9. Shipping'
  BY <1>1, <1>7, <1>8, RestingFits DEF AuditInv, Shipping
<1>10. SinkHasNoGap'
  <2> SUFFICES ASSUME ~emptied, NEW s \in Seqs(rows), s <= mark'
               PROVE  lost = {} /\ EventOf(rows[s]) \in sent \cup 1..seeded
    BY <1>1, <1>2 DEF SinkHasNoGap
  <2>1. s \in Nat
    BY <1>2 DEF LogFits
  <2>2. CASE s <= mark
    BY <1>2, <2>2 DEF SinkHasNoGap
  <2>3. CASE mark < s
    <3>1. PICK y \in b : mark' = y.seq
      BY <1>2, <1>7, <2>1, <2>3
    <3>2. \E z \in b : z.seq = s /\ z.id = EventOf(rows[s])
      BY <1>2, <2>3, <3>1 DEF BatchFits
    <3> QED
      BY <1>2, <3>2 DEF SinkHasNoGap
  <2> QED
    BY <1>2, <2>1, <2>2, <2>3
<1> QED
  BY <1>1, <1>7, <1>9, <1>10, ShipperMoves

LEMMA ShipStopsKeeps ==
    ASSUME AuditInv, ShipStops
    PROVE  AuditInv'
BY ShipRestsKeeps DEF ShipStops, ghosts

-----------------------------------------------------------------------------
(* Audit: the theorems.                                                    *)

LEMMA AuditStarts ==
    ASSUME AuditInit
    PROVE  AuditInv
<1>1. /\ born \in {0, 1} /\ seeded = born /\ mark = born /\ anchors = {} /\ shipper = Resting
      /\ rows = [s \in 1..born |-> [prev |-> Genesis, hash |-> <<s>>, body |-> s, aged |-> FALSE]]
      /\ floor.events \in Nat /\ acall = [c \in AuditCalls |-> Idle]
      /\ sent = {} /\ lost = {} /\ cut = FALSE /\ emptied = FALSE /\ altered = 0
  BY AuditAssumption DEF AuditInit
<1>2. Seqs(rows) = 1 .. born /\ rows = [s \in Seqs(rows) |-> rows[s]]
  BY <1>1 DEF Seqs
<1>3. \A s \in Seqs(rows) : /\ s = 1 /\ EventFits(rows[s], s)
                            /\ EventOf(rows[s]) = 1 /\ rows[s].body = 1
  <2> SUFFICES ASSUME NEW s \in Seqs(rows)
               PROVE  /\ s = 1 /\ EventFits(rows[s], s)
                      /\ EventOf(rows[s]) = 1 /\ rows[s].body = 1
    OBVIOUS
  <2>1. s = 1
    BY <1>1, <1>2
  <2>2. rows[1] = [prev |-> <<>>, hash |-> <<1>>, body |-> 1, aged |-> FALSE]
    BY <1>1, <1>2, <2>1 DEF Genesis
  <2>3. /\ rows[1].prev = <<>> /\ rows[1].hash = <<1>> /\ rows[1].body = 1
        /\ rows[1] \in [prev : Seq(Nat), hash : Seq(Nat), body : Nat, aged : {rows[1].aged}]
    BY <2>2
  <2>4. EventOf(rows[1]) = 1
    BY <2>3 DEF EventOf
  <2>5. <<1>> = Append(<<>>, 1) /\ Len(<<>>) = 1 - 1
    OBVIOUS
  <2> QED
    BY <2>1, <2>3, <2>4, <2>5 DEF EventFits
<1>4. LogFits(rows)
  <2>1. \E lo \in Nat \ {0}, hi \in Nat : Seqs(rows) = lo .. hi
    <3>1. 1 \in Nat \ {0} /\ born \in Nat
      BY <1>1
    <3> QED
      BY <1>2, <3>1, Zenon
  <2>2. \A s \in Seqs(rows) : s - 1 \notin Seqs(rows)
    BY <1>1, <1>2
  <2> QED
    BY <1>2, <1>3, <2>1, <2>2 DEF LogFits
<1>5. HeadSeq(rows) = born
  BY <1>1, <1>2, <1>4, HeadOf
<1>6. Chain
  <2>1. born \in Nat /\ altered \in Nat
    BY <1>1
  <2>2. \A s \in Seqs(rows) : s = 1 /\ rows[s].body = EventOf(rows[s])
    BY <1>3
  <2> QED
    BY <1>4, <2>1, <2>2 DEF Chain
<1>7. Anchored
  BY <1>1 DEF Anchored
<1>8. Calling
  <2>1. CallFits(Idle)
    BY IdleAuditCallFits DEF Idle
  <2> QED
    BY <1>1, <2>1 DEF Calling, CallFits
<1>9. Shipping
  BY <1>1, <1>5, RestingFits DEF Shipping
<1>10. Keeping
  BY <1>1, <1>3 DEF Keeping, SinkHasNoGap, FloorOutlastsThePrune
<1> QED
  BY <1>6, <1>7, <1>8, <1>9, <1>10 DEF AuditInv

LEMMA AuditStepInv == AuditInv /\ [AuditNext]_avars => AuditInv'
<1> SUFFICES ASSUME AuditInv, [AuditNext]_avars PROVE AuditInv'
  OBVIOUS
<1>1. CASE Record
  BY <1>1, RecordKeeps
<1>2. CASE EventAges
  BY <1>2, EventAgesKeeps
<1>3. CASE Alter
  BY <1>3, AlterKeeps
<1>4. CASE ShipRead \/ ShipTail \/ ShipSend \/ ShipAdvance \/ ShipStops
  BY <1>4, ShipReadKeeps, ShipTailKeeps, ShipSendKeeps, ShipAdvanceKeeps, ShipStopsKeeps
<1>5. ASSUME NEW c \in AuditCalls, VerifyAnchor(c) \/ VerifyWalk(c)
      PROVE  AuditInv'
  BY <1>5, VerifyAnchorKeeps, VerifyWalkKeeps
<1>6. ASSUME NEW c \in AuditCalls,
             CheckpointMax(c) \/ CheckpointHead(c) \/ CheckpointAnchor(c) \/ CheckpointWalk(c) \/ CheckpointInsert(c)
      PROVE  AuditInv'
  BY <1>6, CheckpointMaxKeeps, CheckpointHeadKeeps, CheckpointAnchorKeeps, CheckpointWalkKeeps,
     CheckpointInsertKeeps
<1>7. ASSUME NEW c \in AuditCalls,
             PruneShipCeiling(c) \/ PruneRetention(c) \/ PruneAnchor(c) \/ PruneBoundary(c) \/ PruneThrough(c)
      PROVE  AuditInv'
  BY <1>7, PruneShipCeilingKeeps, PruneRetentionKeeps, PruneAnchorKeeps, PruneBoundaryKeeps, PruneThroughKeeps
<1>8. ASSUME NEW c \in AuditCalls, RecordOwn(c) \/ AuditCallEnds(c)
      PROVE  AuditInv'
  BY <1>8, RecordOwnKeeps, AuditCallEndsKeeps
<1>9. CASE UNCHANGED avars
  <2>1. Onward /\ acall' = acall
    BY <1>9 DEF avars, Onward, AuditInv, Chain, Shipping
  <2>2. Calling'
    BY <2>1, CallsStay DEF AuditInv
  <2> QED
    BY <1>9, <2>2 DEF avars, AuditInv, Chain, Anchored, Shipping, Keeping, SinkHasNoGap, FloorOutlastsThePrune
<1> QED
  BY <1>1, <1>2, <1>3, <1>4, <1>5, <1>6, <1>7, <1>8, <1>9 DEF AuditNext

LEMMA AuditInvHolds == AuditSpec => []AuditInv
<1>1. AuditInit => AuditInv
  BY AuditStarts
<1> QED
  BY <1>1, AuditStepInv, PTL DEF AuditSpec

\* No checkpoint vouches for a row that had been changed when the chain was walked, and its
\* count is the number of events its hash covers (CreateCheckpoint, verifyBeforeAnchor), for
\* any number of events, requests and alterations.
THEOREM VouchingHolds == AuditSpec => []CheckpointsVouchForIntactEvents
<1>1. AuditInv => CheckpointsVouchForIntactEvents
  BY DEF AuditInv, Anchored, AnchorFits, CheckpointsVouchForIntactEvents
<1> QED
  BY <1>1, AuditInvHolds, PTL

\* A verification reports a break only of a changed log, a replaced anchor or an emptied
\* table, and counts every event up to the head it saw (Verify, walkChain).
THEOREM VerdictHolds == AuditSpec => []VerdictIsEarned
<1>1. AuditInv => VerdictIsEarned
  BY DEF AuditInv, Calling, VerifyFits, VerdictIsEarned
<1> QED
  BY <1>1, AuditInvHolds, PTL

\* A prune takes neither what the sink has not got nor what the retention floor promises to
\* keep, whatever is appended or shipped between its statements (Prune, retentionPruneCeiling).
THEOREM PruningHolds == AuditSpec => []PruneTakesNothingNeeded
<1>1. AuditInv => PruneTakesNothingNeeded
  BY DEF AuditInv, Keeping, PruneTakesNothingNeeded
<1> QED
  BY <1>1, AuditInvHolds, PTL

=============================================================================
