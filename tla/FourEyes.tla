------------------------------ MODULE FourEyes ------------------------------
(***************************************************************************)
(* Two-person control over a protected config: the check every write goes  *)
(* through (requireApproval), the edit requests it diverts writes to       *)
(* (editreq), and promotion requests (promote), which have an approval     *)
(* flow of their own.                                                      *)
(*                                                                         *)
(* Every call is a sequence of statements on different rows with no        *)
(* transaction around them, so any two calls interleave between them. The  *)
(* content of a commit does not matter here: a commit is counted against   *)
(* the request it came from.                                               *)
(***************************************************************************)
EXTENDS Naturals, FiniteSets

CONSTANTS
    Users,         \* people; every call is made by one of them
    Writers,       \* concurrent direct writes
    Approvers,     \* concurrent approvals
    Edits,         \* config_edit_requests that may be filed
    Promos,        \* promotion_requests that may be filed
    MaxCommits,    \* bound on the commits counted per request
    MaxFaults      \* bound on lost answers and abandoned calls

ASSUME FourEyesAssumption == MaxCommits \in Nat /\ MaxFaults \in Nat

VARIABLES
    cfgFlag,       \* configs.require_approval
    envFlag,       \* environments.require_approval
    writer,        \* the local state of each direct write
    lapse,         \* history: writes during which protection was off for a moment
    solo,          \* history: writes that committed without a second person
    moved,         \* history: writes during which a flag was changed
    edit,          \* config_edit_requests: [st, by]
    commits,       \* history: edit request -> config versions it produced
    promo,         \* promotion_requests: [st, by]
    pcommits,      \* history: promotion request -> config versions it produced
    approver,      \* the local state of each approval
    abandoned,     \* history: requests whose approval was never finished
    doubtful,      \* history: requests with a commit whose answer was lost
    raced,         \* history: promotions rejected or cancelled while an approval
                   \* was under way
    faults

vars == <<cfgFlag, envFlag, writer, lapse, moved, solo, edit, commits, promo,
          pcommits, approver, abandoned, doubtful, raced, faults>>

protection == <<cfgFlag, envFlag, lapse, moved>>
writes == <<writer, solo>>
history == <<abandoned, doubtful, raced, faults>>

Nobody == "nobody"
IdleWriter == [pc |-> "idle", user |-> Nobody]
IdleApprover == [pc |-> "idle", req |-> "none", user |-> Nobody]
Unfiled == [st |-> "unfiled", by |-> Nobody]

\* effective = config.require_approval OR environment.require_approval.
Protected == cfgFlag \/ envFlag

\* Nothing filed; the flags may be set either way.
Init ==
    /\ cfgFlag \in BOOLEAN /\ envFlag \in BOOLEAN
    /\ writer = [w \in Writers |-> IdleWriter]
    /\ lapse = {} /\ moved = {} /\ solo = {}
    /\ edit = [q \in Edits |-> Unfiled] /\ commits = [q \in Edits |-> 0]
    /\ promo = [p \in Promos |-> Unfiled] /\ pcommits = [p \in Promos |-> 0]
    /\ approver = [a \in Approvers |-> IdleApprover]
    /\ abandoned = {} /\ doubtful = {} /\ raced = {} /\ faults = 0

----------------------------------------------------------------------------
(* Protection, and the check in front of every write.                      *)

\* handleRequireApprovalSet and handleEnvRequireApprovalSet.
SetFlags(c, e) ==
    /\ cfgFlag' = c /\ envFlag' = e
    /\ lapse' = IF c \/ e THEN lapse ELSE Writers
    /\ moved' = Writers
    /\ UNCHANGED <<writes, edit, commits, promo, pcommits, approver, history>>
SetRequireApproval == SetFlags(~cfgFlag, envFlag)
SetEnvRequireApproval == SetFlags(cfgFlag, ~envFlag)

\* A batch save, per-key set or delete, rollback or promotion into an existing
\* config has been authorized.
BeginWrite(w, u) ==
    /\ writer[w].pc = "idle"
    /\ writer' = [writer EXCEPT ![w] = [pc |-> "config", user |-> u]]
    /\ lapse' = IF Protected THEN lapse \ {w} ELSE lapse \cup {w}
    /\ moved' = moved \ {w} /\ solo' = solo \ {w}
    /\ UNCHANGED <<cfgFlag, envFlag, edit, commits, promo, pcommits, approver, history>>

\* requireApproval reads the config's flag ...
CheckConfig(w) ==
    /\ writer[w].pc = "config"
    /\ writer' = [writer EXCEPT ![w].pc = IF cfgFlag THEN "file" ELSE "environment"]
    /\ UNCHANGED <<protection, solo, edit, commits, promo, pcommits, approver, history>>

\* Mutant of CheckEnvironment: the config's own flag is all that counts.
CheckEnvironmentIgnored(w) ==
    /\ writer[w].pc = "environment"
    /\ writer' = [writer EXCEPT ![w].pc = "save"]
    /\ UNCHANGED <<protection, solo, edit, commits, promo, pcommits, approver, history>>

\* ... and then, in another statement, the environment's.
CheckEnvironment(w) ==
    /\ writer[w].pc = "environment"
    /\ writer' = [writer EXCEPT ![w].pc = IF envFlag THEN "file" ELSE "save"]
    /\ UNCHANGED <<protection, solo, edit, commits, promo, pcommits, approver, history>>

\* SetSecrets or Rollback: one person's commit.
SaveDirectly(w) ==
    /\ writer[w].pc = "save"
    /\ solo' = solo \cup {w}
    /\ writer' = [writer EXCEPT ![w] = IdleWriter]
    /\ UNCHANGED <<protection, edit, commits, promo, pcommits, approver, history>>

\* submitEditRequest: the write becomes a pending request.
SubmitEditRequest(w) ==
    /\ writer[w].pc = "file"
    /\ \E q \in Edits :
         /\ edit[q].st = "unfiled"
         /\ edit' = [edit EXCEPT ![q] = [st |-> "pending", by |-> writer[w].user]]
    /\ writer' = [writer EXCEPT ![w] = IdleWriter]
    /\ UNCHANGED <<protection, solo, commits, promo, pcommits, approver, history>>

\* The write is refused (validation, conflict, sealed) or its caller is gone.
FailWrite(w) ==
    /\ writer[w].pc # "idle"
    /\ writer' = [writer EXCEPT ![w] = IdleWriter]
    /\ UNCHANGED <<protection, solo, edit, commits, promo, pcommits, approver, history>>

----------------------------------------------------------------------------
(* Edit requests: claim, commit, mark.                                     *)

\* handleEditRequestApprove and Approve up to the claim: a pending request of
\* somebody else.
BeginApprove(a, q, u) ==
    /\ approver[a].pc = "idle"
    /\ edit[q].st = "pending" /\ u # edit[q].by
    /\ approver' = [approver EXCEPT ![a] = [pc |-> "claim", req |-> q, user |-> u]]
    /\ UNCHANGED <<protection, writes, edit, commits, promo, pcommits, history>>

\* Mutant of ClaimForApply: the claim does not look at the status again.
ClaimForApplyUnchecked(a) ==
    /\ approver[a].pc = "claim"
    /\ edit' = [edit EXCEPT ![approver[a].req].st = "applying"]
    /\ approver' = [approver EXCEPT ![a].pc = "decrypt"]
    /\ UNCHANGED <<protection, writes, commits, promo, pcommits, history>>

\* ClaimForApply: pending -> applying in one statement, or a conflict.
ClaimForApply(a) ==
    /\ approver[a].pc = "claim"
    /\ IF edit[approver[a].req].st = "pending"
       THEN /\ edit' = [edit EXCEPT ![approver[a].req].st = "applying"]
            /\ approver' = [approver EXCEPT ![a].pc = "decrypt"]
       ELSE /\ approver' = [approver EXCEPT ![a] = IdleApprover]
            /\ UNCHANGED edit
    /\ UNCHANGED <<protection, writes, commits, promo, pcommits, history>>

\* DecryptConfigBlob, which may fail (sealed, retired KEK).
DecryptProposal(a) ==
    /\ approver[a].pc = "decrypt"
    /\ \E next \in {"commit", "revert"} : approver' = [approver EXCEPT ![a].pc = next]
    /\ UNCHANGED <<protection, writes, edit, commits, promo, pcommits, history>>

\* SetSecrets returns a version.
CommitEdit(a) ==
    /\ approver[a].pc = "commit" /\ commits[approver[a].req] < MaxCommits
    /\ commits' = [commits EXCEPT ![approver[a].req] = @ + 1]
    /\ approver' = [approver EXCEPT ![a].pc = "mark"]
    /\ UNCHANGED <<protection, writes, edit, promo, pcommits, history>>

\* SetSecrets returns an error, having committed nothing.
CommitEditFails(a) ==
    /\ approver[a].pc = "commit"
    /\ approver' = [approver EXCEPT ![a].pc = "revert"]
    /\ UNCHANGED <<protection, writes, edit, commits, promo, pcommits, history>>

\* SetSecrets returns an error although its transaction committed: the answer
\* to COMMIT was lost.
CommitEditUnanswered(a) ==
    /\ approver[a].pc = "commit" /\ faults < MaxFaults
    /\ commits[approver[a].req] < MaxCommits
    /\ commits' = [commits EXCEPT ![approver[a].req] = @ + 1]
    /\ approver' = [approver EXCEPT ![a].pc = "revert"]
    /\ doubtful' = doubtful \cup {approver[a].req}
    /\ faults' = faults + 1
    /\ UNCHANGED <<protection, writes, edit, promo, pcommits, abandoned, raced>>

\* RevertApplying: applying -> pending.
RevertApplying(a) ==
    /\ approver[a].pc = "revert"
    /\ edit' = [edit EXCEPT ![approver[a].req].st = IF @ = "applying" THEN "pending" ELSE @]
    /\ approver' = [approver EXCEPT ![a] = IdleApprover]
    /\ UNCHANGED <<protection, writes, commits, promo, pcommits, history>>

\* MarkApplied: applying -> applied.
MarkApplied(a) ==
    /\ approver[a].pc = "mark"
    /\ edit' = [edit EXCEPT ![approver[a].req].st = IF @ = "applying" THEN "applied" ELSE @]
    /\ approver' = [approver EXCEPT ![a] = IdleApprover]
    /\ UNCHANGED <<protection, writes, commits, promo, pcommits, history>>

\* Decide: a pending request gets its final status, or the call conflicts.
DecideEdit(q, to) ==
    /\ edit[q].st = "pending"
    /\ edit' = [edit EXCEPT ![q].st = to]
    /\ UNCHANGED <<protection, writes, commits, promo, pcommits, approver, history>>

\* Reject by anybody but the requester; Cancel by the requester alone.
RejectEdit(q, u) == u # edit[q].by /\ DecideEdit(q, "rejected")
CancelEdit(q, u) == u = edit[q].by /\ DecideEdit(q, "cancelled")

----------------------------------------------------------------------------
(* Promotion requests: apply, then mark.                                   *)

\* CreateRequest: neither the source version nor the selected keys are looked up.
CreateRequest(p, u) ==
    /\ promo[p].st = "unfiled"
    /\ promo' = [promo EXCEPT ![p] = [st |-> "pending", by |-> u]]
    /\ UNCHANGED <<protection, writes, edit, commits, pcommits, approver, history>>


\* handlePromoteRequestApprove and ApproveRequest: a pending request of
\* somebody else. Nothing is claimed.
BeginApproveRequest(a, p, u) ==
    /\ approver[a].pc = "idle"
    /\ promo[p].st = "pending" /\ u # promo[p].by
    /\ approver' = [approver EXCEPT ![a] = [pc |-> "plan", req |-> p, user |-> u]]
    /\ UNCHANGED <<protection, writes, edit, commits, promo, pcommits, history>>

\* Plan: an error ends the call; with every selected key missing from the
\* source version there is nothing to save, and that is a success.
Plan(a) ==
    /\ approver[a].pc = "plan"
    /\ \/ approver' = [approver EXCEPT ![a] = IdleApprover]
       \/ \E next \in {"promote", "decide"} : approver' = [approver EXCEPT ![a].pc = next]
    /\ UNCHANGED <<protection, writes, edit, commits, promo, pcommits, history>>

\* SetSecrets on the target (and MarkPromoted, which decides nothing).
ApplyPromotion(a) ==
    /\ approver[a].pc = "promote" /\ pcommits[approver[a].req] < MaxCommits
    /\ pcommits' = [pcommits EXCEPT ![approver[a].req] = @ + 1]
    /\ approver' = [approver EXCEPT ![a].pc = "decide"]
    /\ UNCHANGED <<protection, writes, edit, commits, promo, history>>

ApplyPromotionFails(a) ==
    /\ approver[a].pc = "promote"
    /\ approver' = [approver EXCEPT ![a] = IdleApprover]
    /\ UNCHANGED <<protection, writes, edit, commits, promo, pcommits, history>>

\* The promotion is committed, but the answer to COMMIT is lost.
ApplyPromotionUnanswered(a) ==
    /\ approver[a].pc = "promote" /\ faults < MaxFaults
    /\ pcommits[approver[a].req] < MaxCommits
    /\ pcommits' = [pcommits EXCEPT ![approver[a].req] = @ + 1]
    /\ approver' = [approver EXCEPT ![a] = IdleApprover]
    /\ doubtful' = doubtful \cup {approver[a].req}
    /\ faults' = faults + 1
    /\ UNCHANGED <<protection, writes, edit, commits, promo, abandoned, raced>>


\* MarkApplied: pending -> applied, or a conflict with whoever decided first.
MarkRequestApplied(a) ==
    /\ approver[a].pc = "decide"
    /\ promo' = [promo EXCEPT ![approver[a].req].st = IF @ = "pending" THEN "applied" ELSE @]
    /\ approver' = [approver EXCEPT ![a] = IdleApprover]
    /\ UNCHANGED <<protection, writes, edit, commits, pcommits, history>>


\* Decide of a pending promotion request.
DecidePromotion(p, to) ==
    /\ promo[p].st = "pending"
    /\ promo' = [promo EXCEPT ![p].st = to]
    /\ raced' = IF \E a \in Approvers : /\ approver[a].req = p
                                       /\ approver[a].pc \in {"plan", "promote", "decide"}
                THEN raced \cup {p} ELSE raced
    /\ UNCHANGED <<protection, writes, edit, commits, pcommits, approver, abandoned,
                   doubtful, faults>>

RejectRequest(p, u) == u # promo[p].by /\ DecidePromotion(p, "rejected")
CancelRequest(p, u) == u = promo[p].by /\ DecidePromotion(p, "cancelled")

\* The approving process dies or its context is cancelled: what it still had to
\* write is not written.
Abandon(a) ==
    /\ approver[a].pc # "idle" /\ faults < MaxFaults
    /\ abandoned' = IF approver[a].pc \in {"claim", "plan"} THEN abandoned
                    ELSE abandoned \cup {approver[a].req}
    /\ approver' = [approver EXCEPT ![a] = IdleApprover]
    /\ faults' = faults + 1
    /\ UNCHANGED <<protection, writes, edit, commits, promo, pcommits, doubtful, raced>>

----------------------------------------------------------------------------
WriteStep(w) ==
    \/ CheckConfig(w) \/ CheckEnvironment(w) \/ SaveDirectly(w)
    \/ SubmitEditRequest(w) \/ FailWrite(w)
EditStep(a) ==
    \/ ClaimForApply(a) \/ DecryptProposal(a) \/ CommitEdit(a) \/ CommitEditFails(a)
    \/ RevertApplying(a) \/ MarkApplied(a)
PromotionStep(a) ==
    Plan(a) \/ ApplyPromotion(a) \/ ApplyPromotionFails(a) \/ MarkRequestApplied(a)

Next ==
    \/ SetRequireApproval \/ SetEnvRequireApproval
    \/ \E w \in Writers : WriteStep(w) \/ \E u \in Users : BeginWrite(w, u)
    \/ \E a \in Approvers, u \in Users :
         \/ \E q \in Edits : BeginApprove(a, q, u)
         \/ \E p \in Promos : BeginApproveRequest(a, p, u)
    \/ \E a \in Approvers : \/ EditStep(a) \/ PromotionStep(a)
                            \/ CommitEditUnanswered(a) \/ ApplyPromotionUnanswered(a)
                            \/ Abandon(a)
    \/ \E q \in Edits, u \in Users : RejectEdit(q, u) \/ CancelEdit(q, u)
    \/ \E p \in Promos, u \in Users :
         CreateRequest(p, u) \/ RejectRequest(p, u) \/ CancelRequest(p, u)

Spec == Init /\ [][Next]_vars

----------------------------------------------------------------------------
(* Properties.                                                             *)

Statuses == {"unfiled", "pending", "applying", "applied", "rejected", "cancelled"}

\* Every variable has its type; a promotion request is never applying.
TypeOK ==
    /\ {cfgFlag, envFlag} \subseteq BOOLEAN
    /\ writer \in [Writers -> [pc : {"idle", "config", "environment", "save", "file"},
                               user : Users \cup {Nobody}]]
    /\ lapse \subseteq Writers /\ moved \subseteq Writers /\ solo \subseteq Writers
    /\ edit \in [Edits -> [st : Statuses, by : Users \cup {Nobody}]]
    /\ promo \in [Promos -> [st : Statuses \ {"applying"}, by : Users \cup {Nobody}]]
    /\ commits \in [Edits -> 0 .. MaxCommits] /\ pcommits \in [Promos -> 0 .. MaxCommits]
    /\ approver \in [Approvers -> [pc : {"idle", "claim", "decrypt", "commit", "revert", "mark",
                                         "plan", "promote", "decide"},
                                   req : Edits \cup Promos \cup {"none"},
                                   user : Users \cup {Nobody}]]
    /\ abandoned \subseteq Edits \cup Promos /\ doubtful \subseteq Edits \cup Promos
    /\ raced \subseteq Promos
    /\ faults \in 0 .. MaxFaults

\* Calls that hold the claim on an edit request.
Holders(q) == {a \in Approvers : approver[a].req = q
                                 /\ approver[a].pc \in {"decrypt", "commit", "revert", "mark"}}

\* An edit request and its commits agree, however approvals, rejections and
\* cancellations interleave: it is committed at most once, an applied one
\* exactly once, and one that is rejected, cancelled or still pending not at
\* all, unless the answer to a COMMIT was lost.
EditsAndCommitsAgree ==
    \A q \in Edits : q \notin doubtful =>
        /\ commits[q] <= 1
        /\ edit[q].st = "applied" => commits[q] = 1
        /\ edit[q].st \in {"pending", "rejected", "cancelled"} => commits[q] = 0

\* The claim is exclusive, and a request only stays claimed without a claimant
\* if its approval was abandoned.
ClaimIsExclusive ==
    \A q \in Edits :
        /\ Cardinality(Holders(q)) <= 1
        /\ edit[q].st = "applying" => Holders(q) # {} \/ q \in abandoned

\* A promotion request that was rejected or cancelled has written nothing,
\* unless that decision overtook an approval that was already under way, or an
\* approval was abandoned, or lost its answer, at the commit.
PromotionDecisionsAgree ==
    \A p \in Promos : promo[p].st \in {"rejected", "cancelled"} /\ pcommits[p] # 0 =>
        p \in raced \cup abandoned \cup doubtful

\* Once decided, a request of either kind keeps its decision.
DecisionsAreFinal ==
    [][/\ \A q \in Edits : edit[q].st \in {"applied", "rejected", "cancelled"} =>
            edit'[q] = edit[q]
       /\ \A p \in Promos : promo[p].st \in {"applied", "rejected", "cancelled"} =>
            promo'[p] = promo[p]]_vars

\* No write path skips protection: one person's commit goes through only if the
\* config was unprotected at some moment of the call, or a flag was changed
\* between the two reads of the check (protection that moves from environment
\* to config meanwhile is seen by neither).
NoDoorSkipsProtection == solo \subseteq lapse \cup moved

\* Decisions and commits agree for edit requests and promotion requests alike, and one
\* approval at a time holds a request.
DecisionsAgree == TypeOK /\ EditsAndCommitsAgree /\ ClaimIsExclusive /\ PromotionDecisionsAgree

=============================================================================
