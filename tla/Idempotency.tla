---------------------------- MODULE Idempotency -----------------------------
(***************************************************************************)
(* idempotencyMiddleware around a mutating request: an Idempotency-Key of   *)
(* an actor is claimed by an insert, the handler runs, and its status is    *)
(* kept or the claim released. Clients send again what they had no answer   *)
(* to, while the first request may still be running.                        *)
(***************************************************************************)
EXTENDS Naturals, FiniteSets

CONSTANTS
    Attempts,   \* requests sent with the key, retries included
    Bodies      \* request hashes (endpoint and body)

VARIABLES
    claim,      \* the idempotency row of (key, actor)
    attempt,    \* the local state of each request
    effects,    \* history: the requests whose handler took effect
    answered    \* history: what each request was answered

idemVars == <<claim, attempt, effects, answered>>

NoClaim == [hash |-> "none", status |-> "none"]
Waiting == [pc |-> "idle", hash |-> "none", outcome |-> "none"]

\* A fresh request carries a body; what it takes for its turn follows.
IdemInit ==
    /\ claim = NoClaim /\ effects = {}
    /\ attempt = [a \in Attempts |-> Waiting]
    /\ answered = [a \in Attempts |-> "none"]

To(a, fields) == attempt' = [attempt EXCEPT ![a] = fields]
Reply(a, what) == answered' = [answered EXCEPT ![a] = what]

\* Mutant of Claim: the row is looked at and then written.
ClaimByReading(a, h) ==
    /\ attempt[a].pc = "idle"
    /\ To(a, [pc |-> IF claim.status = "done" THEN "lost" ELSE "run", hash |-> h, outcome |-> "none"])
    /\ claim' = IF claim.status = "done" THEN claim ELSE [hash |-> h, status |-> "pending"]
    /\ UNCHANGED <<effects, answered>>
\* Claim: INSERT ... ON CONFLICT DO NOTHING, and where that inserts nothing a read of
\* the row, which a release may have removed in the meantime.
Claim(a, h) ==
    /\ attempt[a].pc = "idle"
    /\ IF claim = NoClaim
       THEN claim' = [hash |-> h, status |-> "pending"] /\ To(a, [pc |-> "run", hash |-> h, outcome |-> "none"])
       ELSE UNCHANGED claim /\ To(a, [pc |-> "lost", hash |-> h, outcome |-> "none"])
    /\ UNCHANGED <<effects, answered>>
ReadExisting(a) ==
    /\ attempt[a].pc = "lost"
    /\ Reply(a, CASE claim = NoClaim -> "failed"
                  [] claim # NoClaim /\ claim.hash # attempt[a].hash -> "conflict"
                  [] claim.status = "pending" /\ claim.hash = attempt[a].hash -> "in_progress"
                  [] OTHER -> "replay")
    /\ To(a, [attempt[a] EXCEPT !.pc = "over"])
    /\ UNCHANGED <<claim, effects>>

\* The handler succeeds, is refused, or fails after it took effect: its audit write or
\* its second step did not go through.
Handle(a, outcome) ==
    /\ attempt[a].pc = "run"
    /\ effects' = IF outcome = "refused" THEN effects ELSE effects \cup {a}
    /\ Reply(a, IF outcome = "success" THEN "success" ELSE "failed")
    /\ To(a, [attempt[a] EXCEPT !.pc = "settle", !.outcome = outcome])
    /\ UNCHANGED claim
\* Complete of a 2xx, Release of any other status; both ignore their own failure, and run
\* under the request's context, which ends with the client's connection.
Settle(a) ==
    /\ attempt[a].pc = "settle" /\ To(a, [attempt[a] EXCEPT !.pc = "over"])
    /\ claim' = IF attempt[a].outcome = "success" THEN [claim EXCEPT !.status = "done"] ELSE NoClaim
    /\ UNCHANGED <<effects, answered>>
SettleFails(a) ==
    /\ attempt[a].pc = "settle" /\ To(a, [attempt[a] EXCEPT !.pc = "over"])
    /\ UNCHANGED <<claim, effects, answered>>
\* The process stops, before or after the effect.
Stops(a) ==
    /\ attempt[a].pc = "run" /\ To(a, [attempt[a] EXCEPT !.pc = "over"])
    /\ effects' \in {effects, effects \cup {a}}
    /\ UNCHANGED <<claim, answered>>

IdemNext == \E a \in Attempts :
    \/ \E h \in Bodies : Claim(a, h)
    \/ ReadExisting(a)
    \/ \E o \in {"success", "refused", "failed"} : Handle(a, o)
    \/ Settle(a) \/ SettleFails(a) \/ Stops(a)
IdemSpec == IdemInit /\ [][IdemNext]_idemVars

\* However often a request is sent, and whatever overlaps: it takes effect once, or once
\* more for each time it failed after its effect; at most one sender is told of a success,
\* and who is told of a replay sent what took effect before.
RequestsRunOnce ==
    /\ Cardinality({a \in Attempts : answered[a] = "success"}) <= 1
    /\ Cardinality({a \in effects : attempt[a].outcome # "failed"}) <= 1
    /\ \A a \in Attempts : answered[a] = "replay" =>
          \E b \in effects : answered[b] = "success" /\ attempt[b].hash = attempt[a].hash
=============================================================================
