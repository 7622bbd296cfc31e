--------------------------- MODULE IssuanceProofs ---------------------------
(***************************************************************************)
(* For any number of requests and bodies, an idempotency key runs its      *)
(* handler once; for any number of issuers, bindings and exchanges, a      *)
(* federated token is pinned to the issuer that signed for it; for any     *)
(* number of requests on one account, each attempt is counted, a code is   *)
(* good once, and the sessions left are of the password now set.           *)
(***************************************************************************)
EXTENDS Idempotency, Federation, Identity, FiniteSetTheorems, TLAPS

-----------------------------------------------------------------------------
(* Idempotency keys.                                                       *)

AttemptState == [pc : {"idle", "lost", "run", "settle", "over"}, hash : Bodies \cup {"none"},
                 outcome : {"none", "success", "refused", "failed"}]
IdemTyped ==
    /\ attempt \in [Attempts -> AttemptState]
    /\ effects \subseteq Attempts
    /\ answered \in [Attempts -> {"none", "success", "failed", "conflict", "in_progress", "replay"}]
    /\ claim \in [hash : Bodies \cup {"none"}, status : {"none", "pending", "done"}]
    /\ claim.status = "none" => claim = NoClaim

\* The request that has the claim and has not given it back.
Owns(a) == attempt[a].pc \in {"run", "settle"}
OneOwner ==
    \A a \in Attempts : Owns(a) =>
        /\ claim.status = "pending" /\ claim.hash = attempt[a].hash
        /\ \A b \in Attempts : Owns(b) => a = b

\* An effect that was not reported as a failure. It stays under the claim it was made
\* under: nobody else owns that claim, and nobody gives it back.
Lasting(a) == a \in effects /\ attempt[a].outcome # "failed"
EffectsKeepTheClaim ==
    \A a \in Attempts : Lasting(a) =>
        /\ attempt[a].pc \in {"settle", "over"} /\ attempt[a].outcome \in {"success", "none"}
        /\ attempt[a].pc = "settle" => attempt[a].outcome = "success"
        /\ claim.status # "none" /\ claim.hash = attempt[a].hash
        /\ \A b \in Attempts : Owns(b) \/ Lasting(b) => a = b

\* What a sender is told has happened.
AnswersAreTrue ==
    /\ \A a \in Attempts : attempt[a].pc \in {"idle", "lost", "run"} =>
          attempt[a].outcome = "none" /\ a \notin effects
    /\ \A a \in Attempts : answered[a] = "success" => a \in effects /\ attempt[a].outcome = "success"
    /\ \A a \in Attempts : attempt[a].outcome = "success" => answered[a] = "success"
    /\ claim.status = "done" => \E b \in Attempts : answered[b] = "success" /\ Lasting(b)
    /\ \A a \in Attempts : answered[a] = "replay" =>
          \E b \in Attempts : Lasting(b) /\ answered[b] = "success" /\ attempt[b].hash = attempt[a].hash
    /\ \A a \in Attempts : answered[a] # "none" => attempt[a].pc \in {"settle", "over"}

IdemInv == IdemTyped /\ OneOwner /\ EffectsKeepTheClaim /\ AnswersAreTrue

\* IdemInv holds before any request.
LEMMA IdemInitInv == IdemInit => IdemInv
BY DEF IdemInit, IdemInv, IdemTyped, OneOwner, EffectsKeepTheClaim, AnswersAreTrue, Owns, Lasting,
       AttemptState, Waiting, NoClaim

\* A request that moves on keeps its type.
LEMMA MoveTyped ==
    ASSUME NEW r \in AttemptState, NEW pc \in {"settle", "over"},
           NEW o \in {"success", "refused", "failed"}
    PROVE  [r EXCEPT !.pc = pc, !.outcome = o] \in AttemptState
BY DEF AttemptState

\* IdemInv is inductive.
LEMMA IdemStep == IdemInv /\ [IdemNext]_idemVars => IdemInv'
<1> SUFFICES ASSUME IdemInv, [IdemNext]_idemVars PROVE IdemInv'
  OBVIOUS
<1> USE DEF IdemInv, IdemTyped, OneOwner, EffectsKeepTheClaim, AnswersAreTrue, Owns, Lasting,
            AttemptState, To, Reply, NoClaim
<1>1. ASSUME NEW a \in Attempts, NEW h \in Bodies, Claim(a, h) PROVE IdemInv'
  <2>1. CASE claim = NoClaim
    <3>1. /\ claim' = [hash |-> h, status |-> "pending"] /\ effects' = effects /\ answered' = answered
          /\ attempt' = [attempt EXCEPT ![a] = [pc |-> "run", hash |-> h, outcome |-> "none"]]
          /\ attempt[a].pc = "idle"
      BY <1>1, <2>1 DEF Claim
    <3>2. \A b \in Attempts : ~Owns(b) /\ ~Lasting(b)
      BY <2>1
    <3>3. a \notin effects /\ answered[a] = "none"
      BY <3>1, <3>2
    <3>4. IdemTyped' /\ OneOwner'
      BY <3>1, <3>2
    <3>5. EffectsKeepTheClaim' /\ AnswersAreTrue'
      BY <3>1, <3>2, <3>3
    <3> QED
      BY <3>4, <3>5
  <2>2. CASE claim # NoClaim
    <3>1. /\ claim' = claim /\ effects' = effects /\ answered' = answered
          /\ attempt' = [attempt EXCEPT ![a] = [pc |-> "lost", hash |-> h, outcome |-> "none"]]
          /\ attempt[a].pc = "idle"
      BY <1>1, <2>2 DEF Claim
    <3>2. answered[a] = "none" /\ ~Lasting(a)
      BY <3>1
    <3>3. IdemTyped' /\ OneOwner'
      BY <3>1
    <3>4. EffectsKeepTheClaim'
      BY <3>1, <3>2
    <3>5. AnswersAreTrue'
      BY <3>1, <3>2
    <3> QED
      BY <3>3, <3>4, <3>5
  <2> QED
    BY <2>1, <2>2
<1>2. ASSUME NEW a \in Attempts, ReadExisting(a) PROVE IdemInv'
  BY <1>2 DEF ReadExisting
<1>3. ASSUME NEW a \in Attempts, NEW o \in {"success", "refused", "failed"}, Handle(a, o) PROVE IdemInv'
  <2>1. /\ claim' = claim /\ attempt[a].pc = "run" /\ attempt[a].outcome = "none"
        /\ attempt' = [attempt EXCEPT ![a] = [attempt[a] EXCEPT !.pc = "settle", !.outcome = o]]
        /\ answered' = [answered EXCEPT ![a] = IF o = "success" THEN "success" ELSE "failed"]
        /\ effects' = IF o = "refused" THEN effects ELSE effects \cup {a}
    BY <1>3 DEF Handle
  <2>2. a \notin effects /\ \A b \in Attempts : ~Lasting(b)
    BY <2>1
  <2>3. IdemTyped' /\ OneOwner'
    <3>1. attempt'[a] = [attempt[a] EXCEPT !.pc = "settle", !.outcome = o]
      BY <2>1
    <3>2. IdemTyped'
      <4>1. attempt'[a] \in AttemptState
        <5>1. attempt[a] \in AttemptState
          OBVIOUS
        <5> HIDE DEF AttemptState, IdemInv
        <5> QED
          BY <3>1, <5>1, MoveTyped
      <4>2. attempt' \in [Attempts -> AttemptState]
        BY <2>1, <4>1
      <4>3. answered' \in [Attempts -> {"none", "success", "failed", "conflict", "in_progress", "replay"}]
        BY <2>1
      <4> QED
        BY <2>1, <4>2, <4>3
    <3>3. OneOwner'
      BY <2>1, <3>1
    <3> QED
      BY <3>2, <3>3
  <2>4. EffectsKeepTheClaim'
    BY <2>1, <2>2
  <2>5. AnswersAreTrue'
    BY <2>1, <2>2
  <2> QED
    BY <2>3, <2>4, <2>5
<1>4. ASSUME NEW a \in Attempts, Settle(a) PROVE IdemInv'
  BY <1>4 DEF Settle
<1>5. ASSUME NEW a \in Attempts, SettleFails(a) PROVE IdemInv'
  BY <1>5 DEF SettleFails
<1>6. ASSUME NEW a \in Attempts, Stops(a) PROVE IdemInv'
  BY <1>6 DEF Stops
<1>7. CASE UNCHANGED idemVars
  BY <1>7 DEF idemVars
<1> QED
  BY <1>1, <1>2, <1>3, <1>4, <1>5, <1>6, <1>7 DEF IdemNext

\* A set in which any two members are equal has at most one.
LEMMA AtMostOne ==
    ASSUME NEW S, \A x, y \in S : x = y
    PROVE  Cardinality(S) <= 1
<1>1. CASE S = {}
  BY <1>1, FS_EmptySet
<1>2. CASE S # {}
  <2>1. PICK x \in S : TRUE
    BY <1>2
  <2>2. S = {x}
    BY <2>1
  <2> QED
    BY <2>2, FS_Singleton
<1> QED
  BY <1>1, <1>2

\* IdemInv is an invariant.
LEMMA IdemInvariant == IdemSpec => []IdemInv
BY IdemInitInv, IdemStep, PTL DEF IdemSpec

\* However many requests carry one key, and wherever each of them fails or stops, the
\* handler's effect lasts at most once, at most one sender is told of a success, and a
\* replay is of what took effect (api/idempotency.go).
THEOREM KeyRunsOnce == IdemSpec => []RequestsRunOnce
<1>1. ASSUME IdemInv PROVE RequestsRunOnce
  <2> USE <1>1 DEF IdemInv, IdemTyped, EffectsKeepTheClaim, AnswersAreTrue, Lasting
  <2>1. \A a, b \in {x \in effects : attempt[x].outcome # "failed"} : a = b
    OBVIOUS
  <2>2. \A a, b \in {x \in Attempts : answered[x] = "success"} : a = b
    OBVIOUS
  <2>3. /\ Cardinality({x \in effects : attempt[x].outcome # "failed"}) <= 1
        /\ Cardinality({x \in Attempts : answered[x] = "success"}) <= 1
    BY <2>1, <2>2, AtMostOne
  <2> QED
    BY <2>3 DEF RequestsRunOnce
<1> QED
  BY <1>1, IdemInvariant, PTL

-----------------------------------------------------------------------------
(* Federation: the inductive invariant.                                    *)

\* An anchor is its audience and its CA bundle, which is what the cache compares.
Pair(a) == a = [audience |-> a.audience, ca |-> a.ca]
ExchangeShape(q) ==
    q \in [pc : {"idle", "verify", "match", "mint"}, jwt : {q.jwt}, row : {q.row}, used : {q.used},
           binding : FedBindings \cup {"none"}]
TokenShape(q) ==
    q \in [minter : {q.minter}, issuer : {q.issuer}, target : {q.target}, status : {q.status}, allow : {q.allow}]

FedTyped ==
    /\ exchange = [x \in Exchanges |-> exchange[x]] /\ \A x \in Exchanges : ExchangeShape(exchange[x])
    /\ \A x \in Exchanges : exchange[x].pc # "idle" => exchange[x].jwt.issuer \in Issuers /\ Pair(exchange[x].row.anchor)
    /\ trust = [i \in Issuers |-> trust[i]] /\ \A i \in Issuers : Pair(trust[i].anchor)
    /\ fedCache = [i \in Issuers |-> fedCache[i]] /\ \A i \in Issuers : Pair(fedCache[i])
    /\ replacing.pc = "put" => Pair(replacing.row.anchor)
    /\ svcTokens = [t \in SvcTokens |-> svcTokens[t]] /\ \A t \in SvcTokens : TokenShape(svcTokens[t])
    /\ bindings = [b \in FedBindings |-> bindings[b]]

\* The binding an exchange has matched is of the token's issuer, or has been deleted since:
\* its id is never used again.
MatchHolds ==
    \A x \in Exchanges : exchange[x].pc = "mint" =>
        /\ exchange[x].binding \in FedBindings
        /\ \/ bindings[exchange[x].binding] = DeletedBinding
           \/ /\ bindings[exchange[x].binding] # NoBinding
              /\ bindings[exchange[x].binding].issuer = exchange[x].jwt.issuer

\* The binding of a federated token is there: its deletion is refused.
PinHolds ==
    \A t \in SvcTokens : svcTokens[t].minter \in FedBindings =>
        /\ bindings[svcTokens[t].minter] \notin {NoBinding, DeletedBinding}
        /\ svcTokens[t].issuer = bindings[svcTokens[t].minter].issuer

FedInv == FedTyped /\ VerifiedUnderTheRowRead /\ MatchHolds /\ PinHolds

-----------------------------------------------------------------------------
(* Federation: the steps.                                                  *)

\* The record of an exchange that is not running.
LEMMA IdleExchangeFits == ExchangeShape(IdleExchange) /\ IdleExchange.pc = "idle"
BY DEF ExchangeShape, IdleExchange

\* The anchors that rows may hold.
LEMMA AnchorsArePairs == Pair(NoAnchor) /\ Pair(NoTrust.anchor) /\ \A row \in TrustRows : Pair(row.anchor)
<1>1. Pair(NoAnchor) /\ Pair(NoTrust.anchor)
  BY DEF Pair, NoAnchor, NoTrust
<1>2. ASSUME NEW row \in TrustRows PROVE Pair(row.anchor)
  <2>1. row.anchor \in Anchors
    BY FederationAssumption
  <2> QED
    BY <2>1, FederationAssumption DEF Pair
<1> QED
  BY <1>1, <1>2

\* FedInv holds at first.
LEMMA FederationInitInv == FederationInit => FedInv
<1> SUFFICES ASSUME FederationInit PROVE FedInv
  OBVIOUS
<1>1. /\ exchange = [x \in Exchanges |-> IdleExchange] /\ trust = [i \in Issuers |-> NoTrust]
      /\ fedCache = [i \in Issuers |-> NoAnchor] /\ svcTokens = [t \in SvcTokens |-> NoToken]
      /\ bindings = [b \in FedBindings |-> NoBinding] /\ replacing = NotReplacing
  BY DEF FederationInit
<1>2. \A x \in Exchanges : exchange[x].pc = "idle"
  BY <1>1, IdleExchangeFits
<1>3. TokenShape(NoToken) /\ NoToken.minter \notin FedBindings /\ NotReplacing.pc # "put"
  BY FederationAssumption DEF TokenShape, NoToken, NotReplacing
<1>4. FedTyped
  BY <1>1, <1>2, <1>3, IdleExchangeFits, AnchorsArePairs DEF FedTyped
<1>5. VerifiedUnderTheRowRead /\ MatchHolds
  BY <1>2 DEF VerifiedUnderTheRowRead, MatchHolds
<1>6. PinHolds
  BY <1>1, <1>3 DEF PinHolds
<1> QED
  BY <1>4, <1>5, <1>6 DEF FedInv

\* Steps that change neither exchanges nor bindings nor tokens.
LEMMA FedAside ==
    ASSUME FedInv, UNCHANGED <<exchange, bindings, svcTokens>>
    PROVE  VerifiedUnderTheRowRead' /\ MatchHolds' /\ PinHolds'
<1>1. VerifiedUnderTheRowRead'
  BY DEF FedInv, VerifiedUnderTheRowRead
<1>2. MatchHolds'
  BY DEF FedInv, MatchHolds
<1>3. PinHolds'
  BY DEF FedInv, PinHolds
<1> QED
  BY <1>1, <1>2, <1>3

\* The rows of trust, and the flush of the cache.
LEMMA TrustInv ==
    ASSUME FedInv
    PROVE  /\ \A i \in Issuers, row \in TrustRows : PutFederationIssuer(i, row) \/ SetFederationConfig(i, row) => FedInv'
           /\ \A i \in Issuers : DeleteFederationIssuer(i) => FedInv'
           /\ DeleteFederationConfig \/ PutFederationConfig => FedInv'
           /\ InvalidateFederationVerifier => FedInv'
<1> USE DEF FedInv
<1>0. trust = [i \in Issuers |-> trust[i]] /\ \A i \in Issuers : Pair(trust[i].anchor)
  BY DEF FedTyped
<1>1. ASSUME NEW i \in Issuers, NEW row, Pair(row.anchor), trust' = [trust EXCEPT ![i] = row],
             UNCHANGED <<exchange, bindings, svcTokens, fedCache, replacing>>
      PROVE  FedInv'
  <2>1. trust' = [j \in Issuers |-> trust'[j]] /\ \A j \in Issuers : Pair(trust'[j].anchor)
    BY <1>0, <1>1
  <2> QED
    BY <1>1, <2>1, FedAside DEF FedTyped
<1>2. ASSUME NEW i \in Issuers, NEW row \in TrustRows, PutFederationIssuer(i, row) PROVE FedInv'
  BY <1>1, <1>2, AnchorsArePairs DEF PutFederationIssuer
<1>3. ASSUME NEW i \in Issuers, DeleteFederationIssuer(i) PROVE FedInv'
  BY <1>1, <1>3, AnchorsArePairs DEF DeleteFederationIssuer
<1>4. ASSUME NEW i \in Issuers, NEW row \in TrustRows, SetFederationConfig(i, row) PROVE FedInv'
  <2>1. replacing' = [pc |-> "put", issuer |-> i, row |-> row] /\ UNCHANGED <<trust, exchange, bindings, svcTokens, fedCache>>
    BY <1>4 DEF SetFederationConfig
  <2> QED
    BY <2>1, AnchorsArePairs, FedAside DEF FedTyped
<1>5. ASSUME DeleteFederationConfig PROVE FedInv'
  <2>1. trust' = [i \in Issuers |-> NoTrust] /\ UNCHANGED <<exchange, bindings, svcTokens, fedCache, replacing>>
    BY <1>5 DEF DeleteFederationConfig
  <2> QED
    BY <2>1, AnchorsArePairs, FedAside DEF FedTyped
<1>6. ASSUME PutFederationConfig PROVE FedInv'
  <2>1. /\ trust' = [i \in Issuers |-> IF i = replacing.issuer THEN replacing.row ELSE NoTrust] /\ replacing' = NotReplacing
        /\ replacing.pc = "put" /\ UNCHANGED <<exchange, bindings, svcTokens, fedCache>>
    BY <1>6 DEF PutFederationConfig
  <2>2. trust' = [i \in Issuers |-> trust'[i]] /\ \A i \in Issuers : Pair(trust'[i].anchor)
    BY <2>1, AnchorsArePairs DEF FedTyped
  <2>3. replacing'.pc # "put"
    BY <2>1 DEF NotReplacing
  <2> QED
    BY <2>1, <2>2, <2>3, FedAside DEF FedTyped
<1>7. ASSUME InvalidateFederationVerifier PROVE FedInv'
  <2>1. fedCache' = [i \in Issuers |-> NoAnchor] /\ UNCHANGED <<trust, exchange, bindings, svcTokens, replacing>>
    BY <1>7 DEF InvalidateFederationVerifier
  <2> QED
    BY <2>1, AnchorsArePairs, FedAside DEF FedTyped
<1> QED
  BY <1>2, <1>3, <1>4, <1>5, <1>6, <1>7

\* A binding is made under a new id, and deleted only without tokens.
LEMMA BindingInv ==
    ASSUME FedInv, NEW b \in FedBindings
    PROVE  /\ \A i \in Issuers, strong \in BOOLEAN, s \in ScopeTargets : CreateFederationBinding(b, i, strong, s) => FedInv'
           /\ DeleteFederationBinding(b) => FedInv'
<1> USE DEF FedInv
<1>0. bindings = [a \in FedBindings |-> bindings[a]]
  BY DEF FedTyped
<1>1. ASSUME NEW row, bindings' = [bindings EXCEPT ![b] = row], UNCHANGED <<trust, exchange, svcTokens, fedCache, replacing>>
      PROVE  /\ FedTyped' /\ VerifiedUnderTheRowRead'
             /\ bindings'[b] = row /\ \A a \in FedBindings : a # b => bindings'[a] = bindings[a]
  <2>1. bindings' = [a \in FedBindings |-> bindings'[a]]
    BY <1>0, <1>1
  <2>2. FedTyped'
    BY <1>1, <2>1 DEF FedTyped
  <2>3. VerifiedUnderTheRowRead'
    BY <1>1 DEF VerifiedUnderTheRowRead
  <2> QED
    BY <1>0, <1>1, <2>2, <2>3
<1>2. ASSUME NEW i \in Issuers, NEW strong \in BOOLEAN, NEW s \in ScopeTargets, CreateFederationBinding(b, i, strong, s) PROVE FedInv'
  <2> DEFINE row == [issuer |-> i, strong |-> strong, target |-> s, enabled |-> TRUE]
  <2>1. /\ bindings[b] = NoBinding /\ bindings' = [bindings EXCEPT ![b] = row]
        /\ UNCHANGED <<trust, exchange, svcTokens, fedCache, replacing>>
    BY <1>2 DEF CreateFederationBinding
  <2> HIDE DEF row
  <2>2. /\ FedTyped' /\ VerifiedUnderTheRowRead' /\ \A a \in FedBindings : a # b => bindings'[a] = bindings[a]
    BY <1>1, <2>1
  <2>3. \A a \in FedBindings : bindings[a] # NoBinding => bindings'[a] = bindings[a]
    BY <2>1, <2>2
  <2>n. DeletedBinding # NoBinding
    BY DEF DeletedBinding, NoBinding
  <2>4. MatchHolds'
    BY <2>1, <2>3, <2>n DEF MatchHolds
  <2>5. PinHolds'
    BY <2>1, <2>3 DEF PinHolds
  <2> QED
    BY <2>2, <2>4, <2>5
<1>3. ASSUME DeleteFederationBinding(b) PROVE FedInv'
  <2>1. UNCHANGED <<trust, exchange, svcTokens, fedCache, replacing>>
    BY <1>3 DEF DeleteFederationBinding
  <2>2. CASE TokensOf(b) # {}
    <3>1. bindings' = bindings
      BY <1>3, <2>2 DEF DeleteFederationBinding
    <3> QED
      BY <2>1, <3>1, FedAside DEF FedTyped
  <2>3. CASE TokensOf(b) = {}
    <3>1. bindings' = [bindings EXCEPT ![b] = DeletedBinding]
      BY <1>3, <2>3 DEF DeleteFederationBinding
    <3>2. /\ FedTyped' /\ VerifiedUnderTheRowRead' /\ bindings'[b] = DeletedBinding
          /\ \A a \in FedBindings : a # b => bindings'[a] = bindings[a]
      BY <1>1, <2>1, <3>1
    <3>3. MatchHolds'
      BY <2>1, <3>2 DEF MatchHolds
    <3>4. \A t \in SvcTokens : svcTokens[t].minter # b
      BY <2>3 DEF TokensOf
    <3>5. PinHolds'
      BY <2>1, <3>2, <3>4 DEF PinHolds
    <3> QED
      BY <3>2, <3>3, <3>5
  <2> QED
    BY <2>2, <2>3
<1> QED
  BY <1>2, <1>3

\* What an exchange may become.
LEMMA ExchangeMoves ==
    ASSUME FedInv, NEW x \in Exchanges, NEW q, exchange' = [exchange EXCEPT ![x] = q], ExchangeShape(q),
           q.pc # "idle" => q.jwt.issuer \in Issuers /\ Pair(q.row.anchor),
           q.pc \in {"match", "mint"} => q.used = q.row.anchor,
           q.pc = "mint" => q.binding \in FedBindings /\ bindings[q.binding] # NoBinding /\ bindings[q.binding].issuer = q.jwt.issuer,
           UNCHANGED <<trust, bindings, replacing>>
    PROVE  /\ VerifiedUnderTheRowRead' /\ MatchHolds'
           /\ UNCHANGED svcTokens => PinHolds'
           /\ UNCHANGED <<svcTokens, fedCache>> => FedInv'
           /\ exchange' = [y \in Exchanges |-> exchange'[y]] /\ \A y \in Exchanges : ExchangeShape(exchange'[y])
           /\ \A y \in Exchanges : exchange'[y].pc # "idle" => exchange'[y].jwt.issuer \in Issuers /\ Pair(exchange'[y].row.anchor)
<1> USE DEF FedInv
<1>1. exchange = [y \in Exchanges |-> exchange[y]] /\ \A y \in Exchanges : ExchangeShape(exchange[y])
  BY DEF FedTyped
<1>2. exchange'[x] = q /\ \A y \in Exchanges : y # x => exchange'[y] = exchange[y]
  BY <1>1
<1>3. exchange' = [y \in Exchanges |-> exchange'[y]] /\ \A y \in Exchanges : ExchangeShape(exchange'[y])
  BY <1>1, <1>2
<1>4. \A y \in Exchanges : exchange'[y].pc # "idle" => exchange'[y].jwt.issuer \in Issuers /\ Pair(exchange'[y].row.anchor)
  BY <1>2 DEF FedTyped
<1>5. VerifiedUnderTheRowRead'
  BY <1>2 DEF VerifiedUnderTheRowRead
<1>6. MatchHolds'
  BY <1>2 DEF MatchHolds
<1>7. ASSUME UNCHANGED svcTokens PROVE PinHolds'
  BY <1>7 DEF PinHolds
<1>8. ASSUME UNCHANGED <<svcTokens, fedCache>> PROVE FedTyped'
  BY <1>3, <1>4, <1>8 DEF FedTyped
<1> QED
  BY <1>3, <1>4, <1>5, <1>6, <1>7, <1>8

\* An exchange from its row to its binding.
LEMMA ExchangeInv ==
    ASSUME FedInv, NEW x \in Exchanges
    PROVE  /\ \A jwt \in JWTs : FederateCILogin(x, jwt) => FedInv'
           /\ FederationVerifierFor(x) => FedInv'
           /\ MatchFederationBinding(x) => FedInv'
<1> USE DEF FedInv
<1>0. ExchangeShape(exchange[x]) /\ exchange = [y \in Exchanges |-> exchange[y]]
  BY DEF FedTyped
<1>1. ASSUME NEW jwt \in JWTs, FederateCILogin(x, jwt) PROVE FedInv'
  <2> DEFINE q == [IdleExchange EXCEPT !.pc = "verify", !.jwt = jwt, !.row = trust[jwt.issuer]]
  <2>1. exchange' = [exchange EXCEPT ![x] = q] /\ UNCHANGED <<trust, bindings, replacing, svcTokens, fedCache>>
    BY <1>1 DEF FederateCILogin
  <2>2. ExchangeShape(q) /\ q.pc = "verify" /\ q.jwt = jwt /\ q.row = trust[jwt.issuer]
    BY DEF ExchangeShape, IdleExchange
  <2>3. jwt.issuer \in Issuers /\ Pair(trust[jwt.issuer].anchor)
    BY DEF JWTs, FedTyped
  <2> HIDE DEF q
  <2> QED
    BY <2>1, <2>2, <2>3, ExchangeMoves
<1>2. ASSUME FederationVerifierFor(x) PROVE FedInv'
  <2> DEFINE i == exchange[x].jwt.issuer
             anchor == exchange[x].row.anchor
             used == IF CachedVerifier(fedCache[i], anchor) THEN fedCache[i] ELSE anchor
             q == [exchange[x] EXCEPT !.pc = "match", !.used = used]
             r == IF exchange[x].jwt.anchor = used THEN q ELSE IdleExchange
  <2>1. /\ exchange[x].pc = "verify" /\ fedCache' = [fedCache EXCEPT ![i] = used] /\ exchange' = [exchange EXCEPT ![x] = r]
        /\ UNCHANGED <<trust, bindings, replacing, svcTokens>>
    BY <1>0, <1>2 DEF FederationVerifierFor
  <2>2. /\ i \in Issuers /\ Pair(anchor) /\ Pair(fedCache[i]) /\ fedCache = [j \in Issuers |-> fedCache[j]]
        /\ \A j \in Issuers : Pair(fedCache[j])
    BY <2>1 DEF FedTyped
  <2>3. used = anchor
    <3>1. CASE CachedVerifier(fedCache[i], anchor)
      <4>1. fedCache[i].audience = anchor.audience /\ fedCache[i].ca = anchor.ca
        BY <3>1 DEF CachedVerifier
      <4>2. fedCache[i] = anchor
        BY <4>1, <2>2 DEF Pair
      <4> QED
        BY <3>1, <4>2
    <3>2. CASE ~CachedVerifier(fedCache[i], anchor)
      BY <3>2
    <3> QED
      BY <3>1, <3>2
  <2> HIDE DEF used
  <2>4. q.pc = "match" /\ q.used = used /\ q.jwt = exchange[x].jwt /\ q.row = exchange[x].row /\ ExchangeShape(q)
    BY <1>0 DEF ExchangeShape
  <2> HIDE DEF q
  <2>5. (r.pc = "idle" \/ (r.pc = "match" /\ r.used = anchor /\ r.jwt = exchange[x].jwt /\ r.row = exchange[x].row)) /\ ExchangeShape(r)
    BY <2>3, <2>4, IdleExchangeFits
  <2> HIDE DEF r
  <2>6. /\ VerifiedUnderTheRowRead' /\ MatchHolds' /\ PinHolds'
        /\ exchange' = [y \in Exchanges |-> exchange'[y]] /\ (\A y \in Exchanges : ExchangeShape(exchange'[y]))
        /\ (\A y \in Exchanges : exchange'[y].pc # "idle" => exchange'[y].jwt.issuer \in Issuers /\ Pair(exchange'[y].row.anchor))
    BY <2>1, <2>2, <2>5, ExchangeMoves
  <2>7. fedCache' = [j \in Issuers |-> fedCache'[j]] /\ \A j \in Issuers : Pair(fedCache'[j])
    BY <2>1, <2>2, <2>3
  <2>8. FedTyped'
    BY <2>1, <2>6, <2>7 DEF FedTyped
  <2> QED
    BY <2>6, <2>8
<1>3. ASSUME MatchFederationBinding(x) PROVE FedInv'
  <2> DEFINE jwt == exchange[x].jwt
             matched == {b \in BindingsForIssuer(jwt) : bindings[b].enabled /\ ClaimsSatisfy(jwt, b)}
             b0 == CHOOSE b \in matched : TRUE
             q == [exchange[x] EXCEPT !.pc = "mint", !.binding = b0]
             r == IF Cardinality(matched) = 1 THEN q ELSE IdleExchange
  <2>1. /\ exchange[x].pc = "match" /\ exchange' = [exchange EXCEPT ![x] = r]
        /\ UNCHANGED <<trust, bindings, replacing, svcTokens, fedCache>>
    BY <1>0, <1>3 DEF MatchFederationBinding
  <2>2. CASE Cardinality(matched) # 1
    <3>1. r = IdleExchange
      BY <2>2
    <3> QED
      BY <2>1, <3>1, IdleExchangeFits, ExchangeMoves
  <2>3. CASE Cardinality(matched) = 1
    <3>1. matched # {}
      BY <2>3, FS_EmptySet
    <3>2. b0 \in matched
      BY <3>1
    <3>3. b0 \in FedBindings /\ bindings[b0].issuer = jwt.issuer /\ bindings[b0].enabled
      BY <3>2 DEF BindingsForIssuer
    <3>4. bindings[b0] # NoBinding
      BY <3>3 DEF NoBinding
    <3>5. r = q
      BY <2>3
    <3> HIDE DEF b0, matched, r
    <3>6. /\ q.pc = "mint" /\ q.binding = b0 /\ q.jwt = exchange[x].jwt /\ q.row = exchange[x].row /\ q.used = exchange[x].used
          /\ ExchangeShape(q)
      BY <1>0, <3>3 DEF ExchangeShape
    <3>7. exchange[x].used = exchange[x].row.anchor /\ jwt.issuer \in Issuers /\ Pair(exchange[x].row.anchor)
      BY <2>1 DEF VerifiedUnderTheRowRead, FedTyped
    <3> HIDE DEF q
    <3> QED
      BY <2>1, <3>3, <3>4, <3>5, <3>6, <3>7, ExchangeMoves
  <2> QED
    BY <2>2, <2>3
<1> QED
  BY <1>1, <1>2, <1>3

\* The mints, the changes of a token, and the steps beside them.
LEMMA TokenInv ==
    ASSUME FedInv, NEW t \in SvcTokens
    PROVE  /\ \A x \in Exchanges : MintFederatedToken(x, t) => FedInv'
           /\ \A s \in ScopeTargets : MintServiceToken(t, s, Addresses) => FedInv'
           /\ \A allow : SetTokenIPAllowlist(t, allow) => FedInv'
           /\ RevokeToken(t) \/ TokenExpires(t) => FedInv'
<1> USE DEF FedInv
<1>0. svcTokens = [y \in SvcTokens |-> svcTokens[y]] /\ \A y \in SvcTokens : TokenShape(svcTokens[y])
  BY DEF FedTyped
<1>1. ASSUME NEW q, svcTokens' = [svcTokens EXCEPT ![t] = q], TokenShape(q), UNCHANGED bindings,
             q.minter \in FedBindings =>
               bindings[q.minter] \notin {NoBinding, DeletedBinding} /\ q.issuer = bindings[q.minter].issuer
      PROVE  /\ PinHolds' /\ svcTokens' = [y \in SvcTokens |-> svcTokens'[y]] /\ (\A y \in SvcTokens : TokenShape(svcTokens'[y]))
             /\ UNCHANGED <<trust, exchange, fedCache, replacing>> => FedInv'
  <2>1. svcTokens'[t] = q /\ \A y \in SvcTokens : y # t => svcTokens'[y] = svcTokens[y]
    BY <1>0, <1>1
  <2>2. svcTokens' = [y \in SvcTokens |-> svcTokens'[y]] /\ \A y \in SvcTokens : TokenShape(svcTokens'[y])
    BY <1>0, <1>1, <2>1
  <2>3. PinHolds'
    BY <1>1, <2>1 DEF PinHolds
  <2>4. ASSUME UNCHANGED <<trust, exchange, fedCache, replacing>> PROVE FedTyped' /\ VerifiedUnderTheRowRead' /\ MatchHolds'
    <3>1. FedTyped'
      BY <1>1, <2>2, <2>4 DEF FedTyped
    <3>2. VerifiedUnderTheRowRead' /\ MatchHolds'
      BY <1>1, <2>4 DEF VerifiedUnderTheRowRead, MatchHolds
    <3> QED
      BY <3>1, <3>2
  <2> QED
    BY <2>2, <2>3, <2>4
<1>2. ASSUME NEW x \in Exchanges, MintFederatedToken(x, t) PROVE FedInv'
  <2> DEFINE b == exchange[x].binding
             q == [minter |-> b, issuer |-> exchange[x].jwt.issuer, target |-> bindings[b].target, status |-> "active",
                   allow |-> Addresses]
  <2>1. /\ exchange[x].pc = "mint" /\ exchange' = [exchange EXCEPT ![x] = IdleExchange]
        /\ UNCHANGED <<trust, bindings, replacing, fedCache>>
        /\ svcTokens' = IF bindings[b] = DeletedBinding THEN svcTokens ELSE [svcTokens EXCEPT ![t] = q]
    BY <1>2 DEF MintFederatedToken
  <2>2. CASE bindings[b] = DeletedBinding
    BY <2>1, <2>2, IdleExchangeFits, ExchangeMoves
  <2>3. CASE bindings[b] # DeletedBinding
    <3>1. svcTokens' = [svcTokens EXCEPT ![t] = q]
      BY <2>1, <2>3
    <3>2. TokenShape(q) /\ q.minter = b /\ q.issuer = exchange[x].jwt.issuer
      BY DEF TokenShape
    <3>3. b \in FedBindings /\ bindings[b] # NoBinding /\ bindings[b].issuer = exchange[x].jwt.issuer
      BY <2>1, <2>3 DEF MatchHolds
    <3> HIDE DEF q
    <3>4. PinHolds' /\ svcTokens' = [y \in SvcTokens |-> svcTokens'[y]] /\ \A y \in SvcTokens : TokenShape(svcTokens'[y])
      BY <1>1, <2>1, <2>3, <3>1, <3>2, <3>3
    <3>5. /\ VerifiedUnderTheRowRead' /\ MatchHolds'
          /\ exchange' = [y \in Exchanges |-> exchange'[y]] /\ (\A y \in Exchanges : ExchangeShape(exchange'[y]))
          /\ (\A y \in Exchanges : exchange'[y].pc # "idle" => exchange'[y].jwt.issuer \in Issuers /\ Pair(exchange'[y].row.anchor))
      BY <2>1, IdleExchangeFits, ExchangeMoves
    <3>6. FedTyped'
      BY <2>1, <3>4, <3>5 DEF FedTyped
    <3> QED
      BY <3>4, <3>5, <3>6
  <2> QED
    BY <2>2, <2>3
<1>3. ASSUME NEW s \in ScopeTargets, MintServiceToken(t, s, Addresses) PROVE FedInv'
  <2> DEFINE q == [NoToken EXCEPT !.minter = "user", !.target = s, !.status = "active", !.allow = Addresses]
  <2>1. svcTokens' = [svcTokens EXCEPT ![t] = q] /\ UNCHANGED <<trust, bindings, exchange, fedCache, replacing>>
    BY <1>3 DEF MintServiceToken
  <2>2. TokenShape(q) /\ q.minter = "user"
    BY DEF TokenShape, NoToken
  <2>3. q.minter \notin FedBindings
    BY <2>2, FederationAssumption
  <2> HIDE DEF q
  <2> QED
    BY <1>1, <2>1, <2>2, <2>3
<1>4. ASSUME NEW q, svcTokens' = [svcTokens EXCEPT ![t] = q], TokenShape(q), UNCHANGED <<bindings, trust, exchange, fedCache, replacing>>,
             q.minter = svcTokens[t].minter, q.issuer = svcTokens[t].issuer
      PROVE  FedInv'
  BY <1>1, <1>4 DEF PinHolds
<1>5. ASSUME NEW allow, SetTokenIPAllowlist(t, allow) PROVE FedInv'
  <2> DEFINE q == [svcTokens[t] EXCEPT !.allow = allow]
  <2>1. svcTokens' = [svcTokens EXCEPT ![t] = q] /\ UNCHANGED <<bindings, trust, exchange, fedCache, replacing>>
    BY <1>0, <1>5 DEF SetTokenIPAllowlist
  <2>2. TokenShape(q) /\ q.minter = svcTokens[t].minter /\ q.issuer = svcTokens[t].issuer
    BY <1>0 DEF TokenShape
  <2> HIDE DEF q
  <2> QED
    BY <1>4, <2>1, <2>2
<1>6. ASSUME RevokeToken(t) \/ TokenExpires(t) PROVE FedInv'
  <2>1. PICK status \in {"revoked", "expired"} :
          svcTokens' = [svcTokens EXCEPT ![t].status = status] /\ UNCHANGED <<bindings, trust, exchange, fedCache, replacing>>
    BY <1>6 DEF RevokeToken, TokenExpires
  <2> DEFINE q == [svcTokens[t] EXCEPT !.status = status]
  <2>2. svcTokens' = [svcTokens EXCEPT ![t] = q]
    BY <1>0, <2>1
  <2>3. TokenShape(q) /\ q.minter = svcTokens[t].minter /\ q.issuer = svcTokens[t].issuer
    BY <1>0 DEF TokenShape
  <2> HIDE DEF q
  <2> QED
    BY <1>4, <2>1, <2>2, <2>3
<1> QED
  BY <1>2, <1>3, <1>5, <1>6

\* Every step keeps FedInv.
LEMMA FederationNextInv == FedInv /\ [FederationNext]_fedVars => FedInv'
<1> SUFFICES ASSUME FedInv, [FederationNext]_fedVars PROVE FedInv'
  OBVIOUS
<1>1. CASE \/ \E i \in Issuers : \/ DeleteFederationIssuer(i)
                                 \/ \E row \in TrustRows : PutFederationIssuer(i, row) \/ SetFederationConfig(i, row)
           \/ DeleteFederationConfig \/ PutFederationConfig \/ InvalidateFederationVerifier
  BY <1>1, TrustInv
<1>2. CASE \E b \in FedBindings :
             \/ DeleteFederationBinding(b)
             \/ \E i \in Issuers, strong \in BOOLEAN, s \in ScopeTargets : CreateFederationBinding(b, i, strong, s)
  BY <1>2, BindingInv
<1>3. CASE \E x \in Exchanges : (\E jwt \in JWTs : FederateCILogin(x, jwt)) \/ FederationVerifierFor(x) \/ MatchFederationBinding(x)
  BY <1>3, ExchangeInv
<1>4. CASE \E t \in SvcTokens :
             \/ \E x \in Exchanges : MintFederatedToken(x, t)
             \/ \E s \in ScopeTargets : MintServiceToken(t, s, Addresses)
             \/ \E allow \in SUBSET Addresses \ {{}} : SetTokenIPAllowlist(t, allow)
             \/ RevokeToken(t) \/ TokenExpires(t)
  BY <1>4, TokenInv
<1>5. CASE \/ \E t \in SvcTokens, ip \in Addresses : RequireAuth(t, ip)
           \/ \E s \in ScopeTargets : TargetGoes(s)
           \/ UNCHANGED fedVars
  <2>1. UNCHANGED <<trust, bindings, svcTokens, fedCache, replacing, exchange>>
    BY <1>5 DEF RequireAuth, TargetGoes, fedVars
  <2> QED
    BY <2>1, FedAside DEF FedInv, FedTyped
<1> QED
  BY <1>1, <1>2, <1>3, <1>4, <1>5 DEF FederationNext

\* A federated token belongs to a binding of the issuer that signed for it, and the signature
\* was verified under the audience and the CA bundle of the row the exchange read, however
\* trust, bindings and the verifier cache changed meanwhile.
THEOREM FederationHolds == FederationSpec => []FederationIsPinned
<1>1. FedInv => FederationIsPinned
  BY DEF FedInv, PinHolds, FederationIsPinned, FederatedTokenIsPinned
<1> QED
  BY <1>1, FederationInitInv, FederationNextInv, PTL DEF FederationSpec

-----------------------------------------------------------------------------
(* Accounts: the inductive invariant.                                      *)

AccountShape(a) ==
    a \in [password : 1 .. MaxPasswords, weak : {a.weak}, disabled : {a.disabled}, failed : Nat, level : Nat,
           locked : {0, 1, 5, 25}]
\* The row, and the count of failures in it.
LockoutHolds ==
    /\ AccountShape(account) /\ account.weak \in BOOLEAN /\ account.disabled \in BOOLEAN
    /\ account.failed < LockoutThreshold /\ recorded \in Nat
    /\ NoFailureIsLost

\* A code: of a secret and one of the steps, or of a recovery set.
CodeShape(k) == k \in [secret : Nat, n : Nat] /\ (k.secret # 0 => k.n <= MaxStep)
FactorShape(t) == t \in [secret : 0 .. MaxSecrets, active : {t.active}, last : 0 .. MaxStep]
FactorTyped ==
    /\ FactorShape(totp) /\ totp.active \in BOOLEAN /\ (totp.secret = 0 => totp = NoTOTP)
    /\ recovery \subseteq 1 .. MaxSecrets
    /\ fresh \in [password : Nat \ {0}, secret : Nat \ {0}, set : Nat \ {0}]
    /\ totp.secret < fresh.secret /\ \A n \in recovery : n < fresh.set
    /\ step \in 1 .. MaxStep

\* A spent code is behind the factor that took it: its step is not above the last one
\* used, its recovery code is gone, and neither number is given out again.
SpentHolds ==
    /\ replayed = FALSE
    /\ \A k \in spent :
         /\ k.secret \in Nat /\ k.n \in Nat /\ k.secret < fresh.secret
         /\ k.secret # 0 /\ k.secret = totp.secret => k.n <= totp.last
         /\ k.secret = 0 => k.n \notin recovery /\ k.n < fresh.set

\* The records of the requests.
CallKinds == {"none", "login", "disable", "regenerate", "enroll", "confirm", "change", "others", "reset"}
CallPlaces == {"idle", "failed", "rehash", "status", "reset", "mint", "factor", "consume", "recover", "delete", "codes",
               "upsert", "activate", "update", "lookup", "revoke", "audit"}
CallShape(q) ==
    q \in [kind : CallKinds, pc : CallPlaces, password : 0 .. MaxPasswords, level : Nat, code : {q.code},
           weak : {q.weak}, read : Nat, cookie : Cookies \cup {NoCookie}, keep : Cookies \cup {NoCookie}]
CallFits(q) ==
    /\ CallShape(q) /\ CodeShape(q.code) /\ q.weak \in BOOLEAN
    /\ q.kind \in {"login", "change", "reset"} => q.password # 0
    /\ q.kind = "reset" => q.read \in 1 .. MaxPasswords
    /\ q.pc = "revoke" => q.keep \in {q.cookie, NoCookie}
    /\ q.pc = "consume" => q.code.secret # 0
CallsHold ==
    /\ authCall = [c \in AuthCalls |-> authCall[c]]
    /\ \A c \in AuthCalls : CallFits(authCall[c]) /\ authCall[c].code.secret < fresh.secret

\* A session of another password than the one set is excused, or a change under way is
\* still to delete it: one whose own new session is another.
Clears(c, cookie) ==
    /\ authCall[c].kind = "change"
    /\ \/ authCall[c].pc = "mint"
       \/ authCall[c].pc \in {"lookup", "revoke"} /\ authCall[c].cookie # cookie
SessionsHold ==
    /\ sessions \subseteq [cookie : Cookies, password : 1 .. MaxPasswords] /\ IsFiniteSet(sessions)
    /\ \A s, t \in sessions : s.cookie = t.cookie => s = t
    /\ \A s \in sessions :
         s.password = account.password \/ s.cookie \in excusedSessions \/ \E c \in AuthCalls : Clears(c, s.cookie)

IdentityInv == LockoutHolds /\ FactorTyped /\ SpentHolds /\ CallsHold /\ SessionsHold

-----------------------------------------------------------------------------
(* What the invariant says.                                                *)

\* Two sets of which each element of one names one of the other have as many.
LEMMA CookiesCount ==
    ASSUME SessionsHold PROVE Cardinality(Live) = Cardinality(sessions)
<1> DEFINE f == [s \in sessions |-> s.cookie]
<1>1. f \in Bijection(sessions, Live)
  <2>1. f \in [sessions -> Live]
    BY DEF Live
  <2>2. \A s, t \in sessions : f[s] = f[t] => s = t
    BY DEF SessionsHold
  <2>3. \A k \in Live : \E s \in sessions : f[s] = k
    BY DEF Live
  <2> HIDE DEF f
  <2> QED
    BY <2>1, <2>2, <2>3 DEF Bijection, Injection, Surjection, IsInjective
<1>2. IsFiniteSet(sessions) /\ ExistsBijection(sessions, Live)
  BY <1>1 DEF SessionsHold, ExistsBijection
<1> QED
  BY <1>2, FS_Bijection

LEMMA IdentityInvImplies == IdentityInv => AttemptsAreCounted /\ SessionsFollowThePassword
<1> SUFFICES ASSUME IdentityInv PROVE AttemptsAreCounted /\ SessionsFollowThePassword
  OBVIOUS
<1> USE IdentityAssumption DEF IdentityInv
<1>1. IdentityTypeOK
  <2>1. account.password \in 1 .. MaxPasswords /\ account.locked \in {0, 1, 5, 25}
    BY DEF LockoutHolds, AccountShape
  <2>2. {account.weak, account.disabled} \subseteq BOOLEAN
    BY Zenon DEF LockoutHolds
  <2>3. totp \in [secret : 0 .. MaxSecrets, active : BOOLEAN, last : 0 .. MaxStep]
    BY DEF FactorTyped, FactorShape
  <2>4. Cardinality(Live) = Cardinality(sessions)
    BY CookiesCount
  <2> QED
    BY <2>1, <2>2, <2>3, <2>4 DEF IdentityTypeOK, LockoutHolds, FactorTyped, SessionsHold
<1>2. CodesAreSpentOnce /\ NoFailureIsLost
  BY DEF CodesAreSpentOnce, LockoutHolds, SpentHolds
<1>3. SessionsFollowThePassword
  BY DEF SessionsFollowThePassword, SessionsHold, Clears
<1> QED
  BY <1>1, <1>2, <1>3 DEF AttemptsAreCounted

LEMMA NoCodeFits == CodeShape(NoCode) /\ NoCode.secret = 0
BY DEF CodeShape, NoCode

\* The record of a request that is not running.
LEMMA IdleFits == CallFits(IdleCall) /\ IdleCall.code.secret = 0 /\ IdleCall.kind = "none"
<1>1. /\ IdleCall.code = NoCode /\ IdleCall.kind = "none" /\ IdleCall.pc = "idle" /\ IdleCall.weak = FALSE
      /\ IdleCall.keep = NoCookie /\ CallShape(IdleCall)
  BY IdentityAssumption DEF IdleCall, CallShape, CallKinds, CallPlaces
<1>2. IdleCall.weak \in BOOLEAN
  BY <1>1, Zenon
<1> QED
  BY <1>1, <1>2, NoCodeFits DEF CallFits

LEMMA IdentityInitInv == IdentityInit => IdentityInv
<1> SUFFICES ASSUME IdentityInit PROVE IdentityInv
  OBVIOUS
<1> USE IdentityAssumption DEF IdentityInit
<1>1. LockoutHolds
  <2>1. /\ account.password = 1 /\ account.failed = 0 /\ account.level = 0 /\ account.locked = 0
        /\ account.weak = TRUE /\ account.disabled = FALSE /\ AccountShape(account)
    BY DEF AccountShape
  <2>2. account.weak \in BOOLEAN /\ account.disabled \in BOOLEAN
    BY <2>1, Zenon
  <2> QED
    BY <2>1, <2>2 DEF LockoutHolds, NoFailureIsLost
<1>2. FactorTyped
  <2>1. totp.secret = 0 /\ totp.active = FALSE /\ FactorShape(totp)
    BY DEF NoTOTP, FactorShape
  <2>2. totp.active \in BOOLEAN
    BY <2>1, Zenon
  <2>3. fresh.secret = 1 /\ fresh \in [password : Nat \ {0}, secret : Nat \ {0}, set : Nat \ {0}]
    OBVIOUS
  <2> QED
    BY <2>1, <2>2, <2>3 DEF FactorTyped
<1>3. SpentHolds
  BY DEF SpentHolds
<1>4. CallsHold
  <2>1. \A c \in AuthCalls : authCall[c] = IdleCall
    OBVIOUS
  <2>2. fresh.secret = 1
    OBVIOUS
  <2>3. authCall = [c \in AuthCalls |-> authCall[c]]
    OBVIOUS
  <2> QED
    BY <2>1, <2>2, <2>3, IdleFits DEF CallsHold
<1>5. SessionsHold
  BY FS_EmptySet DEF SessionsHold
<1> QED
  BY <1>1, <1>2, <1>3, <1>4, <1>5 DEF IdentityInv

-----------------------------------------------------------------------------
(* The parts a step leaves alone.                                          *)

\* The record of one request is replaced.
LEMMA CallBecomes ==
    ASSUME CallsHold, NEW c \in AuthCalls, NEW q, authCall' = [authCall EXCEPT ![c] = q], CallFits(q),
           fresh.secret \in Nat, fresh'.secret \in Nat, fresh.secret <= fresh'.secret, q.code.secret < fresh'.secret
    PROVE  /\ CallsHold' /\ authCall'[c] = q
           /\ \A d \in AuthCalls : d # c => authCall'[d] = authCall[d]
<1>1. authCall' = [d \in AuthCalls |-> IF d = c THEN q ELSE authCall[d]]
  BY DEF CallsHold
<1>2. \A d \in AuthCalls : authCall'[d] = IF d = c THEN q ELSE authCall[d]
  BY <1>1
<1>3. \A d \in AuthCalls : authCall[d].code.secret \in Nat
  BY DEF CallsHold, CallFits, CodeShape
<1>4. \A d \in AuthCalls : CallFits(authCall'[d]) /\ authCall'[d].code.secret < fresh'.secret
  BY <1>2, <1>3 DEF CallsHold
<1> QED
  BY <1>1, <1>2, <1>4 DEF CallsHold

\* A request ends.
LEMMA CallReturns ==
    ASSUME IdentityInv, NEW c \in AuthCalls, Return(c),
           fresh'.secret \in Nat, fresh.secret <= fresh'.secret
    PROVE  /\ CallsHold' /\ authCall'[c] = IdleCall
           /\ \A d \in AuthCalls : d # c => authCall'[d] = authCall[d]
<1>1. fresh.secret \in Nat /\ 0 < fresh.secret
  BY DEF IdentityInv, FactorTyped
<1>2. authCall' = [authCall EXCEPT ![c] = IdleCall] /\ CallsHold
  BY DEF Return, IdentityInv
<1>3. IdleCall.code.secret < fresh'.secret
  BY <1>1, IdleFits
<1> QED
  BY <1>1, <1>2, <1>3, IdleFits, CallBecomes

\* A request goes on to another statement.
LEMMA CallGoes ==
    ASSUME IdentityInv, NEW c \in AuthCalls, NEW p \in CallPlaces, Goto(c, p),
           fresh' = fresh, p = "consume" => authCall[c].code.secret # 0, p # "revoke"
    PROVE  /\ CallsHold' /\ authCall'[c] = [authCall[c] EXCEPT !.pc = p]
           /\ authCall'[c].pc = p /\ authCall'[c].kind = authCall[c].kind /\ authCall'[c].cookie = authCall[c].cookie
           /\ \A d \in AuthCalls : d # c => authCall'[d] = authCall[d]
<1> DEFINE q == [authCall[c] EXCEPT !.pc = p]
<1>1. CallsHold /\ CallFits(authCall[c]) /\ authCall[c].code.secret < fresh.secret /\ fresh.secret \in Nat
  BY DEF IdentityInv, CallsHold, FactorTyped
<1>2. authCall' = [authCall EXCEPT ![c] = q]
  BY DEF Goto
<1>3. /\ q.pc = p /\ q.kind = authCall[c].kind /\ q.password = authCall[c].password /\ q.code = authCall[c].code
      /\ q.weak = authCall[c].weak /\ q.read = authCall[c].read /\ q.cookie = authCall[c].cookie
      /\ q.keep = authCall[c].keep /\ CallShape(q)
  BY <1>1 DEF CallFits, CallShape
<1> HIDE DEF q
<1>4. CallFits(q)
  BY <1>1, <1>3 DEF CallFits
<1>5. q.code.secret < fresh'.secret /\ fresh.secret <= fresh'.secret /\ fresh'.secret \in Nat
  BY <1>1, <1>3
<1>6. CallsHold' /\ authCall'[c] = q /\ \A d \in AuthCalls : d # c => authCall'[d] = authCall[d]
  BY <1>1, <1>2, <1>4, <1>5, CallBecomes
<1> QED
  BY <1>3, <1>6 DEF q

\* The factor is as it was.
LEMMA FactorStays ==
    ASSUME IdentityInv, UNCHANGED <<factorVars, step>>,
           fresh' \in [password : Nat \ {0}, secret : Nat \ {0}, set : Nat \ {0}],
           fresh'.secret = fresh.secret, fresh'.set = fresh.set
    PROVE  FactorTyped' /\ SpentHolds'
BY DEF IdentityInv, FactorTyped, SpentHolds, factorVars

\* The row and its count are as they were.
LEMMA LockoutStays ==
    ASSUME IdentityInv, UNCHANGED lockoutVars PROVE LockoutHolds'
BY DEF IdentityInv, LockoutHolds, NoFailureIsLost, lockoutVars

\* The sessions are as they were, and no change under way has ended.
LEMMA SessionsStay ==
    ASSUME IdentityInv, UNCHANGED sessionVars, account'.password = account.password,
           \A d \in AuthCalls : \A k \in Cookies : Clears(d, k) => Clears(d, k)'
    PROVE  SessionsHold'
<1>1. \A s \in sessions : s.cookie \in Cookies
  BY DEF IdentityInv, SessionsHold
<1> HIDE DEF Clears
<1> QED
  BY <1>1 DEF IdentityInv, SessionsHold, sessionVars

\* The request that moves was no change past its update.
LEMMA OthersStillClear ==
    ASSUME NEW c \in AuthCalls, \A d \in AuthCalls : d # c => authCall'[d] = authCall[d],
           authCall[c].kind # "change" \/ authCall[c].pc \notin {"mint", "lookup", "revoke"}
    PROVE  \A d \in AuthCalls : \A k \in Cookies : Clears(d, k) => Clears(d, k)'
BY DEF Clears

\* A step that only moves a request, and no change past its update.
LEMMA OnlyTheCall ==
    ASSUME IdentityInv, NEW c \in AuthCalls, UNCHANGED <<lockoutVars, factorVars, sessionVars, worldVars>>,
           CallsHold', \A d \in AuthCalls : d # c => authCall'[d] = authCall[d],
           authCall[c].kind # "change" \/ authCall[c].pc \notin {"mint", "lookup", "revoke"}
    PROVE  IdentityInv'
<1>1. LockoutHolds'
  BY LockoutStays
<1>2. FactorTyped' /\ SpentHolds'
  BY FactorStays DEF worldVars, IdentityInv, FactorTyped
<1>3. account'.password = account.password
  BY DEF lockoutVars
<1>4. SessionsHold'
  BY <1>3, OthersStillClear, SessionsStay
<1> QED
  BY <1>1, <1>2, <1>4 DEF IdentityInv

\* A request that begins.
LEMMA CallBegins ==
    ASSUME IdentityInv, NEW c \in AuthCalls, NEW q, authCall' = [authCall EXCEPT ![c] = q], CallFits(q),
           q.code.secret < fresh.secret, authCall[c].pc = "idle",
           UNCHANGED <<lockoutVars, factorVars, sessionVars, worldVars>>
    PROVE  IdentityInv'
<1>1. fresh' = fresh /\ fresh.secret \in Nat /\ CallsHold
  BY DEF IdentityInv, FactorTyped, worldVars
<1>2. fresh'.secret \in Nat /\ fresh.secret <= fresh'.secret /\ q.code.secret < fresh'.secret
  BY <1>1
<1>3. CallsHold' /\ \A d \in AuthCalls : d # c => authCall'[d] = authCall[d]
  BY <1>1, <1>2, CallBecomes
<1> QED
  BY <1>3, OnlyTheCall

\* What a holder can type is a code of a secret that has been given out.
LEMMA TypedFits ==
    ASSUME IdentityInv, NEW code \in Typed
    PROVE  CodeShape(code) /\ code.secret \in Nat /\ code.secret < fresh.secret
<1> USE IdentityAssumption
<1>1. /\ totp.secret \in Nat /\ totp.secret < fresh.secret /\ fresh.secret \in Nat /\ 0 < fresh.secret
      /\ step \in 1 .. MaxStep /\ recovery \subseteq Nat
  BY DEF IdentityInv, FactorTyped, FactorShape
<1>2. CASE code = NoCode
  BY <1>1, <1>2, NoCodeFits
<1>3. CASE code \in [secret : {totp.secret} \ {0}, n : {step, step - 1} \ {0}]
  BY <1>1, <1>3 DEF CodeShape
<1>4. CASE code \in [secret : {0}, n : recovery]
  <2>1. code.secret = 0 /\ code.n \in recovery
    BY <1>4
  <2>2. code \in [secret : Nat, n : Nat]
    <3>1. code = [secret |-> code.secret, n |-> code.n] /\ recovery \subseteq Nat
      BY <1>1, <1>4
    <3>2. code.n \in Nat
      BY <2>1, <3>1, Zenon
    <3> QED
      BY <2>1, <3>1, <3>2
  <2> QED
    BY <1>1, <2>1, <2>2 DEF CodeShape
<1> QED
  BY <1>2, <1>3, <1>4 DEF Typed

-----------------------------------------------------------------------------
(* Accounts: logins.                                                       *)

LEMMA LoginReadInv ==
    ASSUME IdentityInv, NEW c \in AuthCalls, NEW password, NEW code, LoginRead(c, password, code),
           CodeShape(code), code.secret < fresh.secret
    PROVE  IdentityInv'
<1> USE IdentityAssumption
<1> DEFINE p == IF password # account.password THEN "failed" ELSE IF account.weak THEN "rehash" ELSE "status"
<1>1. p \in {"failed", "rehash", "status"}
  OBVIOUS
<1>2. PICK q : /\ q = [IdleCall EXCEPT !.kind = "login", !.level = account.level, !.password = account.password,
                                       !.read = account.failed, !.code = code, !.pc = p]
               /\ authCall' = [authCall EXCEPT ![c] = q]
  BY Zenon DEF LoginRead
<1>3. authCall[c].pc = "idle" /\ UNCHANGED <<lockoutVars, factorVars, sessionVars, worldVars>>
  BY DEF LoginRead
<1> HIDE DEF p
<1>4. account.password \in 1 .. MaxPasswords /\ account.level \in Nat /\ account.failed \in Nat
  BY DEF IdentityInv, LockoutHolds, AccountShape
<1>5. q = [kind |-> "login", pc |-> p, password |-> account.password, level |-> account.level, code |-> code,
           weak |-> FALSE, read |-> account.failed, cookie |-> NoCookie, keep |-> NoCookie]
  BY <1>2, Zenon DEF IdleCall
<1>6. /\ q.kind = "login" /\ q.pc = p /\ q.password = account.password /\ q.level = account.level /\ q.code = code
      /\ q.weak = FALSE /\ q.read = account.failed /\ q.cookie = NoCookie /\ q.keep = NoCookie
  BY <1>5
<1>7. CallShape(q)
  BY <1>1, <1>4, <1>5, <1>6 DEF CallShape, CallPlaces, CallKinds
<1>8. q.weak \in BOOLEAN
  BY <1>6, Zenon
<1>9. CallFits(q)
  BY <1>1, <1>4, <1>6, <1>7, <1>8 DEF CallFits
<1> QED
  BY <1>2, <1>3, <1>6, <1>9, CallBegins

\* The hash of the password that was checked is put back over whatever is there by then:
\* what sessions there are is excused.
LEMMA LoginRehashInv ==
    ASSUME IdentityInv, NEW c \in AuthCalls, LoginRehash(c)
    PROVE  IdentityInv'
<1> USE IdentityAssumption
<1>1. /\ authCall[c].kind = "login" /\ Goto(c, "status") /\ recorded' = recorded /\ sessions' = sessions
      /\ UNCHANGED factorVars /\ step' = step /\ fresh' = fresh
  BY DEF LoginRehash, InFlight, worldVars
<1>2. CallsHold' /\ \A d \in AuthCalls : d # c => authCall'[d] = authCall[d]
  BY <1>1, CallGoes DEF CallPlaces
<1>3. FactorTyped' /\ SpentHolds'
  BY <1>1, FactorStays DEF IdentityInv, FactorTyped
<1>4. CASE UNCHANGED <<account, excusedSessions>>
  <2>1. LockoutHolds'
    BY <1>1, <1>4, LockoutStays DEF lockoutVars
  <2>2. SessionsHold'
    BY <1>1, <1>2, <1>4, OthersStillClear, SessionsStay DEF sessionVars
  <2> QED
    BY <1>2, <1>3, <2>1, <2>2 DEF IdentityInv
<1>5. CASE /\ account' = [account EXCEPT !.password = authCall[c].password, !.weak = FALSE]
           /\ excusedSessions' = IF account.password = authCall[c].password THEN excusedSessions ELSE Live
  <2>1. AccountShape(account) /\ account.disabled \in BOOLEAN /\ authCall[c].password \in 1 .. MaxPasswords
    BY <1>1 DEF IdentityInv, LockoutHolds, CallsHold, CallFits, CallShape
  <2>2. /\ account'.password = authCall[c].password /\ account'.weak = FALSE /\ account'.disabled = account.disabled
        /\ account'.failed = account.failed /\ account'.level = account.level /\ AccountShape(account')
    BY <1>5, <2>1 DEF AccountShape
  <2>3. account'.weak \in BOOLEAN
    BY <2>2, Zenon
  <2>4. LockoutHolds'
    BY <1>1, <2>1, <2>2, <2>3 DEF IdentityInv, LockoutHolds, NoFailureIsLost
  <2>5. SessionsHold'
    <3>1. CASE account.password = authCall[c].password
      BY <1>1, <1>2, <1>5, <2>2, <3>1, OthersStillClear, SessionsStay DEF sessionVars
    <3>2. CASE account.password # authCall[c].password
      <4>1. \A s \in sessions' : s.cookie \in excusedSessions'
        BY <1>1, <1>5, <3>2 DEF Live
      <4> QED
        BY <1>1, <4>1 DEF IdentityInv, SessionsHold
    <3> QED
      BY <3>1, <3>2
  <2> QED
    BY <1>2, <1>3, <2>4, <2>5 DEF IdentityInv
<1> QED
  BY <1>4, <1>5 DEF LoginRehash

\* The row with other counts.
LEMMA CountsFit ==
    ASSUME AccountShape(account), NEW f \in Nat, NEW l \in Nat, NEW w \in {0, 1, 5, 25},
           account' = [account EXCEPT !.failed = f, !.level = l, !.locked = w]
    PROVE  /\ AccountShape(account') /\ account'.failed = f /\ account'.level = l
           /\ account'.password = account.password /\ account'.weak = account.weak
           /\ account'.disabled = account.disabled
<1>1. /\ account'.failed = f /\ account'.level = l /\ account'.locked = w
      /\ account'.password = account.password /\ account'.weak = account.weak
      /\ account'.disabled = account.disabled
  BY DEF AccountShape
<1>2. AccountShape(account')
  BY <1>1 DEF AccountShape
<1> QED
  BY <1>1, <1>2

\* The count of a failure carries over into the level.
LEMMA RecordFailureInv ==
    ASSUME IdentityInv, NEW c \in AuthCalls, RecordFailure(c)
    PROVE  IdentityInv'
<1> USE IdentityAssumption
<1>1. /\ authCall[c].kind = "login" /\ Return(c) /\ account' = RecordFailedLogin(c) /\ recorded' = recorded + 1
      /\ UNCHANGED <<factorVars, sessionVars>> /\ step' = step /\ fresh' = fresh
  BY DEF RecordFailure, InFlight, worldVars
<1>2. fresh.secret \in Nat
  BY DEF IdentityInv, FactorTyped
<1>3. CallsHold' /\ \A d \in AuthCalls : d # c => authCall'[d] = authCall[d]
  BY <1>1, <1>2, CallReturns
<1>4. FactorTyped' /\ SpentHolds'
  BY <1>1, FactorStays DEF IdentityInv, FactorTyped
<1>5. /\ AccountShape(account) /\ account.failed \in Nat /\ account.level \in Nat /\ account.failed < LockoutThreshold
      /\ recorded = account.level * LockoutThreshold + account.failed /\ recorded \in Nat
      /\ account.weak \in BOOLEAN /\ account.disabled \in BOOLEAN
  BY DEF IdentityInv, LockoutHolds, NoFailureIsLost, AccountShape
<1>6. /\ account'.password = account.password /\ AccountShape(account') /\ account'.failed < LockoutThreshold
      /\ account'.weak = account.weak /\ account'.disabled = account.disabled
      /\ recorded + 1 = account'.level * LockoutThreshold + account'.failed
  <2>1. CASE account.failed + 1 >= LockoutThreshold
    <3> DEFINE w == LockWindow(authCall[c].level + 1)
    <3>1. w \in {0, 1, 5, 25} /\ account.level + 1 \in Nat /\ 0 \in Nat
      BY <1>5 DEF LockWindow
    <3>2. account' = [account EXCEPT !.failed = 0, !.level = account.level + 1, !.locked = w]
      BY <1>1, <2>1 DEF RecordFailedLogin
    <3> HIDE DEF w
    <3>3. /\ account'.password = account.password /\ AccountShape(account') /\ account'.failed = 0
          /\ account'.level = account.level + 1
          /\ account'.weak = account.weak /\ account'.disabled = account.disabled
      BY <1>5, <3>1, <3>2, CountsFit
    <3>4. account.failed + 1 = LockoutThreshold
      BY <1>5, <2>1
    <3>5. (account.level + 1) * LockoutThreshold = account.level * LockoutThreshold + LockoutThreshold
      BY <1>5
    <3>6. account.level * LockoutThreshold \in Nat
      BY <1>5
    <3>7. recorded + 1 = (account.level + 1) * LockoutThreshold
      <4> DEFINE z == account.level * LockoutThreshold
      <4>1. recorded = z + account.failed /\ z \in Nat
        BY <1>5, <3>6
      <4>2. (account.level + 1) * LockoutThreshold = z + LockoutThreshold
        BY <3>5
      <4>3. account.failed \in Nat /\ LockoutThreshold \in Nat
        BY <1>5
      <4> HIDE DEF z
      <4> QED
        BY <3>4, <4>1, <4>2, <4>3
    <3> QED
      BY <1>5, <3>3, <3>7
  <2>2. CASE ~(account.failed + 1 >= LockoutThreshold)
    <3>1. account' = [account EXCEPT !.failed = account.failed + 1]
      BY <1>1, <2>2 DEF RecordFailedLogin
    <3>2. /\ account'.password = account.password /\ AccountShape(account') /\ account'.failed = account.failed + 1
          /\ account'.level = account.level
          /\ account'.weak = account.weak /\ account'.disabled = account.disabled
      BY <1>5, <3>1 DEF AccountShape
    <3>3. account.level * LockoutThreshold \in Nat
      BY <1>5
    <3>4. account'.failed < LockoutThreshold
      BY <1>5, <2>2, <3>2
    <3>5. recorded + 1 = account'.level * LockoutThreshold + account'.failed
      <4> DEFINE z == account.level * LockoutThreshold
      <4>1. recorded = z + account.failed /\ z \in Nat /\ account.failed \in Nat
        BY <1>5, <3>3
      <4>2. account'.level * LockoutThreshold = z
        BY <3>2
      <4> HIDE DEF z
      <4> QED
        BY <3>2, <4>1, <4>2
    <3> QED
      BY <3>2, <3>4, <3>5
  <2> QED
    BY <2>1, <2>2
<1>7. LockoutHolds'
  BY <1>1, <1>5, <1>6 DEF LockoutHolds, NoFailureIsLost
<1>8. SessionsHold'
  BY <1>1, <1>3, <1>6, OthersStillClear, SessionsStay
<1> QED
  BY <1>3, <1>4, <1>7, <1>8 DEF IdentityInv

LEMMA ResetCounts ==
    ASSUME LockoutHolds, account' = ResetFailures, recorded' = 0
    PROVE  LockoutHolds' /\ account'.password = account.password
<1>1. AccountShape(account) /\ account' = [account EXCEPT !.failed = 0, !.level = 0, !.locked = 0] /\ 0 \in Nat
      /\ 0 \in {0, 1, 5, 25}
  BY DEF LockoutHolds, ResetFailures
<1>2. /\ account'.password = account.password /\ AccountShape(account') /\ account'.failed = 0 /\ account'.level = 0
      /\ account'.weak = account.weak /\ account'.disabled = account.disabled
  BY <1>1, CountsFit
<1> QED
  BY <1>2, IdentityAssumption DEF LockoutHolds, NoFailureIsLost

LEMMA LoginGoesOnInv ==
    ASSUME IdentityInv, NEW c \in AuthCalls, LoginStatus(c) \/ LoginReset(c)
    PROVE  IdentityInv'
<1> USE IdentityAssumption
<1>0. fresh.secret \in Nat /\ authCall[c].kind = "login"
  BY DEF IdentityInv, FactorTyped, LoginStatus, LoginReset, InFlight
<1>1. CASE LoginStatus(c)
  <2>1. UNCHANGED <<lockoutVars, factorVars, sessionVars, worldVars>> /\ fresh' = fresh
        /\ (Goto(c, "reset") \/ Return(c) \/ Goto(c, "factor"))
    BY <1>1 DEF LoginStatus, worldVars
  <2>2. CallsHold' /\ \A d \in AuthCalls : d # c => authCall'[d] = authCall[d]
    <3>1. CASE Return(c)
      BY <1>0, <2>1, <3>1, CallReturns
    <3>2. CASE Goto(c, "reset")
      BY <2>1, <3>2, CallGoes DEF CallPlaces
    <3>3. CASE Goto(c, "factor")
      BY <2>1, <3>3, CallGoes DEF CallPlaces
    <3> QED
      BY <2>1, <3>1, <3>2, <3>3
  <2> QED
    BY <1>0, <2>1, <2>2, OnlyTheCall
<1>2. CASE LoginReset(c)
  <2>1. /\ account' = ResetFailures /\ recorded' = 0 /\ Goto(c, "mint") /\ fresh' = fresh /\ step' = step
        /\ UNCHANGED <<factorVars, sessionVars>>
    BY <1>2 DEF LoginReset, worldVars
  <2>2. CallsHold' /\ \A d \in AuthCalls : d # c => authCall'[d] = authCall[d]
    BY <2>1, CallGoes DEF CallPlaces
  <2>3. FactorTyped' /\ SpentHolds'
    BY <2>1, FactorStays DEF IdentityInv, FactorTyped
  <2>4. LockoutHolds' /\ account'.password = account.password
    BY <2>1, ResetCounts DEF IdentityInv
  <2>5. SessionsHold'
    BY <1>0, <2>1, <2>2, <2>4, OthersStillClear, SessionsStay
  <2> QED
    BY <2>2, <2>3, <2>4, <2>5 DEF IdentityInv
<1> QED
  BY <1>1, <1>2

\* A session that is made is of the password now set, or excused.
LEMMA SessionMade ==
    ASSUME IdentityInv, NEW c \in AuthCalls, NEW cookie \in Cookies, CreateSession(c, cookie),
           authCall[c].password \in 1 .. MaxPasswords, account' = account,
           \A d \in AuthCalls : \A k \in Live : Clears(d, k) => Clears(d, k)'
    PROVE  SessionsHold'
<1> DEFINE n == [cookie |-> cookie, password |-> authCall[c].password]
<1>1. /\ cookie \notin Live /\ sessions' = sessions \cup {n}
      /\ excusedSessions' = IF authCall[c].password = account.password
                              THEN excusedSessions \ {cookie} ELSE excusedSessions \cup {cookie}
  BY DEF CreateSession
<1>2. n \in [cookie : Cookies, password : 1 .. MaxPasswords] /\ n.cookie = cookie /\ n.password = authCall[c].password
  OBVIOUS
<1> HIDE DEF n
<1>3. \A s \in sessions : s.cookie \in Live /\ s.cookie # cookie
  BY <1>1 DEF Live
<1>4. IsFiniteSet(sessions')
  BY <1>1, FS_AddElement DEF IdentityInv, SessionsHold
<1>5. \A s, t \in sessions' : s.cookie = t.cookie => s = t
  BY <1>1, <1>2, <1>3 DEF IdentityInv, SessionsHold
<1>6. \A s \in sessions : s.cookie \in excusedSessions => s.cookie \in excusedSessions'
  BY <1>1, <1>3
<1>7. n.password = account.password \/ n.cookie \in excusedSessions'
  BY <1>1, <1>2
<1>8. \A s \in sessions' :
         s.password = account'.password \/ s.cookie \in excusedSessions' \/ \E d \in AuthCalls : Clears(d, s.cookie)'
  <2> HIDE DEF Clears
  <2>1. \A s \in sessions : s.password = account.password \/ s.cookie \in excusedSessions
           \/ \E d \in AuthCalls : Clears(d, s.cookie)
    BY DEF IdentityInv, SessionsHold
  <2>2. \A s \in sessions : s.password = account'.password \/ s.cookie \in excusedSessions'
           \/ \E d \in AuthCalls : Clears(d, s.cookie)'
    BY <1>3, <1>6, <2>1
  <2> QED
    BY <1>1, <1>7, <2>2
<1>9. sessions' \subseteq [cookie : Cookies, password : 1 .. MaxPasswords]
  BY <1>1, <1>2 DEF IdentityInv, SessionsHold
<1> QED
  BY <1>4, <1>5, <1>8, <1>9 DEF SessionsHold

LEMMA LoginMintInv ==
    ASSUME IdentityInv, NEW c \in AuthCalls, NEW cookie \in Cookies, LoginMint(c, cookie)
    PROVE  IdentityInv'
<1> USE IdentityAssumption
<1>1. /\ authCall[c].kind = "login" /\ CreateSession(c, cookie) /\ Return(c) /\ UNCHANGED <<lockoutVars, factorVars>>
      /\ account' = account /\ fresh' = fresh /\ step' = step
  BY DEF LoginMint, InFlight, lockoutVars, worldVars
<1>2. fresh.secret \in Nat /\ authCall[c].password \in 1 .. MaxPasswords
  BY <1>1 DEF IdentityInv, FactorTyped, CallsHold, CallFits, CallShape
<1>3. CallsHold' /\ \A d \in AuthCalls : d # c => authCall'[d] = authCall[d]
  BY <1>1, <1>2, CallReturns
<1>4. FactorTyped' /\ SpentHolds' /\ LockoutHolds'
  BY <1>1, FactorStays, LockoutStays DEF IdentityInv, FactorTyped
<1>5. \A d \in AuthCalls : \A k \in Live : Clears(d, k) => Clears(d, k)'
  BY <1>1, <1>3 DEF Clears
<1>6. SessionsHold'
  BY <1>1, <1>2, <1>5, SessionMade
<1> QED
  BY <1>3, <1>4, <1>6 DEF IdentityInv

-----------------------------------------------------------------------------
(* Accounts: the second factor.                                            *)

\* DisableTOTP and RegenerateRecoveryCodes begin with a code.
LEMMA FactorBeginInv ==
    ASSUME IdentityInv, NEW c \in AuthCalls, NEW kind \in {"disable", "regenerate"}, NEW code,
           FactorBegin(c, kind, code), CodeShape(code), code.secret < fresh.secret
    PROVE  IdentityInv'
<1> USE IdentityAssumption
<1>1. PICK q : /\ q = [IdleCall EXCEPT !.kind = kind, !.pc = "factor", !.code = code]
               /\ authCall' = [authCall EXCEPT ![c] = q]
  BY Zenon DEF FactorBegin
<1>2. authCall[c].pc = "idle" /\ UNCHANGED <<lockoutVars, factorVars, sessionVars, worldVars>>
  BY DEF FactorBegin
<1>3. q = [kind |-> kind, pc |-> "factor", password |-> 0, level |-> 0, code |-> code, weak |-> FALSE, read |-> 0,
           cookie |-> NoCookie, keep |-> NoCookie]
  BY <1>1, Zenon DEF IdleCall
<1>4. q.kind = kind /\ q.pc = "factor" /\ q.code = code /\ q.weak = FALSE
  BY <1>3
<1>5. CallShape(q)
  BY <1>3, <1>4 DEF CallShape, CallPlaces, CallKinds
<1>6. q.weak \in BOOLEAN
  BY <1>4, Zenon
<1>7. CallFits(q)
  BY <1>4, <1>5, <1>6 DEF CallFits
<1> QED
  BY <1>1, <1>2, <1>4, <1>7, CallBegins

\* A step of a request about the factor: only the factor and the request change.
LEMMA FactorStep ==
    ASSUME IdentityInv, NEW c \in AuthCalls, UNCHANGED <<lockoutVars, sessionVars>>,
           CallsHold', \A d \in AuthCalls : d # c => authCall'[d] = authCall[d],
           authCall[c].kind # "change", FactorTyped', SpentHolds'
    PROVE  IdentityInv'
<1>1. LockoutHolds'
  BY LockoutStays
<1>2. account'.password = account.password
  BY DEF lockoutVars
<1>3. SessionsHold'
  BY <1>2, OthersStillClear, SessionsStay
<1> QED
  BY <1>1, <1>3 DEF IdentityInv

LEMMA VerifySecondFactorInv ==
    ASSUME IdentityInv, NEW c \in AuthCalls, VerifySecondFactor(c)
    PROVE  IdentityInv'
<1>1. /\ UNCHANGED <<lockoutVars, factorVars, sessionVars, worldVars>> /\ fresh' = fresh
      /\ authCall[c].kind # "change"
  BY DEF VerifySecondFactor, InFlight, worldVars
<1>2. fresh.secret \in Nat
  BY DEF IdentityInv, FactorTyped
<1>3. CallsHold' /\ \A d \in AuthCalls : d # c => authCall'[d] = authCall[d]
  <2>1. CASE ~totp.active
    <3>1. Return(c)
      BY <2>1 DEF VerifySecondFactor
    <3> QED
      BY <1>1, <1>2, <3>1, CallReturns
  <2>2. CASE totp.active /\ VerifyTOTP(totp.secret, authCall[c].code)
    <3>1. Goto(c, "consume") /\ authCall[c].code.secret # 0
      BY <2>2 DEF VerifySecondFactor, VerifyTOTP
    <3> QED
      BY <1>1, <3>1, CallGoes DEF CallPlaces
  <2>3. CASE totp.active /\ ~VerifyTOTP(totp.secret, authCall[c].code)
    <3>1. Goto(c, "recover")
      BY <2>3 DEF VerifySecondFactor
    <3> QED
      BY <1>1, <3>1, CallGoes DEF CallPlaces
  <2> QED
    BY <2>1, <2>2, <2>3
<1> QED
  BY <1>1, <1>3, OnlyTheCall

\* Where a request goes when its code is taken or refused.
LEMMA CodeAnswered ==
    ASSUME IdentityInv, NEW c \in AuthCalls, fresh' = fresh, authCall[c].kind \in {"login", "disable", "regenerate"},
           Goto(c, Accepted(authCall[c].kind)) \/ Goto(c, "failed") \/ Return(c)
    PROVE  CallsHold' /\ \A d \in AuthCalls : d # c => authCall'[d] = authCall[d]
<1>1. fresh.secret \in Nat
  BY DEF IdentityInv, FactorTyped
<1>2. CASE Return(c)
  BY <1>1, <1>2, CallReturns
<1>3. CASE Goto(c, "failed")
  BY <1>3, CallGoes DEF CallPlaces
<1>4. CASE Goto(c, Accepted(authCall[c].kind))
  <2> DEFINE p == Accepted(authCall[c].kind)
  <2>1. p \in CallPlaces /\ p # "consume" /\ p # "revoke"
    BY DEF Accepted, CallPlaces
  <2> HIDE DEF p
  <2>2. Goto(c, p)
    BY <1>4 DEF p
  <2> QED
    BY <2>1, <2>2, CallGoes
<1> QED
  BY <1>2, <1>3, <1>4

\* ConsumeTOTPStep moves the last step up to the code's: a code spent earlier is not above it.
LEMMA ConsumeStepInv ==
    ASSUME IdentityInv, NEW c \in AuthCalls, ConsumeStep(c)
    PROVE  IdentityInv'
<1> USE IdentityAssumption
<1> DEFINE k == authCall[c].code
<1>1. /\ authCall[c].kind \in {"login", "disable", "regenerate"} /\ authCall[c].pc = "consume"
      /\ recovery' = recovery /\ UNCHANGED <<lockoutVars, sessionVars>> /\ fresh' = fresh /\ step' = step
  BY DEF ConsumeStep, InFlight, worldVars
<1>2. k.secret \in Nat /\ k.n \in Nat /\ k.secret # 0 /\ k.n <= MaxStep /\ k.secret < fresh.secret
  BY <1>1 DEF IdentityInv, CallsHold, CallFits, CodeShape
<1>3. CASE ConsumeTOTPStep(k)
  <2>1. /\ totp.active /\ totp.last < k.n /\ totp' = [totp EXCEPT !.last = k.n]
        /\ spent' = spent \cup {k} /\ replayed' = (replayed \/ (k \in spent /\ k.secret = totp.secret))
        /\ Goto(c, Accepted(authCall[c].kind))
    BY <1>3 DEF ConsumeStep, ConsumeTOTPStep, Honour
  <2>2. CallsHold' /\ \A d \in AuthCalls : d # c => authCall'[d] = authCall[d]
    BY <1>1, <2>1, CodeAnswered
  <2> HIDE DEF k
  <2>3. /\ totp'.last = k.n /\ totp'.secret = totp.secret /\ totp'.active = totp.active /\ FactorShape(totp')
        /\ totp.last \in Nat
    <3>1. FactorShape(totp) /\ totp' = [totp EXCEPT !.last = k.n]
      BY <2>1 DEF IdentityInv, FactorTyped
    <3>2. /\ totp'.last = k.n /\ totp'.secret = totp.secret /\ totp'.active = totp.active /\ totp.last \in Nat
          /\ k.n \in 0 .. MaxStep
      BY <1>2, <3>1 DEF FactorShape
    <3>3. FactorShape(totp')
      BY <3>1, <3>2 DEF FactorShape
    <3> QED
      BY <3>2, <3>3
  <2>4. totp'.active \in BOOLEAN
    BY <2>3 DEF IdentityInv, FactorTyped
  <2>5. FactorTyped'
    <3>1. totp.secret # 0
      <4>1. NoTOTP.active = FALSE
        BY DEF NoTOTP
      <4>2. totp.secret = 0 => totp = NoTOTP
        BY DEF IdentityInv, FactorTyped
      <4> QED
        BY <2>1, <4>1, <4>2
    <3> QED
      BY <1>1, <2>3, <2>4, <3>1 DEF IdentityInv, FactorTyped
  <2>6. ~(k \in spent /\ k.secret = totp.secret)
    BY <1>2, <2>1, <2>3 DEF IdentityInv, SpentHolds
  <2>7. replayed' = FALSE
    BY <2>1, <2>6 DEF IdentityInv, SpentHolds
  <2>8. \A j \in spent' :
           /\ j.secret \in Nat /\ j.n \in Nat /\ j.secret < fresh.secret
           /\ j.secret # 0 /\ j.secret = totp.secret => j.n <= k.n
           /\ j.secret = 0 => j.n \notin recovery /\ j.n < fresh.set
    BY <1>2, <2>1, <2>3 DEF IdentityInv, SpentHolds
  <2>9. SpentHolds'
    BY <1>1, <2>3, <2>7, <2>8 DEF SpentHolds
  <2> QED
    BY <1>1, <2>2, <2>5, <2>9, FactorStep
<1>4. CASE ~ConsumeTOTPStep(k)
  <2>1. /\ totp' = totp /\ UNCHANGED <<spent, replayed>> /\ (Goto(c, "failed") \/ Return(c))
    BY <1>4 DEF ConsumeStep, Refuse
  <2>2. CallsHold' /\ \A d \in AuthCalls : d # c => authCall'[d] = authCall[d]
    BY <1>1, <2>1, CodeAnswered
  <2>3. FactorTyped' /\ SpentHolds'
    BY <1>1, <2>1, FactorStays DEF IdentityInv, FactorTyped, factorVars
  <2> QED
    BY <1>1, <2>2, <2>3, FactorStep
<1> QED
  BY <1>3, <1>4

\* ConsumeRecoveryCode deletes the row it finds: a code spent earlier is not among the rows.
LEMMA ConsumeRecoveryInv ==
    ASSUME IdentityInv, NEW c \in AuthCalls, ConsumeRecovery(c)
    PROVE  IdentityInv'
<1> USE IdentityAssumption
<1> DEFINE k == authCall[c].code
<1>1. /\ authCall[c].kind \in {"login", "disable", "regenerate"}
      /\ totp' = totp /\ UNCHANGED <<lockoutVars, sessionVars>> /\ fresh' = fresh /\ step' = step
  BY DEF ConsumeRecovery, InFlight, worldVars
<1>2. k.secret \in Nat /\ k.n \in Nat /\ k.secret < fresh.secret
  BY DEF IdentityInv, CallsHold, CallFits, CodeShape
<1>3. CASE ConsumeRecoveryCode(k)
  <2>1. /\ k.secret = 0 /\ k.n \in recovery /\ recovery' = recovery \ {k.n}
        /\ spent' = spent \cup {k} /\ replayed' = (replayed \/ (k \in spent /\ TRUE))
        /\ Goto(c, Accepted(authCall[c].kind))
    BY <1>3 DEF ConsumeRecovery, ConsumeRecoveryCode, Honour
  <2>2. CallsHold' /\ \A d \in AuthCalls : d # c => authCall'[d] = authCall[d]
    BY <1>1, <2>1, CodeAnswered
  <2> HIDE DEF k
  <2>3. FactorTyped'
    BY <1>1, <2>1 DEF IdentityInv, FactorTyped
  <2>4. k \notin spent
    BY <1>2, <2>1 DEF IdentityInv, SpentHolds
  <2>5. replayed' = FALSE
    BY <2>1, <2>4 DEF IdentityInv, SpentHolds
  <2>6. k.n < fresh.set
    BY <2>1 DEF IdentityInv, FactorTyped
  <2>7. \A j \in spent' :
           /\ j.secret \in Nat /\ j.n \in Nat /\ j.secret < fresh.secret
           /\ j.secret # 0 /\ j.secret = totp.secret => j.n <= totp.last
           /\ j.secret = 0 => j.n \notin recovery' /\ j.n < fresh.set
    BY <1>2, <2>1, <2>6 DEF IdentityInv, SpentHolds
  <2>8. SpentHolds'
    BY <1>1, <2>5, <2>7 DEF SpentHolds
  <2> QED
    BY <1>1, <2>2, <2>3, <2>8, FactorStep
<1>4. CASE ~ConsumeRecoveryCode(k)
  <2>1. /\ recovery' = recovery /\ UNCHANGED <<spent, replayed>> /\ (Goto(c, "failed") \/ Return(c))
    BY <1>4 DEF ConsumeRecovery, Refuse
  <2>2. CallsHold' /\ \A d \in AuthCalls : d # c => authCall'[d] = authCall[d]
    BY <1>1, <2>1, CodeAnswered
  <2>3. FactorTyped' /\ SpentHolds'
    BY <1>1, <2>1, FactorStays DEF IdentityInv, FactorTyped, factorVars
  <2> QED
    BY <1>1, <2>2, <2>3, FactorStep
<1> QED
  BY <1>3, <1>4

\* The factor and its codes are deleted: nothing spent is of a secret 0, and no code is left.
LEMMA FactorDeleted ==
    ASSUME IdentityInv, DeleteTOTP, UNCHANGED <<spent, replayed, step, fresh>>
    PROVE  FactorTyped' /\ SpentHolds'
<1> USE IdentityAssumption
<1>1. totp'.secret = 0 /\ totp'.active = FALSE /\ FactorShape(totp') /\ totp' = NoTOTP /\ recovery' = {}
  BY DEF DeleteTOTP, NoTOTP, FactorShape
<1>2. totp'.active \in BOOLEAN
  BY <1>1, Zenon
<1>3. FactorTyped'
  BY <1>1, <1>2 DEF IdentityInv, FactorTyped
<1>4. SpentHolds'
  BY <1>1 DEF IdentityInv, SpentHolds
<1> QED
  BY <1>3, <1>4

LEMMA DisableTOTPInv ==
    ASSUME IdentityInv, NEW c \in AuthCalls, DisableTOTP(c)
    PROVE  IdentityInv'
<1>1. /\ authCall[c].kind # "change" /\ Return(c) /\ DeleteTOTP /\ UNCHANGED <<lockoutVars, sessionVars>>
      /\ UNCHANGED <<spent, replayed, step, fresh>> /\ fresh' = fresh /\ fresh.secret \in Nat
  BY DEF DisableTOTP, InFlight, worldVars, IdentityInv, FactorTyped
<1>2. CallsHold' /\ \A d \in AuthCalls : d # c => authCall'[d] = authCall[d]
  BY <1>1, CallReturns
<1>3. FactorTyped' /\ SpentHolds'
  BY <1>1, FactorDeleted
<1> QED
  BY <1>1, <1>2, <1>3, FactorStep

\* A new set of recovery codes has a number no spent code has.
LEMMA ReplaceRecoveryCodesInv ==
    ASSUME IdentityInv, NEW c \in AuthCalls, ReplaceRecoveryCodes(c)
    PROVE  IdentityInv'
<1> USE IdentityAssumption
<1>1. /\ authCall[c].kind # "change" /\ Return(c) /\ UNCHANGED <<lockoutVars, sessionVars>>
      /\ UNCHANGED <<totp, spent, replayed, step>> /\ recovery' = {fresh.set} /\ fresh.set <= MaxSecrets
      /\ fresh' = [fresh EXCEPT !.set = fresh.set + 1]
  BY DEF ReplaceRecoveryCodes, InFlight
<1>2. fresh \in [password : Nat \ {0}, secret : Nat \ {0}, set : Nat \ {0}]
  BY DEF IdentityInv, FactorTyped
<1>3. /\ fresh'.set = fresh.set + 1 /\ fresh'.secret = fresh.secret
      /\ fresh' \in [password : Nat \ {0}, secret : Nat \ {0}, set : Nat \ {0}]
  BY <1>1, <1>2
<1>4. fresh.set \in Nat \ {0} /\ fresh.secret \in Nat
  BY <1>2
<1>5. CallsHold' /\ \A d \in AuthCalls : d # c => authCall'[d] = authCall[d]
  BY <1>1, <1>3, <1>4, CallReturns
<1>6. FactorTyped'
  BY <1>1, <1>3, <1>4 DEF IdentityInv, FactorTyped
<1>7. SpentHolds'
  BY <1>1, <1>3, <1>4 DEF IdentityInv, SpentHolds
<1> QED
  BY <1>1, <1>5, <1>6, <1>7, FactorStep

LEMMA EnrollReadInv ==
    ASSUME IdentityInv, NEW c \in AuthCalls, EnrollRead(c)
    PROVE  IdentityInv'
<1> USE IdentityAssumption
<1>1. PICK q : /\ q = [IdleCall EXCEPT !.kind = "enroll", !.pc = "upsert"]
               /\ authCall' = [authCall EXCEPT ![c] = q]
  BY Zenon DEF EnrollRead
<1>2. /\ authCall[c].pc = "idle" /\ UNCHANGED <<lockoutVars, factorVars, sessionVars, worldVars>>
      /\ fresh.secret \in Nat /\ 0 < fresh.secret
  BY DEF EnrollRead, IdentityInv, FactorTyped
<1>3. q = [kind |-> "enroll", pc |-> "upsert", password |-> 0, level |-> 0, code |-> NoCode, weak |-> FALSE,
           read |-> 0, cookie |-> NoCookie, keep |-> NoCookie]
  BY <1>1, Zenon DEF IdleCall
<1>4. q.kind = "enroll" /\ q.pc = "upsert" /\ q.code = NoCode /\ q.weak = FALSE
  BY <1>3
<1>5. CallShape(q)
  BY <1>3, <1>4 DEF CallShape, CallPlaces, CallKinds
<1>6. q.weak \in BOOLEAN
  BY <1>4, Zenon
<1>7. CallFits(q) /\ q.code.secret < fresh.secret
  BY <1>2, <1>4, <1>5, <1>6, NoCodeFits DEF CallFits
<1> QED
  BY <1>1, <1>2, <1>7, CallBegins

\* A new secret has a number no spent code has.
LEMMA EnrollUpsertInv ==
    ASSUME IdentityInv, NEW c \in AuthCalls, EnrollUpsert(c)
    PROVE  IdentityInv'
<1> USE IdentityAssumption
<1>1. /\ authCall[c].kind # "change" /\ Return(c) /\ UNCHANGED <<lockoutVars, sessionVars>>
      /\ UNCHANGED <<recovery, spent, replayed, step>> /\ fresh.secret <= MaxSecrets
      /\ totp' = [totp EXCEPT !.secret = fresh.secret, !.active = FALSE]
      /\ fresh' = [fresh EXCEPT !.secret = fresh.secret + 1]
  BY DEF EnrollUpsert, InFlight
<1>2. fresh \in [password : Nat \ {0}, secret : Nat \ {0}, set : Nat \ {0}] /\ FactorShape(totp)
  BY DEF IdentityInv, FactorTyped
<1>3. /\ fresh'.set = fresh.set /\ fresh'.secret = fresh.secret + 1
      /\ fresh' \in [password : Nat \ {0}, secret : Nat \ {0}, set : Nat \ {0}]
  BY <1>1, <1>2
<1>4. fresh.set \in Nat \ {0} /\ fresh.secret \in Nat \ {0}
  BY <1>2
<1>5. CallsHold' /\ \A d \in AuthCalls : d # c => authCall'[d] = authCall[d]
  BY <1>1, <1>3, <1>4, CallReturns
<1>6. /\ totp'.secret = fresh.secret /\ totp'.active = FALSE /\ totp'.last = totp.last /\ FactorShape(totp')
  <2>1. totp' = [totp EXCEPT !.secret = fresh.secret, !.active = FALSE] /\ fresh.secret \in 0 .. MaxSecrets
    BY <1>1, <1>4
  <2>2. totp'.secret = fresh.secret /\ totp'.active = FALSE /\ totp'.last = totp.last
    BY <1>2, <2>1 DEF FactorShape
  <2>3. FactorShape(totp')
    BY <1>2, <2>1, <2>2 DEF FactorShape
  <2> QED
    BY <2>2, <2>3
<1>7. totp'.active \in BOOLEAN
  BY <1>6, Zenon
<1>8. FactorTyped'
  BY <1>1, <1>3, <1>4, <1>6, <1>7 DEF IdentityInv, FactorTyped
<1>9. SpentHolds'
  BY <1>1, <1>3, <1>4, <1>6 DEF IdentityInv, SpentHolds
<1> QED
  BY <1>1, <1>5, <1>8, <1>9, FactorStep

LEMMA ConfirmReadInv ==
    ASSUME IdentityInv, NEW c \in AuthCalls, NEW code, ConfirmRead(c, code)
    PROVE  IdentityInv'
<1> USE IdentityAssumption
<1>1. PICK q : /\ q = [IdleCall EXCEPT !.kind = "confirm", !.pc = "activate"]
               /\ authCall' = [authCall EXCEPT ![c] = q]
  BY Zenon DEF ConfirmRead
<1>2. /\ authCall[c].pc = "idle" /\ UNCHANGED <<lockoutVars, factorVars, sessionVars, worldVars>>
      /\ fresh.secret \in Nat /\ 0 < fresh.secret
  BY DEF ConfirmRead, IdentityInv, FactorTyped
<1>3. q = [kind |-> "confirm", pc |-> "activate", password |-> 0, level |-> 0, code |-> NoCode, weak |-> FALSE,
           read |-> 0, cookie |-> NoCookie, keep |-> NoCookie]
  BY <1>1, Zenon DEF IdleCall
<1>4. q.kind = "confirm" /\ q.pc = "activate" /\ q.code = NoCode /\ q.weak = FALSE
  BY <1>3
<1>5. CallShape(q)
  BY <1>3, <1>4 DEF CallShape, CallPlaces, CallKinds
<1>6. q.weak \in BOOLEAN
  BY <1>4, Zenon
<1>7. CallFits(q) /\ q.code.secret < fresh.secret
  BY <1>2, <1>4, <1>5, <1>6, NoCodeFits DEF CallFits
<1> QED
  BY <1>1, <1>2, <1>7, CallBegins

LEMMA ConfirmActivateInv ==
    ASSUME IdentityInv, NEW c \in AuthCalls, ConfirmActivate(c)
    PROVE  IdentityInv'
<1> USE IdentityAssumption
<1>1. /\ authCall[c].kind # "change" /\ UNCHANGED <<lockoutVars, sessionVars>>
      /\ UNCHANGED <<recovery, spent, replayed, step>> /\ fresh' = fresh /\ fresh.secret \in Nat
  BY DEF ConfirmActivate, InFlight, worldVars, IdentityInv, FactorTyped
<1>2. CASE ActivateTOTP
  <2>1. totp.secret # 0 /\ totp' = [totp EXCEPT !.active = TRUE] /\ Goto(c, "codes")
    BY <1>2 DEF ConfirmActivate, ActivateTOTP
  <2>2. CallsHold' /\ \A d \in AuthCalls : d # c => authCall'[d] = authCall[d]
    BY <1>1, <2>1, CallGoes DEF CallPlaces
  <2>3. totp'.secret = totp.secret /\ totp'.last = totp.last /\ totp'.active = TRUE /\ FactorShape(totp')
    BY <2>1 DEF IdentityInv, FactorTyped, FactorShape
  <2>4. totp'.active \in BOOLEAN
    BY <2>3, Zenon
  <2>5. FactorTyped'
    BY <1>1, <2>1, <2>3, <2>4 DEF IdentityInv, FactorTyped
  <2>6. SpentHolds'
    BY <1>1, <2>3 DEF IdentityInv, SpentHolds
  <2> QED
    BY <1>1, <2>2, <2>5, <2>6, FactorStep
<1>3. CASE ~ActivateTOTP
  <2>1. totp' = totp /\ Return(c)
    BY <1>3 DEF ConfirmActivate
  <2>2. CallsHold' /\ \A d \in AuthCalls : d # c => authCall'[d] = authCall[d]
    BY <1>1, <2>1, CallReturns
  <2>3. FactorTyped' /\ SpentHolds'
    BY <1>1, <2>1, FactorStays DEF IdentityInv, FactorTyped, factorVars
  <2> QED
    BY <1>1, <2>2, <2>3, FactorStep
<1> QED
  BY <1>2, <1>3

-----------------------------------------------------------------------------
(* Accounts: passwords and sessions.                                       *)

\* The numbers after a password has been given out.
LEMMA PasswordTaken ==
    ASSUME IdentityInv, fresh' = [fresh EXCEPT !.password = @ + 1]
    PROVE  /\ fresh' \in [password : Nat \ {0}, secret : Nat \ {0}, set : Nat \ {0}]
           /\ fresh'.secret = fresh.secret /\ fresh'.set = fresh.set /\ fresh.password \in Nat \ {0}
           /\ fresh.secret \in Nat /\ 0 < fresh.secret
BY DEF IdentityInv, FactorTyped

LEMMA ChangeReadInv ==
    ASSUME IdentityInv, NEW c \in AuthCalls, NEW password, ChangeRead(c, password)
    PROVE  IdentityInv'
<1> USE IdentityAssumption
<1>1. PICK q : /\ q = [IdleCall EXCEPT !.kind = "change", !.pc = "update", !.password = fresh.password]
               /\ authCall' = [authCall EXCEPT ![c] = q]
  BY Zenon DEF ChangeRead
<1>2. /\ authCall[c].pc = "idle" /\ UNCHANGED <<lockoutVars, factorVars, sessionVars, step>>
      /\ fresh.password <= MaxPasswords /\ fresh' = [fresh EXCEPT !.password = @ + 1]
  BY DEF ChangeRead
<1>3. /\ fresh' \in [password : Nat \ {0}, secret : Nat \ {0}, set : Nat \ {0}]
      /\ fresh'.secret = fresh.secret /\ fresh'.set = fresh.set /\ fresh.password \in Nat \ {0}
      /\ fresh.secret \in Nat /\ 0 < fresh.secret
  BY <1>2, PasswordTaken
<1>4. q = [kind |-> "change", pc |-> "update", password |-> fresh.password, level |-> 0, code |-> NoCode,
           weak |-> FALSE, read |-> 0, cookie |-> NoCookie, keep |-> NoCookie]
  BY <1>1, Zenon DEF IdleCall
<1>5. q.kind = "change" /\ q.pc = "update" /\ q.code = NoCode /\ q.weak = FALSE /\ q.password = fresh.password
  BY <1>4
<1>6. CallShape(q)
  BY <1>2, <1>3, <1>4, <1>5 DEF CallShape, CallPlaces, CallKinds
<1>7. q.weak \in BOOLEAN
  BY <1>5, Zenon
<1>8. CallFits(q) /\ q.code.secret < fresh'.secret /\ fresh'.secret \in Nat /\ fresh.secret <= fresh'.secret
  BY <1>3, <1>5, <1>6, <1>7, NoCodeFits DEF CallFits
<1>9. CallsHold' /\ \A d \in AuthCalls : d # c => authCall'[d] = authCall[d]
  BY <1>1, <1>3, <1>8, CallBecomes DEF IdentityInv
<1>10. FactorTyped' /\ SpentHolds'
  BY <1>2, <1>3, FactorStays
<1>11. LockoutHolds'
  BY <1>2, LockoutStays
<1>12. SessionsHold'
  <2>1. account'.password = account.password
    BY <1>2 DEF lockoutVars
  <2> QED
    BY <1>2, <1>9, <2>1, OthersStillClear, SessionsStay
<1> QED
  BY <1>9, <1>10, <1>11, <1>12 DEF IdentityInv

\* The row with another password.
LEMMA PasswordSet ==
    ASSUME IdentityInv, NEW p \in 1 .. MaxPasswords, NEW w, w \in BOOLEAN,
           account' = [account EXCEPT !.password = p, !.weak = w], recorded' = recorded
    PROVE  LockoutHolds' /\ account'.password = p
<1>1. AccountShape(account)
  BY DEF IdentityInv, LockoutHolds
<1>2. /\ account'.password = p /\ account'.weak = w /\ account'.disabled = account.disabled
      /\ account'.failed = account.failed /\ account'.level = account.level /\ AccountShape(account')
  BY <1>1 DEF AccountShape
<1>3. account'.weak \in BOOLEAN
  BY <1>2
<1> QED
  BY <1>2, <1>3 DEF IdentityInv, LockoutHolds, NoFailureIsLost

\* Every session is now the change's to delete.
LEMMA ChangeUpdateInv ==
    ASSUME IdentityInv, NEW c \in AuthCalls, ChangeUpdate(c)
    PROVE  IdentityInv'
<1> USE IdentityAssumption
<1>1. /\ authCall[c].kind = "change" /\ Goto(c, "mint") /\ recorded' = recorded
      /\ account' = [account EXCEPT !.password = authCall[c].password, !.weak = FALSE]
      /\ UNCHANGED <<factorVars, sessionVars>> /\ fresh' = fresh /\ step' = step
  BY DEF ChangeUpdate, InFlight, worldVars
<1>2. CallsHold' /\ authCall'[c].pc = "mint" /\ authCall'[c].kind = "change"
  BY <1>1, CallGoes DEF CallPlaces
<1>3. FactorTyped' /\ SpentHolds'
  BY <1>1, FactorStays DEF IdentityInv, FactorTyped
<1>4. authCall[c].password \in 1 .. MaxPasswords
  BY <1>1 DEF IdentityInv, CallsHold, CallFits, CallShape
<1>5. LockoutHolds'
  BY <1>1, <1>4, PasswordSet
<1>6. \A k : Clears(c, k)'
  BY <1>2 DEF Clears
<1>7. SessionsHold'
  <2> HIDE DEF Clears
  <2> QED
    BY <1>1, <1>6 DEF IdentityInv, SessionsHold, sessionVars
<1> QED
  BY <1>2, <1>3, <1>5, <1>7 DEF IdentityInv

\* The change's own session is the one it will keep: it clears every other.
LEMMA ChangeMintInv ==
    ASSUME IdentityInv, NEW c \in AuthCalls, NEW cookie \in Cookies, ChangeMint(c, cookie)
    PROVE  IdentityInv'
<1> USE IdentityAssumption
<1> DEFINE q == [authCall[c] EXCEPT !.pc = "lookup", !.cookie = cookie]
<1>1. /\ authCall[c].kind = "change" /\ authCall[c].pc = "mint" /\ CreateSession(c, cookie)
      /\ authCall' = [authCall EXCEPT ![c].pc = "lookup", ![c].cookie = cookie]
      /\ UNCHANGED <<lockoutVars, factorVars>> /\ account' = account /\ fresh' = fresh /\ step' = step
  BY DEF ChangeMint, InFlight, lockoutVars, worldVars
<1>2. CallsHold /\ CallFits(authCall[c]) /\ authCall[c].code.secret < fresh.secret /\ fresh.secret \in Nat
  BY DEF IdentityInv, CallsHold, FactorTyped
<1>3. authCall' = [authCall EXCEPT ![c] = q]
  BY <1>1, <1>2 DEF CallsHold
<1>4. /\ q.pc = "lookup" /\ q.kind = authCall[c].kind /\ q.password = authCall[c].password /\ q.code = authCall[c].code
      /\ q.weak = authCall[c].weak /\ q.read = authCall[c].read /\ q.cookie = cookie
      /\ q.keep = authCall[c].keep
  BY <1>2 DEF CallFits, CallShape
<1>5. CallShape(q)
  BY <1>2, <1>4 DEF CallFits, CallShape, CallPlaces
<1> HIDE DEF q
<1>6. CallFits(q) /\ q.code.secret < fresh'.secret /\ fresh'.secret \in Nat /\ fresh.secret <= fresh'.secret
  BY <1>1, <1>2, <1>4, <1>5 DEF CallFits
<1>7. CallsHold' /\ authCall'[c] = q /\ \A d \in AuthCalls : d # c => authCall'[d] = authCall[d]
  BY <1>2, <1>3, <1>6, CallBecomes
<1>8. FactorTyped' /\ SpentHolds' /\ LockoutHolds'
  BY <1>1, FactorStays, LockoutStays DEF IdentityInv, FactorTyped
<1>9. authCall[c].password \in 1 .. MaxPasswords
  BY <1>1, <1>2 DEF CallFits, CallShape
<1>10. \A d \in AuthCalls : \A k \in Live : Clears(d, k) => Clears(d, k)'
  <2>1. cookie \notin Live
    BY <1>1 DEF CreateSession
  <2>2. \A k \in Live : Clears(c, k)'
    BY <1>1, <1>4, <1>7, <2>1 DEF Clears
  <2>3. \A d \in AuthCalls : d # c => \A k \in Live : Clears(d, k) => Clears(d, k)'
    BY <1>7 DEF Clears
  <2> QED
    BY <2>2, <2>3
<1>11. SessionsHold'
  BY <1>1, <1>9, <1>10, SessionMade
<1> QED
  BY <1>7, <1>8, <1>11 DEF IdentityInv

LEMMA OthersBeginInv ==
    ASSUME IdentityInv, NEW c \in AuthCalls, NEW cookie \in Live, OthersBegin(c, cookie)
    PROVE  IdentityInv'
<1> USE IdentityAssumption
<1>1. PICK q : /\ q = [IdleCall EXCEPT !.kind = "others", !.pc = "lookup", !.cookie = cookie]
               /\ authCall' = [authCall EXCEPT ![c] = q]
  BY Zenon DEF OthersBegin
<1>2. /\ authCall[c].pc = "idle" /\ UNCHANGED <<lockoutVars, factorVars, sessionVars, worldVars>>
      /\ fresh.secret \in Nat /\ 0 < fresh.secret
  BY DEF OthersBegin, IdentityInv, FactorTyped
<1>3. q = [kind |-> "others", pc |-> "lookup", password |-> 0, level |-> 0, code |-> NoCode, weak |-> FALSE,
           read |-> 0, cookie |-> cookie, keep |-> NoCookie]
  BY <1>1, Zenon DEF IdleCall
<1>4. q.kind = "others" /\ q.pc = "lookup" /\ q.code = NoCode /\ q.weak = FALSE /\ q.cookie = cookie
  BY <1>3
<1>5. cookie \in Cookies
  BY DEF Live, IdentityInv, SessionsHold
<1>6. CallShape(q)
  BY <1>3, <1>4, <1>5 DEF CallShape, CallPlaces, CallKinds
<1>7. q.weak \in BOOLEAN
  BY <1>4, Zenon
<1>8. CallFits(q) /\ q.code.secret < fresh.secret
  BY <1>2, <1>4, <1>6, <1>7, NoCodeFits DEF CallFits
<1> QED
  BY <1>1, <1>2, <1>8, CallBegins

\* What is kept is the cookie the request came with, or nothing.
LEMMA OthersLookupInv ==
    ASSUME IdentityInv, NEW c \in AuthCalls, OthersLookup(c)
    PROVE  IdentityInv'
<1> USE IdentityAssumption
<1> DEFINE keep == IF authCall[c].cookie \in Live THEN authCall[c].cookie ELSE NoCookie
           q == [authCall[c] EXCEPT !.pc = "revoke", !.keep = keep]
<1>1. /\ authCall[c].kind \in {"change", "others"} /\ authCall[c].pc = "lookup"
      /\ authCall' = [authCall EXCEPT ![c].pc = "revoke", ![c].keep = keep]
      /\ UNCHANGED <<lockoutVars, factorVars, sessionVars, worldVars>> /\ fresh' = fresh
  BY DEF OthersLookup, InFlight, worldVars
<1>2. CallsHold /\ CallFits(authCall[c]) /\ authCall[c].code.secret < fresh.secret /\ fresh.secret \in Nat
  BY DEF IdentityInv, CallsHold, FactorTyped
<1>3. keep \in {authCall[c].cookie, NoCookie}
  OBVIOUS
<1> HIDE DEF keep
<1>4. authCall' = [authCall EXCEPT ![c] = q]
  BY <1>1, <1>2 DEF CallsHold
<1>5. /\ q.pc = "revoke" /\ q.kind = authCall[c].kind /\ q.password = authCall[c].password /\ q.code = authCall[c].code
      /\ q.weak = authCall[c].weak /\ q.read = authCall[c].read /\ q.cookie = authCall[c].cookie
      /\ q.keep = keep
  BY <1>2 DEF CallFits, CallShape
<1>6. CallShape(q)
  BY <1>2, <1>3, <1>5 DEF CallFits, CallShape, CallPlaces
<1> HIDE DEF q
<1>7. CallFits(q) /\ q.code.secret < fresh'.secret /\ fresh'.secret \in Nat /\ fresh.secret <= fresh'.secret
  BY <1>1, <1>2, <1>3, <1>5, <1>6 DEF CallFits
<1>8. CallsHold' /\ authCall'[c] = q /\ \A d \in AuthCalls : d # c => authCall'[d] = authCall[d]
  BY <1>2, <1>4, <1>7, CallBecomes
<1>9. FactorTyped' /\ SpentHolds' /\ LockoutHolds'
  BY <1>1, FactorStays, LockoutStays DEF IdentityInv, FactorTyped, worldVars
<1>10. \A d \in AuthCalls : \A k \in Cookies : Clears(d, k) => Clears(d, k)'
  <2>1. \A k \in Cookies : Clears(c, k) => Clears(c, k)'
    BY <1>1, <1>5, <1>8 DEF Clears
  <2>2. \A d \in AuthCalls : d # c => \A k \in Cookies : Clears(d, k) => Clears(d, k)'
    BY <1>8 DEF Clears
  <2> QED
    BY <2>1, <2>2
<1>11. account'.password = account.password
  BY <1>1 DEF lockoutVars
<1>12. SessionsHold'
  BY <1>1, <1>10, <1>11, SessionsStay
<1> QED
  BY <1>8, <1>9, <1>12 DEF IdentityInv

\* The one session left is not one this request would have cleared.
LEMMA OthersRevokeInv ==
    ASSUME IdentityInv, NEW c \in AuthCalls, OthersRevoke(c)
    PROVE  IdentityInv'
<1> USE IdentityAssumption
<1> DEFINE keep == authCall[c].keep
<1>1. /\ authCall[c].pc = "revoke" /\ Return(c) /\ UNCHANGED <<lockoutVars, factorVars>> /\ account' = account
      /\ sessions' = {s \in sessions : s.cookie = keep} /\ excusedSessions' = excusedSessions \cap {s.cookie : s \in sessions'}
      /\ fresh' = fresh /\ step' = step /\ fresh.secret \in Nat
  BY DEF OthersRevoke, InFlight, DeleteOthersForUser, worldVars, lockoutVars, IdentityInv, FactorTyped
<1>2. CallsHold' /\ \A d \in AuthCalls : d # c => authCall'[d] = authCall[d]
  BY <1>1, CallReturns
<1>3. FactorTyped' /\ SpentHolds' /\ LockoutHolds'
  BY <1>1, FactorStays, LockoutStays DEF IdentityInv, FactorTyped
<1>4. keep \in {authCall[c].cookie, NoCookie}
  BY <1>1 DEF IdentityInv, CallsHold, CallFits
<1> HIDE DEF keep
<1>5. \A s \in sessions : s.cookie \in Cookies
  BY DEF IdentityInv, SessionsHold
<1>6. \A s \in sessions' : s \in sessions /\ s.cookie = authCall[c].cookie
  BY <1>1, <1>4, <1>5 DEF NoCookie
<1>7. \A s \in sessions' : ~Clears(c, s.cookie)
  BY <1>1, <1>6 DEF Clears
<1>8. \A d \in AuthCalls : \A k : d # c /\ Clears(d, k) => Clears(d, k)'
  BY <1>2 DEF Clears
<1>9. IsFiniteSet(sessions')
  BY <1>1, FS_Subset DEF IdentityInv, SessionsHold
<1>10. SessionsHold'
  <2> HIDE DEF Clears
  <2>1. \A s \in sessions' : s.password = account'.password \/ s.cookie \in excusedSessions'
           \/ \E d \in AuthCalls : Clears(d, s.cookie)'
    <3> SUFFICES ASSUME NEW s \in sessions'
                 PROVE  s.password = account'.password \/ s.cookie \in excusedSessions'
                          \/ \E d \in AuthCalls : Clears(d, s.cookie)'
      OBVIOUS
    <3>1. s.password = account.password \/ s.cookie \in excusedSessions \/ \E d \in AuthCalls : Clears(d, s.cookie)
      BY <1>6 DEF IdentityInv, SessionsHold
    <3>2. s.cookie \in excusedSessions => s.cookie \in excusedSessions'
      BY <1>1
    <3>3. ASSUME NEW d \in AuthCalls, Clears(d, s.cookie) PROVE Clears(d, s.cookie)'
      BY <1>7, <1>8, <3>3
    <3> QED
      BY <1>1, <3>1, <3>2, <3>3
  <2> QED
    BY <1>6, <1>9, <2>1 DEF IdentityInv, SessionsHold
<1> QED
  BY <1>2, <1>3, <1>10 DEF IdentityInv

LEMMA SessionEndsInv ==
    ASSUME IdentityInv, NEW cookie \in Cookies, SessionEnds(cookie)
    PROVE  IdentityInv'
<1> USE IdentityAssumption
<1>1. /\ sessions' = {s \in sessions : s.cookie # cookie} /\ excusedSessions' = excusedSessions \ {cookie}
      /\ authCall' = authCall /\ UNCHANGED <<lockoutVars, factorVars>> /\ account' = account /\ fresh' = fresh /\ step' = step
  BY DEF SessionEnds, lockoutVars, worldVars
<1>2. FactorTyped' /\ SpentHolds' /\ LockoutHolds'
  BY <1>1, FactorStays, LockoutStays DEF IdentityInv, FactorTyped
<1>3. CallsHold'
  BY <1>1 DEF IdentityInv, CallsHold
<1>4. \A d \in AuthCalls : \A k : Clears(d, k) => Clears(d, k)'
  BY <1>1 DEF Clears
<1>5. IsFiniteSet(sessions')
  BY <1>1, FS_Subset DEF IdentityInv, SessionsHold
<1>6. SessionsHold'
  <2> HIDE DEF Clears
  <2> QED
    BY <1>1, <1>4, <1>5 DEF IdentityInv, SessionsHold
<1> QED
  BY <1>2, <1>3, <1>6 DEF IdentityInv

-----------------------------------------------------------------------------
(* Accounts: the console, administration, time and failure.                *)

\* Every session is excused.
LEMMA AllExcused ==
    ASSUME IdentityInv, sessions' = sessions, excusedSessions' = Live PROVE SessionsHold'
<1>1. \A s \in sessions' : s.cookie \in excusedSessions'
  BY DEF Live
<1> QED
  BY <1>1 DEF IdentityInv, SessionsHold

\* No session is left when the console's reset begins: no cookie is the one for none.
LEMMA ResetRevokeInv ==
    ASSUME IdentityInv, NEW c \in AuthCalls, ResetRevoke(c)
    PROVE  IdentityInv'
<1> USE IdentityAssumption
<1>1. PICK q : /\ q = [IdleCall EXCEPT !.kind = "reset", !.pc = "update", !.password = fresh.password,
                                       !.read = account.password, !.weak = account.weak]
               /\ authCall' = [authCall EXCEPT ![c] = q]
  BY Zenon DEF ResetRevoke
<1>2. /\ UNCHANGED <<lockoutVars, factorVars, step>> /\ fresh.password <= MaxPasswords
      /\ fresh' = [fresh EXCEPT !.password = @ + 1] /\ sessions' = {s \in sessions : s.cookie = NoCookie}
  BY DEF ResetRevoke, DeleteOthersForUser
<1>3. /\ fresh' \in [password : Nat \ {0}, secret : Nat \ {0}, set : Nat \ {0}]
      /\ fresh'.secret = fresh.secret /\ fresh'.set = fresh.set /\ fresh.password \in Nat \ {0}
      /\ fresh.secret \in Nat /\ 0 < fresh.secret
  BY <1>2, PasswordTaken
<1>4. q = [kind |-> "reset", pc |-> "update", password |-> fresh.password, level |-> 0, code |-> NoCode,
           weak |-> account.weak, read |-> account.password, cookie |-> NoCookie, keep |-> NoCookie]
  BY <1>1, Zenon DEF IdleCall
<1>5. /\ q.kind = "reset" /\ q.pc = "update" /\ q.code = NoCode /\ q.password = fresh.password
      /\ q.read = account.password /\ q.weak = account.weak
  BY <1>4
<1>6. account.password \in 1 .. MaxPasswords
  BY DEF IdentityInv, LockoutHolds, AccountShape
<1>7. CallShape(q)
  BY <1>2, <1>3, <1>4, <1>5, <1>6 DEF CallShape, CallPlaces, CallKinds
<1>8. q.weak \in BOOLEAN
  BY <1>5, Zenon DEF IdentityInv, LockoutHolds
<1>9. CallFits(q) /\ q.code.secret < fresh'.secret /\ fresh'.secret \in Nat /\ fresh.secret <= fresh'.secret
  BY <1>3, <1>5, <1>6, <1>7, <1>8, NoCodeFits DEF CallFits
<1>10. CallsHold'
  BY <1>1, <1>3, <1>9, CallBecomes DEF IdentityInv
<1>11. FactorTyped' /\ SpentHolds' /\ LockoutHolds'
  BY <1>2, <1>3, FactorStays, LockoutStays
<1>12. sessions' = {}
  BY <1>2 DEF IdentityInv, SessionsHold, NoCookie
<1>13. SessionsHold'
  BY <1>12, FS_EmptySet DEF SessionsHold
<1> QED
  BY <1>10, <1>11, <1>13 DEF IdentityInv

LEMMA ResetUpdateInv ==
    ASSUME IdentityInv, NEW c \in AuthCalls, ResetUpdate(c)
    PROVE  IdentityInv'
<1> USE IdentityAssumption
<1>1. /\ authCall[c].kind = "reset" /\ Goto(c, "audit") /\ recorded' = recorded /\ sessions' = sessions
      /\ account' = [account EXCEPT !.password = authCall[c].password, !.weak = FALSE]
      /\ excusedSessions' = Live /\ UNCHANGED factorVars /\ fresh' = fresh /\ step' = step
  BY DEF ResetUpdate, InFlight, worldVars
<1>2. CallsHold'
  BY <1>1, CallGoes DEF CallPlaces
<1>3. FactorTyped' /\ SpentHolds'
  BY <1>1, FactorStays DEF IdentityInv, FactorTyped
<1>4. authCall[c].password \in 1 .. MaxPasswords
  BY <1>1 DEF IdentityInv, CallsHold, CallFits, CallShape
<1>5. LockoutHolds'
  BY <1>1, <1>4, PasswordSet
<1>6. SessionsHold'
  BY <1>1, AllExcused
<1> QED
  BY <1>2, <1>3, <1>5, <1>6 DEF IdentityInv

LEMMA ResetAuditedInv ==
    ASSUME IdentityInv, NEW c \in AuthCalls, NEW clearMFA \in BOOLEAN, ResetAudited(c, clearMFA)
    PROVE  IdentityInv'
<1>1. /\ authCall[c].kind # "change" /\ Return(c) /\ UNCHANGED <<lockoutVars, sessionVars>>
      /\ UNCHANGED <<spent, replayed, step, fresh>> /\ fresh' = fresh /\ fresh.secret \in Nat
  BY DEF ResetAudited, InFlight, worldVars, IdentityInv, FactorTyped
<1>2. CallsHold' /\ \A d \in AuthCalls : d # c => authCall'[d] = authCall[d]
  BY <1>1, CallReturns
<1>3. FactorTyped' /\ SpentHolds'
  <2>1. CASE DeleteTOTP
    BY <1>1, <2>1, FactorDeleted
  <2>2. CASE UNCHANGED <<totp, recovery>>
    BY <1>1, <2>2, FactorStays DEF IdentityInv, FactorTyped, factorVars
  <2> QED
    BY <2>1, <2>2 DEF ResetAudited
<1> QED
  BY <1>1, <1>2, <1>3, FactorStep

LEMMA ResetUndoInv ==
    ASSUME IdentityInv, NEW c \in AuthCalls, ResetUndo(c)
    PROVE  IdentityInv'
<1> USE IdentityAssumption
<1>1. /\ authCall[c].kind = "reset" /\ Return(c) /\ recorded' = recorded /\ sessions' = sessions
      /\ account' = [account EXCEPT !.password = authCall[c].read, !.weak = authCall[c].weak]
      /\ excusedSessions' = Live /\ UNCHANGED factorVars /\ fresh' = fresh /\ step' = step /\ fresh.secret \in Nat
  BY DEF ResetUndo, InFlight, worldVars, IdentityInv, FactorTyped
<1>2. CallsHold'
  BY <1>1, CallReturns
<1>3. FactorTyped' /\ SpentHolds'
  BY <1>1, FactorStays DEF IdentityInv, FactorTyped
<1>4. authCall[c].read \in 1 .. MaxPasswords
  BY <1>1 DEF IdentityInv, CallsHold, CallFits
<1>5. authCall[c].weak \in BOOLEAN
  BY Zenon DEF IdentityInv, CallsHold, CallFits
<1>6. LockoutHolds'
  BY <1>1, <1>4, <1>5, PasswordSet
<1>7. SessionsHold'
  BY <1>1, AllExcused
<1> QED
  BY <1>2, <1>3, <1>6, <1>7 DEF IdentityInv

LEMMA AdministrationInv ==
    ASSUME IdentityInv, DisableUser \/ AdminUnlock \/ LockExpires
    PROVE  IdentityInv'
<1> USE IdentityAssumption
<1>1. authCall' = authCall /\ UNCHANGED <<factorVars, sessionVars>> /\ fresh' = fresh /\ step' = step
  BY DEF DisableUser, AdminUnlock, LockExpires, worldVars
<1>2. CallsHold'
  BY <1>1 DEF IdentityInv, CallsHold
<1>3. FactorTyped' /\ SpentHolds'
  BY <1>1, FactorStays DEF IdentityInv, FactorTyped
<1>4. LockoutHolds' /\ account'.password = account.password
  <2>1. AccountShape(account) /\ LockoutHolds
    BY DEF IdentityInv, LockoutHolds
  <2>2. CASE DisableUser
    <3>1. account' = [account EXCEPT !.disabled = TRUE] /\ recorded' = recorded
      BY <2>2 DEF DisableUser
    <3>2. /\ account'.password = account.password /\ account'.failed = account.failed /\ account'.level = account.level
          /\ account'.weak = account.weak /\ account'.disabled = TRUE /\ AccountShape(account')
      BY <2>1, <3>1 DEF AccountShape
    <3>3. account'.disabled \in BOOLEAN
      BY <3>2, Zenon
    <3> QED
      BY <2>1, <3>1, <3>2, <3>3 DEF LockoutHolds, NoFailureIsLost
  <2>3. CASE AdminUnlock
    BY <2>1, <2>3, ResetCounts DEF AdminUnlock
  <2>4. CASE LockExpires
    <3>1. account' = [account EXCEPT !.locked = 0] /\ recorded' = recorded
      BY <2>4 DEF LockExpires
    <3>2. /\ account'.password = account.password /\ account'.failed = account.failed /\ account'.level = account.level
          /\ account'.weak = account.weak /\ account'.disabled = account.disabled /\ AccountShape(account')
      BY <2>1, <3>1 DEF AccountShape
    <3> QED
      BY <2>1, <3>1, <3>2 DEF LockoutHolds, NoFailureIsLost
  <2> QED
    BY <2>2, <2>3, <2>4
<1>5. \A d \in AuthCalls : \A k \in Cookies : Clears(d, k) => Clears(d, k)'
  BY <1>1 DEF Clears
<1>6. SessionsHold'
  BY <1>1, <1>4, <1>5, SessionsStay
<1> QED
  BY <1>2, <1>3, <1>4, <1>6 DEF IdentityInv

LEMMA NextStepInv ==
    ASSUME IdentityInv, NextStep
    PROVE  IdentityInv'
<1> USE IdentityAssumption
<1>1. /\ authCall' = authCall /\ UNCHANGED <<lockoutVars, factorVars, sessionVars>> /\ fresh' = fresh
      /\ step' = step + 1 /\ step < MaxStep
  BY DEF NextStep
<1>2. CallsHold'
  BY <1>1 DEF IdentityInv, CallsHold
<1>3. FactorTyped' /\ SpentHolds'
  BY <1>1 DEF IdentityInv, FactorTyped, SpentHolds, factorVars
<1>4. LockoutHolds' /\ account'.password = account.password
  BY <1>1, LockoutStays DEF lockoutVars
<1>5. \A d \in AuthCalls : \A k \in Cookies : Clears(d, k) => Clears(d, k)'
  BY <1>1 DEF Clears
<1>6. SessionsHold'
  BY <1>1, <1>4, <1>5, SessionsStay
<1> QED
  BY <1>2, <1>3, <1>4, <1>6 DEF IdentityInv

\* A change that dies after its update leaves sessions of the old password behind.
LEMMA CallDiesInv ==
    ASSUME IdentityInv, NEW c \in AuthCalls, CallDies(c)
    PROVE  IdentityInv'
<1> USE IdentityAssumption
<1>1. /\ authCall[c].pc # "idle" /\ Return(c) /\ sessions' = sessions /\ UNCHANGED <<lockoutVars, factorVars>>
      /\ excusedSessions' = IF authCall[c].kind = "change" /\ authCall[c].pc # "update" THEN Live ELSE excusedSessions
      /\ fresh' = fresh /\ step' = step /\ fresh.secret \in Nat
  BY DEF CallDies, IdentityInv, FactorTyped
<1>2. CallsHold' /\ \A d \in AuthCalls : d # c => authCall'[d] = authCall[d]
  BY <1>1, CallReturns
<1>3. FactorTyped' /\ SpentHolds' /\ LockoutHolds'
  BY <1>1, FactorStays, LockoutStays DEF IdentityInv, FactorTyped
<1>4. CASE authCall[c].kind = "change" /\ authCall[c].pc # "update"
  <2>1. SessionsHold'
    BY <1>1, <1>4, AllExcused
  <2> QED
    BY <1>2, <1>3, <2>1 DEF IdentityInv
<1>5. CASE ~(authCall[c].kind = "change" /\ authCall[c].pc # "update")
  <2>1. UNCHANGED sessionVars /\ account'.password = account.password
    BY <1>1, <1>5 DEF sessionVars, lockoutVars
  <2>2. SessionsHold'
    BY <1>2, <1>5, <2>1, OthersStillClear, SessionsStay
  <2> QED
    BY <1>2, <1>3, <2>2 DEF IdentityInv
<1> QED
  BY <1>4, <1>5

-----------------------------------------------------------------------------
(* Accounts: the theorems.                                                 *)

LEMMA IdentityStepInv == IdentityInv /\ [IdentityNext]_identityVars => IdentityInv'
<1> SUFFICES ASSUME IdentityInv, [IdentityNext]_identityVars PROVE IdentityInv'
  OBVIOUS
<1>1. ASSUME NEW c \in AuthCalls, NEW code \in Typed, LoginRead(c, account.password, code) PROVE IdentityInv'
  BY <1>1, TypedFits, LoginReadInv
<1>2. ASSUME NEW c \in AuthCalls, LoginRead(c, 0, NoCode) PROVE IdentityInv'
  <2>1. CodeShape(NoCode) /\ NoCode.secret < fresh.secret
    BY NoCodeFits DEF IdentityInv, FactorTyped
  <2> QED
    BY <1>2, <2>1, LoginReadInv
<1>3. ASSUME NEW c \in AuthCalls, LoginRehash(c) \/ RecordFailure(c) \/ LoginStatus(c) \/ LoginReset(c)
      PROVE IdentityInv'
  BY <1>3, LoginRehashInv, RecordFailureInv, LoginGoesOnInv
<1>4. ASSUME NEW c \in AuthCalls, NEW cookie \in Cookies, LoginMint(c, cookie) \/ ChangeMint(c, cookie)
      PROVE IdentityInv'
  BY <1>4, LoginMintInv, ChangeMintInv
<1>5. ASSUME NEW c \in AuthCalls, NEW code \in Typed, NEW kind \in {"disable", "regenerate"}, FactorBegin(c, kind, code)
      PROVE IdentityInv'
  BY <1>5, TypedFits, FactorBeginInv
<1>6. ASSUME NEW c \in AuthCalls, NEW code \in Typed, ConfirmRead(c, code) PROVE IdentityInv'
  BY <1>6, ConfirmReadInv
<1>7. ASSUME NEW c \in AuthCalls, \/ VerifySecondFactor(c) \/ ConsumeStep(c) \/ ConsumeRecovery(c)
                                  \/ DisableTOTP(c) \/ ReplaceRecoveryCodes(c)
      PROVE IdentityInv'
  BY <1>7, VerifySecondFactorInv, ConsumeStepInv, ConsumeRecoveryInv, DisableTOTPInv, ReplaceRecoveryCodesInv
<1>8. ASSUME NEW c \in AuthCalls, EnrollRead(c) \/ EnrollUpsert(c) \/ ConfirmActivate(c) PROVE IdentityInv'
  BY <1>8, EnrollReadInv, EnrollUpsertInv, ConfirmActivateInv
<1>9. ASSUME NEW c \in AuthCalls, ChangeRead(c, account.password) \/ ChangeUpdate(c) PROVE IdentityInv'
  BY <1>9, ChangeReadInv, ChangeUpdateInv
<1>10. ASSUME NEW c \in AuthCalls, NEW cookie \in Live, OthersBegin(c, cookie) PROVE IdentityInv'
  BY <1>10, OthersBeginInv
<1>11. ASSUME NEW c \in AuthCalls, OthersLookup(c) \/ OthersRevoke(c) PROVE IdentityInv'
  BY <1>11, OthersLookupInv, OthersRevokeInv
<1>12. ASSUME NEW c \in AuthCalls, ResetRevoke(c) \/ ResetUpdate(c) \/ ResetUndo(c) \/ CallDies(c) PROVE IdentityInv'
  BY <1>12, ResetRevokeInv, ResetUpdateInv, ResetUndoInv, CallDiesInv
<1>13. ASSUME NEW c \in AuthCalls, NEW clearMFA \in BOOLEAN, ResetAudited(c, clearMFA) PROVE IdentityInv'
  BY <1>13, ResetAuditedInv
<1>14. ASSUME NEW cookie \in Cookies, SessionEnds(cookie) PROVE IdentityInv'
  BY <1>14, SessionEndsInv
<1>15. CASE DisableUser \/ AdminUnlock \/ LockExpires \/ NextStep
  BY <1>15, AdministrationInv, NextStepInv
<1>16. CASE UNCHANGED identityVars
  <2>1. UNCHANGED <<lockoutVars, factorVars, sessionVars>> /\ fresh' = fresh /\ step' = step /\ authCall' = authCall
        /\ account'.password = account.password
    BY <1>16 DEF identityVars, lockoutVars, factorVars, sessionVars
  <2>2. LockoutHolds' /\ FactorTyped' /\ SpentHolds'
    BY <2>1, LockoutStays, FactorStays DEF IdentityInv, FactorTyped
  <2>3. \A d \in AuthCalls : \A k \in Cookies : Clears(d, k) => Clears(d, k)'
    BY <2>1 DEF Clears
  <2>4. CallsHold'
    BY <2>1 DEF IdentityInv, CallsHold
  <2>5. SessionsHold'
    BY <2>1, <2>3, SessionsStay
  <2> QED
    BY <2>2, <2>4, <2>5 DEF IdentityInv
<1> QED
  BY <1>1, <1>2, <1>3, <1>4, <1>5, <1>6, <1>7, <1>8, <1>9, <1>10, <1>11, <1>12, <1>13, <1>14, <1>15, <1>16
     DEF IdentityNext

LEMMA IdentityInvHolds == IdentitySpec => []IdentityInv
BY IdentityInitInv, IdentityStepInv, PTL DEF IdentitySpec

\* However logins, second-factor checks, enrolments and resets overlap (auth/totp.go,
\* store/totp.go, store/users.go), a code is taken once by the factor it belongs to, and
\* the counters add up to the failures recorded since the last reset.
THEOREM AttemptsHold == IdentitySpec => []AttemptsAreCounted
BY IdentityInvHolds, IdentityInvImplies, PTL

\* Once a password change has ended, the sessions left are of the password it set, but
\* for the ones excused (auth/sessions.go ChangePassword, RevokeOtherSessions).
THEOREM SessionsFollow == IdentitySpec => []SessionsFollowThePassword
BY IdentityInvHolds, IdentityInvImplies, PTL

=============================================================================
