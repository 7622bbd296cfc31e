----------------------------- MODULE Federation -----------------------------
(***************************************************************************)
(* CI federation and service tokens: the trusted issuers, the bindings     *)
(* pinned to them, the exchange of an issuer's signed token for a          *)
(* short-lived service token, and the tokens themselves, minted by a user  *)
(* or by a binding.                                                        *)
(*                                                                         *)
(* What decides whether an issuer's token verifies, the audience and the   *)
(* CA bundle its keys are fetched under, is its anchor. A claim map is     *)
(* reduced to whether it holds the strong identifying claim; a binding     *)
(* that does not ask for it is satisfied by every token of its issuer.     *)
(* Audit appends at the end of a handler change nothing here and are left  *)
(* to the audit model.                                                     *)
(***************************************************************************)
EXTENDS Naturals, FiniteSets

CONSTANTS
    Issuers,       \* issuer URLs, normalised
    KnownIssuers,  \* those whose URL alone tells the provider
    Anchors,       \* [audience, ca] records
    FedBindings,   \* binding ids
    SvcTokens,     \* service token ids
    ScopeTargets,  \* configs and environments
    Exchanges,     \* concurrent exchange requests
    Addresses,     \* client addresses
    TrustRows,     \* the rows an administrator may store for an issuer
    MaxTrust       \* bound on changes of the trusted issuers

ASSUME FederationAssumption ==
    /\ KnownIssuers \subseteq Issuers /\ {"user", "none"} \cap FedBindings = {}
    /\ \A a \in Anchors : a = [audience |-> a.audience, ca |-> a.ca]
    /\ TrustRows \subseteq [anchor : Anchors, preset : {"provider", "custom"}, enabled : BOOLEAN]
    /\ MaxTrust \in Nat

VARIABLES
    trust,        \* oidc_federation_config, by issuer
    bindings,     \* oidc_federation_bindings, by id
    svcTokens,    \* service_tokens, by id
    targets,      \* the scope targets that exist
    seenIPs,      \* token_seen_ips
    fedCache,     \* fedCache: the anchor of each cached verifier
    changes,      \* how often the trust has changed
    flushes,      \* changes of the trust whose invalidation is still to come
    replacing,    \* a SetFederationConfig between its List and its Put
    exchange,     \* the local state of each exchange
    undeletable   \* history: the deletion of an existing binding was refused

fedVars == <<trust, bindings, svcTokens, targets, seenIPs, fedCache, changes, flushes,
             replacing, exchange, undeletable>>

NoAnchor == [audience |-> "none", ca |-> "none"]
NoTrust == [anchor |-> NoAnchor, preset |-> "none", enabled |-> FALSE]
NoBinding == [issuer |-> "none", strong |-> FALSE, target |-> "none", enabled |-> FALSE]
DeletedBinding == [NoBinding EXCEPT !.target = "deleted"] \* ids are never used again
NoToken == [minter |-> "none", issuer |-> "none", target |-> "none", status |-> "none",
            allow |-> {}]
NotReplacing == [pc |-> "idle", issuer |-> "none", row |-> NoTrust]
NoJWT == [issuer |-> "none", anchor |-> NoAnchor, strong |-> FALSE]
IdleExchange == [pc |-> "idle", jwt |-> NoJWT, row |-> NoTrust, used |-> NoAnchor,
                 binding |-> "none"]

\* A signed token, as far as it matters which issuer it names, under which anchor it
\* verifies, and whether it carries the strong claim.
JWTs == [issuer : Issuers, anchor : Anchors, strong : BOOLEAN]

Trusted == {i \in Issuers : trust[i] # NoTrust}

FederationInit ==
    /\ trust = [i \in Issuers |-> NoTrust]
    /\ bindings = [b \in FedBindings |-> NoBinding]
    /\ svcTokens = [t \in SvcTokens |-> NoToken]
    /\ targets = ScopeTargets /\ seenIPs = {}
    /\ fedCache = [i \in Issuers |-> NoAnchor] /\ changes = 0 /\ flushes = 0
    /\ replacing = NotReplacing
    /\ exchange = [x \in Exchanges |-> IdleExchange] /\ undeletable = FALSE

----------------------------------------------------------------------------
(* Trusted issuers. Every change is a statement, and after it the flush of *)
(* the verifier cache.                                                     *)

TrustChanges == changes < MaxTrust /\ changes' = changes + 1 /\ flushes' = flushes + 1
InvalidateFederationVerifier ==
    /\ flushes > 0 /\ flushes' = flushes - 1
    /\ fedCache' = [i \in Issuers |-> NoAnchor]
    /\ UNCHANGED <<trust, bindings, svcTokens, targets, seenIPs, changes, replacing, exchange, undeletable>>

PutFederationIssuer(i, row) ==
    /\ trust[i] # row /\ TrustChanges
    /\ trust' = [trust EXCEPT ![i] = row]
    /\ UNCHANGED <<bindings, svcTokens, targets, seenIPs, fedCache, replacing, exchange, undeletable>>
DeleteFederationIssuer(i) ==
    /\ i \in Trusted /\ TrustChanges
    /\ trust' = [trust EXCEPT ![i] = NoTrust]
    /\ UNCHANGED <<bindings, svcTokens, targets, seenIPs, fedCache, replacing, exchange, undeletable>>
DeleteFederationConfig ==
    /\ Trusted # {} /\ TrustChanges
    /\ trust' = [i \in Issuers |-> NoTrust]
    /\ UNCHANGED <<bindings, svcTokens, targets, seenIPs, fedCache, replacing, exchange, undeletable>>

\* SetFederationConfig, the single-issuer endpoint: it refuses once several issuers
\* are trusted, by the list it read, and then replaces whatever is there.
SetFederationConfig(i, row) ==
    /\ replacing.pc = "idle" /\ Cardinality(Trusted) <= 1
    /\ replacing' = [pc |-> "put", issuer |-> i, row |-> row]
    /\ UNCHANGED <<trust, bindings, svcTokens, targets, seenIPs, fedCache, changes, flushes, exchange, undeletable>>
PutFederationConfig ==
    /\ replacing.pc = "put" /\ TrustChanges
    /\ trust' = [i \in Issuers |-> IF i = replacing.issuer THEN replacing.row ELSE NoTrust]
    /\ replacing' = NotReplacing
    /\ UNCHANGED <<bindings, svcTokens, targets, seenIPs, fedCache, exchange, undeletable>>

----------------------------------------------------------------------------
(* Bindings.                                                               *)

\* requiredClaimGroups and bindingHasStrongClaim: an explicit preset decides, and
\* without one the issuer's URL where it is a known one.
BindingHasStrongClaim(issuer, preset, strong) ==
    (preset = "provider" \/ (preset = "" /\ issuer \in KnownIssuers)) => strong

\* resolveBindingIssuer: a trusted issuer with its preset; any issuer while none is
\* trusted.
ResolveBindingIssuer(issuer) ==
    IF issuer \in Trusted THEN {trust[issuer].preset} ELSE IF Trusted = {} THEN {""} ELSE {}

CreateFederationBinding(b, issuer, strong, target) ==
    /\ bindings[b] = NoBinding /\ target \in targets
    /\ \E preset \in ResolveBindingIssuer(issuer) : BindingHasStrongClaim(issuer, preset, strong)
    /\ bindings' = [bindings EXCEPT ![b] =
           [issuer |-> issuer, strong |-> strong, target |-> target, enabled |-> TRUE]]
    /\ UNCHANGED <<trust, svcTokens, targets, seenIPs, fedCache, changes, flushes, replacing, exchange, undeletable>>

\* The tokens that name a binding. ON DELETE SET NULL would leave them with neither a
\* creator nor a binding, which the CHECK on service_tokens refuses.
TokensOf(b) == {t \in SvcTokens : svcTokens[t].minter = b}
DeleteFederationBinding(b) ==
    /\ bindings[b] \notin {NoBinding, DeletedBinding}
    /\ IF TokensOf(b) = {}
         THEN bindings' = [bindings EXCEPT ![b] = DeletedBinding] /\ UNCHANGED undeletable
         ELSE undeletable' = TRUE /\ UNCHANGED bindings
    /\ UNCHANGED <<trust, svcTokens, targets, seenIPs, fedCache, changes, flushes, replacing, exchange>>

----------------------------------------------------------------------------
(* The exchange: FederateCILogin.                                          *)

\* federationVerifierFor: the enabled row of the issuer the token names.
FederateCILogin(x, jwt) ==
    /\ exchange[x].pc = "idle" /\ trust[jwt.issuer].enabled
    /\ exchange' = [exchange EXCEPT ![x] =
           [IdleExchange EXCEPT !.pc = "verify", !.jwt = jwt, !.row = trust[jwt.issuer]]]
    /\ UNCHANGED <<trust, bindings, svcTokens, targets, seenIPs, fedCache, changes, flushes, replacing, undeletable>>

\* The cached verifier counts only when it was built for the row just read.
CachedVerifier(cached, anchor) ==
    cached # NoAnchor /\ cached.audience = anchor.audience /\ cached.ca = anchor.ca

FederationVerifierFor(x) ==
    LET i == exchange[x].jwt.issuer
        used == IF CachedVerifier(fedCache[i], exchange[x].row.anchor)
                  THEN fedCache[i] ELSE exchange[x].row.anchor
    IN  /\ exchange[x].pc = "verify"
        /\ fedCache' = [fedCache EXCEPT ![i] = used]
        /\ exchange' = [exchange EXCEPT ![x] =
               IF exchange[x].jwt.anchor = used THEN [@ EXCEPT !.pc = "match", !.used = used]
                                                ELSE IdleExchange]
        /\ UNCHANGED <<trust, bindings, svcTokens, targets, seenIPs, changes, flushes, replacing, undeletable>>

ClaimsSatisfy(jwt, b) == bindings[b].strong => jwt.strong

\* Mutant of BindingsForIssuer: the bindings of every issuer are candidates.
BindingsForAnyIssuer(jwt) == {b \in FedBindings : bindings[b].enabled}
\* bindingsForIssuer and matchFederationBinding: the one enabled binding that matches.
BindingsForIssuer(jwt) == {b \in FedBindings : bindings[b].issuer = jwt.issuer}
MatchFederationBinding(x) ==
    LET matched == {b \in BindingsForIssuer(exchange[x].jwt) :
                        bindings[b].enabled /\ ClaimsSatisfy(exchange[x].jwt, b)}
    IN  /\ exchange[x].pc = "match"
        /\ exchange' = [exchange EXCEPT ![x] =
               IF Cardinality(matched) = 1
                 THEN [@ EXCEPT !.pc = "mint", !.binding = CHOOSE b \in matched : TRUE]
                 ELSE IdleExchange]
        /\ UNCHANGED <<trust, bindings, svcTokens, targets, seenIPs, fedCache, changes, flushes, replacing, undeletable>>

\* MintFederatedToken. The foreign key refuses a binding deleted since; a target
\* deleted since is not looked at.
MintFederatedToken(x, t) ==
    LET b == exchange[x].binding
    IN  /\ exchange[x].pc = "mint" /\ svcTokens[t] = NoToken
        /\ svcTokens' = IF bindings[b] = DeletedBinding THEN svcTokens
               ELSE [svcTokens EXCEPT ![t] = [minter |-> b, issuer |-> exchange[x].jwt.issuer,
                        target |-> bindings[b].target, status |-> "active", allow |-> Addresses]]
        /\ exchange' = [exchange EXCEPT ![x] = IdleExchange]
        /\ UNCHANGED <<trust, bindings, targets, seenIPs, fedCache, changes, flushes, replacing, undeletable>>

----------------------------------------------------------------------------
(* Service tokens.                                                         *)

\* handleTokenMint and MintServiceToken: for a target that exists, by a user.
MintServiceToken(t, target, allow) ==
    /\ svcTokens[t] = NoToken /\ target \in targets
    /\ svcTokens' = [svcTokens EXCEPT ![t] = [NoToken EXCEPT !.minter = "user", !.target = target,
                                                 !.status = "active", !.allow = allow]]
    /\ UNCHANGED <<trust, bindings, targets, seenIPs, fedCache, changes, flushes, replacing, exchange, undeletable>>

\* resolveScopeResource, of the update and of the revocation: a token whose target is
\* gone cannot be changed through the API.
ResolveScopeResource(t) == svcTokens[t] # NoToken /\ svcTokens[t].target \in targets
SetTokenIPAllowlist(t, allow) ==
    /\ ResolveScopeResource(t) /\ svcTokens[t].allow # allow
    /\ svcTokens' = [svcTokens EXCEPT ![t].allow = allow]
    /\ UNCHANGED <<trust, bindings, targets, seenIPs, fedCache, changes, flushes, replacing, exchange, undeletable>>
RevokeToken(t) ==
    /\ ResolveScopeResource(t) /\ svcTokens[t].status \in {"active", "expired"}
    /\ svcTokens' = [svcTokens EXCEPT ![t].status = "revoked"]
    /\ UNCHANGED <<trust, bindings, targets, seenIPs, fedCache, changes, flushes, replacing, exchange, undeletable>>
TokenExpires(t) ==
    /\ svcTokens[t].status = "active"
    /\ svcTokens' = [svcTokens EXCEPT ![t].status = "expired"]
    /\ UNCHANGED <<trust, bindings, targets, seenIPs, fedCache, changes, flushes, replacing, exchange, undeletable>>

\* VerifyServiceToken and RequireAuth: alive, inside its allowlist; the address is
\* recorded, and reported when it is new.
IPAllowed(t, ip) == ip \in svcTokens[t].allow
VerifyServiceToken(t) == svcTokens[t].status = "active"
RequireAuth(t, ip) ==
    /\ VerifyServiceToken(t) /\ IPAllowed(t, ip) /\ <<t, ip>> \notin seenIPs
    /\ seenIPs' = seenIPs \cup {<<t, ip>>}
    /\ UNCHANGED <<trust, bindings, svcTokens, targets, fedCache, changes, flushes, replacing, exchange, undeletable>>

\* A config or environment goes, into the trash or for good; tokens and bindings stay.
TargetGoes(target) ==
    /\ target \in targets
    /\ targets' = targets \ {target}
    /\ UNCHANGED <<trust, bindings, svcTokens, seenIPs, fedCache, changes, flushes, replacing, exchange, undeletable>>

FederationNext ==
    \/ \E i \in Issuers : \/ DeleteFederationIssuer(i)
                          \/ \E row \in TrustRows : PutFederationIssuer(i, row) \/ SetFederationConfig(i, row)
    \/ DeleteFederationConfig \/ PutFederationConfig \/ InvalidateFederationVerifier
    \/ \E b \in FedBindings :
        \/ DeleteFederationBinding(b)
        \/ \E i \in Issuers, strong \in BOOLEAN, s \in ScopeTargets : CreateFederationBinding(b, i, strong, s)
    \/ \E x \in Exchanges :
        \/ \E jwt \in JWTs : FederateCILogin(x, jwt)
        \/ FederationVerifierFor(x) \/ MatchFederationBinding(x)
        \/ \E t \in SvcTokens : MintFederatedToken(x, t)
    \/ \E t \in SvcTokens :
        \/ \E s \in ScopeTargets : MintServiceToken(t, s, Addresses)
        \/ \E allow \in SUBSET Addresses \ {{}} : SetTokenIPAllowlist(t, allow)
        \/ RevokeToken(t) \/ TokenExpires(t)
        \/ \E ip \in Addresses : RequireAuth(t, ip)
    \/ \E s \in ScopeTargets : TargetGoes(s)

FederationSpec == FederationInit /\ [][FederationNext]_fedVars

----------------------------------------------------------------------------
(* Properties.                                                             *)

\* A federated token was minted for a token that the binding's own issuer signed,
\* whatever other issuers are trusted and whatever bindings came and went between the
\* match and the mint (auth/oidc_federation.go: bindingsForIssuer).
FederatedTokenIsPinned ==
    \A t \in SvcTokens : svcTokens[t].minter \in FedBindings =>
        svcTokens[t].issuer = bindings[svcTokens[t].minter].issuer

\* A signed token is verified under the audience and the CA bundle of the row its
\* exchange read, although verifiers are cached and a cache entry may be built from
\* an old row after the flush that was to remove it.
VerifiedUnderTheRowRead ==
    \A x \in Exchanges : exchange[x].pc \in {"match", "mint"} => exchange[x].used = exchange[x].row.anchor

\* A minted token was verified under one row of trust, the one that was read, and pinned by
\* a binding of that issuer.
FederationIsPinned == FederatedTokenIsPinned /\ VerifiedUnderTheRowRead

=============================================================================
