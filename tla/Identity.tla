------------------------------ MODULE Identity ------------------------------
(***************************************************************************)
(* The identity provider (internal/server/identity/server.go), over        *)
(* restarts and time, and those who verify its tokens with the key set it  *)
(* publishes (internal/cli/identity.go, and caches the answer allows).     *)
(*                                                                         *)
(* The key is read from the environment or made anew at every start, and   *)
(* always published under the same key id.  Time is counted in ticks,      *)
(* Grain to a second: a token carries whole seconds, rounded down.  What   *)
(* only reads (introspection, userinfo, verification) is a predicate over  *)
(* the tokens that were issued.  Signatures are the keys that made them.   *)
(***************************************************************************)
EXTENDS Naturals, FiniteSets

CONSTANTS
    Clients,   \* client identifiers, with their secrets
    Secrets,   \* Secrets[c]: the secret of client c
    Offered,   \* secrets that requests carry
    Issuers,   \* the issuers a server may be started as
    Verifiers, \* those who verify tokens with the published key
    NoKeySet,  \* the verifier holds no key set
    Grain,     \* ticks to a second
    TTL,       \* tokenTTL in seconds, 3600 in the code
    MaxAge,    \* seconds a key set may be cached, 3600 in the code
    MaxTime,   \* bound: ticks
    MaxLives,  \* bound: starts of the server
    MaxTokens  \* bound: tokens issued

ASSUME IdentityAssumption ==
    /\ Secrets \in [Clients -> Offered]
    /\ {Grain, TTL, MaxAge} \subseteq Nat \ {0}
    /\ {MaxTime, MaxLives, MaxTokens} \subseteq Nat

VARIABLES
    now,        \* the time, in ticks
    configured, \* SIDEQUEST_IDENTITY_SIGNING_KEY is set
    up,         \* the server runs
    key,        \* its key: 0 is the configured one, n the one made at start n
    issuer,     \* the issuer it was started as
    tokens,     \* the tokens issued so far
    keySet,     \* keySet[v]: what the verifier fetched, and when, or NoKeySet
    lives,      \* history: starts so far
    started     \* history: the time of the last

vars == <<now, configured, up, key, issuer, tokens, keySet, lives, started>>

Seconds(t) == t \div Grain

\* iss, aud, iat (nbf is the same), exp, the key that signed it; the ticks
\* and the start at which it was issued are history.
Token == [iss : Issuers, aud : Clients, iat : Nat, exp : Nat, key : 0 .. MaxLives,
          issued : Nat, life : 1 .. MaxLives]

-----------------------------------------------------------------------------
Init ==
    /\ now = 0 /\ configured \in BOOLEAN
    /\ up = FALSE /\ key = 0 /\ issuer \in Issuers
    /\ tokens = {}
    /\ keySet = [v \in Verifiers |-> NoKeySet]
    /\ lives = 0 /\ started = 0

Tick == /\ now < MaxTime
        /\ now' = now + 1
        /\ UNCHANGED <<configured, up, key, issuer, tokens, keySet, lives, started>>

\* Mutant: the key in the environment is not used.
StartWithNewKey ==
    /\ ~up /\ lives < MaxLives
    /\ up' = TRUE /\ lives' = lives + 1 /\ started' = now
    /\ key' = lives + 1
    /\ issuer' \in Issuers
    /\ UNCHANGED <<now, configured, tokens, keySet>>

\* New, then Start.
StartServer ==
    /\ ~up /\ lives < MaxLives
    /\ up' = TRUE /\ lives' = lives + 1 /\ started' = now
    /\ key' = IF configured THEN 0 ELSE lives + 1
    /\ issuer' \in Issuers
    /\ UNCHANGED <<now, configured, tokens, keySet>>

\* Shutdown or crash: nothing is kept.  Bound: the last start is not stopped.
Stop == /\ up /\ lives < MaxLives
        /\ up' = FALSE
        /\ UNCHANGED <<now, configured, key, issuer, tokens, keySet, lives, started>>

\* Mutant: the expiry is rounded up.
IssueTokenRoundedUp(client) ==
    [iss |-> issuer, aud |-> client, iat |-> Seconds(now), exp |-> Seconds(now) + 1 + TTL,
     key |-> key, issued |-> now, life |-> lives]

IssueToken(client) ==
    [iss |-> issuer, aud |-> client, iat |-> Seconds(now), exp |-> Seconds(now) + TTL,
     key |-> key, issued |-> now, life |-> lives]

\* A request with grant_type client_credentials; any other changes nothing.
handleToken(client, secret) ==
    /\ up /\ Cardinality(tokens) < MaxTokens
    /\ Secrets[client] = secret
    /\ tokens' = tokens \union {IssueToken(client)}
    /\ UNCHANGED <<now, configured, up, key, issuer, keySet, lives, started>>

\* One key, under the one key id.
handleJWKS(v) ==
    /\ up
    /\ keySet' = [keySet EXCEPT ![v] = [key |-> key, at |-> now]]
    /\ UNCHANGED <<now, configured, up, key, issuer, tokens, lives, started>>

Next ==
    \/ Tick \/ StartServer \/ Stop
    \/ \E client \in Clients, secret \in Offered : handleToken(client, secret)
    \/ \E v \in Verifiers : handleJWKS(v)

Spec == Init /\ [][Next]_vars

-----------------------------------------------------------------------------
(* Who takes which token for valid. *)

\* jwt.Parse: the signature, not before nbf, before exp.
Parses(token, with) ==
    /\ token.key = with
    /\ token.iat * Grain <= now
    /\ now < token.exp * Grain

\* What introspection calls active,
handleIntrospect(token) == up /\ Parses(token, key)

\* and userinfo answers for.
handleUserinfo(token) == up /\ Parses(token, key)

\* Mutant: a key set is used for a tick too long.
FreshAtMaxAge(v) == keySet[v] # NoKeySet /\ now - keySet[v].at <= MaxAge * Grain

\* The answer of /jwks may be used for MaxAge seconds.
Fresh(v) == keySet[v] # NoKeySet /\ now - keySet[v].at < MaxAge * Grain

\* Verification with a fresh key set, and the issuer and audience asked for.
Validates(v, token, issuers, audiences) ==
    /\ Fresh(v)
    /\ Parses(token, keySet[v].key)
    /\ token.iss \in issuers /\ token.aud \in audiences

-----------------------------------------------------------------------------
\* The key is the configured one or that of the running start, no token is
\* from the future, and key sets are of keys that were published.
TypeOK ==
    /\ now \in 0 .. MaxTime /\ started \in 0 .. now /\ lives \in 0 .. MaxLives
    /\ configured \in BOOLEAN /\ up \in BOOLEAN /\ issuer \in Issuers
    /\ key = IF configured THEN 0 ELSE lives
    /\ tokens \subseteq Token
    /\ \A token \in tokens : token.issued <= now /\ token.life <= lives
    /\ \A v \in Verifiers : keySet[v] # NoKeySet => keySet[v].key \in 0 .. lives /\ keySet[v].at <= now

\* expires_in is kept to the second: a token is active until at most a second
\* before the TTL has run from its issue, and never beyond it; over restarts
\* if the key is configured, else for the life of the server that issued it
\* (identity/server.go:136-153, 241, 252-320).
ActiveAsPromised ==
    \A token \in tokens :
        /\ handleIntrospect(token) => now < token.issued + TTL * Grain
        /\ up /\ (configured \/ token.life = lives) /\ now + Grain <= token.issued + TTL * Grain
              => handleIntrospect(token) /\ handleUserinfo(token)
        /\ ~configured /\ token.life # lives => ~handleIntrospect(token)

\* Once a server has run for as long as key sets are cached, every verifier
\* agrees with it on every token, also on those of earlier starts under the
\* same key id (identity/server.go:177-198, cli/identity.go:129-205).
CachesAgree ==
    up /\ now >= started + MaxAge * Grain =>
        \A v \in Verifiers, token \in tokens :
            Fresh(v) => (Validates(v, token, Issuers, Clients) <=> handleIntrospect(token))
=============================================================================
