--------------------------- MODULE IdentityProofs ---------------------------
(***************************************************************************)
(* What holds of the identity provider for every grain of the clock, every *)
(* lifetime of tokens and of cached key sets, and any number of restarts,  *)
(* clients and verifiers.                                                  *)
(***************************************************************************)
EXTENDS Identity, TLAPS

LEMMA Constants ==
    /\ Grain \in Nat \ {0} /\ TTL \in Nat \ {0} /\ MaxAge \in Nat \ {0}
    /\ MaxTime \in Nat /\ MaxLives \in Nat
BY IdentityAssumption

\* Rounding down to seconds loses less than a second.
LEMMA Rounding ==
    ASSUME NEW t \in Nat
    PROVE  /\ Seconds(t) \in Nat
           /\ Seconds(t) * Grain <= t /\ t < Seconds(t) * Grain + Grain
BY IdentityAssumption, SMT DEF Seconds

\* A lifetime in seconds, in ticks.
LEMMA Lifetime ==
    ASSUME NEW s \in Nat
    PROVE  /\ (s + TTL) * Grain = s * Grain + TTL * Grain
           /\ s * Grain \in Nat /\ TTL * Grain \in Nat
BY IdentityAssumption, SMT

-----------------------------------------------------------------------------
\* The key of every start, the running one included.
KeyAt(life) == IF configured THEN 0 ELSE life

\* What a token says of its issue.
TokensInv == \A token \in tokens :
    /\ token.iat = Seconds(token.issued) /\ token.exp = token.iat + TTL
    /\ token.key = KeyAt(token.life)

\* A key set fetched after the last start is of the running server's key.
KeySetsInv == \A v \in Verifiers :
    keySet[v] # NoKeySet /\ keySet[v].at > started => keySet[v].key = key

KeySets == [key : 0 .. MaxLives, at : 0 .. MaxTime] \union {NoKeySet}

IInv ==
    /\ TypeOK /\ keySet \in [Verifiers -> KeySets]
    /\ TokensInv /\ KeySetsInv
    /\ up => lives > 0

LEMMA Initially == Init => IInv
<1>1. SUFFICES ASSUME Init PROVE IInv
  OBVIOUS
<1>2. tokens = {} /\ \A v \in Verifiers : keySet[v] = NoKeySet
  BY <1>1 DEF Init
<1>3. TypeOK
  <2>1. /\ now = 0 /\ started = 0 /\ lives = 0 /\ key = 0
        /\ configured \in BOOLEAN /\ up \in BOOLEAN /\ issuer \in Issuers
    BY <1>1 DEF Init
  <2>2. now \in 0 .. MaxTime /\ started \in 0 .. now /\ lives \in 0 .. MaxLives
    BY <2>1, Constants
  <2>3. key = IF configured THEN 0 ELSE lives
    BY <2>1
  <2>4. QED
    BY <1>2, <2>1, <2>2, <2>3 DEF TypeOK
<1>4. TokensInv /\ KeySetsInv
  BY <1>2 DEF TokensInv, KeySetsInv
<1>5. QED
  BY <1>1, <1>3, <1>4 DEF Init, IInv, KeySets

LEMMA TickKeeps == ASSUME IInv, Tick PROVE IInv'
<1> USE DEF Tick, IInv
<1>1. now \in Nat /\ now' = now + 1 /\ now' \in 0 .. MaxTime
  BY Constants DEF TypeOK
<1>2. \A token \in tokens : token.issued \in Nat
  BY DEF TypeOK, Token
<1>3. \A v \in Verifiers : keySet[v] # NoKeySet => keySet[v].at \in Nat
  BY Constants DEF KeySets
<1>4. TypeOK'
  BY <1>1, <1>2, <1>3 DEF TypeOK
<1>5. TokensInv' /\ KeySetsInv'
  BY DEF TokensInv, KeySetsInv, KeyAt
<1>6. QED
  BY <1>4, <1>5

LEMMA StartKeeps ==
    ASSUME IInv, StartServer
    PROVE  IInv'
<1> USE IdentityAssumption DEF StartServer
<1>1. \A v \in Verifiers : keySet[v] # NoKeySet => keySet[v].at <= now
  BY DEF IInv, TypeOK
<1>2. KeySetsInv'
  BY <1>1 DEF IInv, TypeOK, KeySetsInv, KeySets
<1>3. TypeOK'
  BY DEF IInv, TypeOK, KeySets, Token
<1>4. TokensInv'
  BY DEF IInv, TokensInv, KeyAt
<1>5. QED
  BY <1>2, <1>3, <1>4 DEF IInv, TypeOK

LEMMA StopKeeps == ASSUME IInv, Stop PROVE IInv'
BY DEF Stop, IInv, TypeOK, TokensInv, KeySetsInv, KeyAt

LEMMA IssueKeeps ==
    ASSUME IInv, NEW client \in Clients, NEW secret \in Offered, handleToken(client, secret)
    PROVE  IInv'
<1>0. /\ now \in Nat /\ lives \in 1 .. MaxLives /\ issuer \in Issuers /\ key \in 0 .. MaxLives
      /\ key = KeyAt(lives) /\ TTL \in Nat
  BY IdentityAssumption DEF handleToken, IInv, TypeOK, KeyAt
<1>1. Seconds(now) \in Nat
  BY <1>0, Rounding
<1>2. IssueToken(client) \in Token
  BY <1>0, <1>1 DEF IssueToken, Token
<1>3. \A token \in tokens' : token \in tokens \/ token = IssueToken(client)
  BY DEF handleToken
<1>4. TypeOK'
  BY <1>0, <1>2, <1>3 DEF handleToken, IInv, TypeOK, IssueToken
<1>5. TokensInv'
  BY <1>0, <1>3 DEF handleToken, IInv, TokensInv, IssueToken, KeyAt
<1>6. QED
  BY <1>4, <1>5 DEF handleToken, IInv, KeySetsInv

LEMMA FetchKeeps ==
    ASSUME IInv, NEW v \in Verifiers, handleJWKS(v)
    PROVE  IInv'
<1> DEFINE new == [key |-> key, at |-> now]
<1>1. /\ now \in 0 .. MaxTime /\ lives \in 0 .. MaxLives /\ key \in 0 .. lives
      /\ keySet \in [Verifiers -> KeySets]
  BY IdentityAssumption DEF IInv, TypeOK
<1>2. new \in KeySets /\ new.key = key /\ new.at = now
  BY <1>1, IdentityAssumption DEF KeySets
<1>3. keySet' = [keySet EXCEPT ![v] = new]
  BY DEF handleJWKS
<1> HIDE DEF new
<1>4. keySet' \in [Verifiers -> KeySets] /\ KeySetsInv'
  BY <1>1, <1>2, <1>3 DEF handleJWKS, IInv, KeySetsInv
<1>5. TypeOK'
  BY <1>1, <1>2, <1>3 DEF handleJWKS, IInv, TypeOK
<1>6. QED
  BY <1>4, <1>5 DEF handleJWKS, IInv, TokensInv, KeyAt

LEMMA EveryStepKeeps ==
    ASSUME IInv, [Next]_vars
    PROVE  IInv'
<1>1. CASE UNCHANGED vars
  BY <1>1 DEF vars, IInv, TypeOK, TokensInv, KeySetsInv, KeyAt
<1>2. QED
  BY <1>1, TickKeeps, StartKeeps, StopKeeps, IssueKeeps, FetchKeeps DEF Next

LEMMA IdentityInvariant == Spec => []IInv
BY Initially, EveryStepKeeps, PTL DEF Spec

-----------------------------------------------------------------------------
\* The key is the configured one or that of the running start, no token is from
\* the future, and key sets are of keys that were published.
THEOREM IdentityTypes == Spec => []TypeOK
<1>1. IInv => TypeOK
  BY DEF IInv
<1>2. QED
  BY <1>1, IdentityInvariant, PTL

LEMMA PromiseKept == ASSUME IInv PROVE ActiveAsPromised
<1>1. SUFFICES ASSUME NEW token \in tokens
               PROVE  /\ up /\ Parses(token, key) => now < token.issued + TTL * Grain
                      /\ (/\ configured \/ token.life = lives
                          /\ now + Grain <= token.issued + TTL * Grain)
                            => Parses(token, key)
                      /\ ~configured /\ token.life # lives => ~ Parses(token, key)
  BY DEF ActiveAsPromised, handleIntrospect, handleUserinfo
<1>2. /\ token.issued \in Nat /\ token.iat = Seconds(token.issued)
      /\ token.exp = token.iat + TTL /\ token.issued <= now /\ now \in Nat
      /\ token.key = KeyAt(token.life) /\ key = KeyAt(lives) /\ Grain \in Nat
  BY <1>1, IdentityAssumption DEF IInv, TypeOK, TokensInv, KeyAt, Token
<1>3. /\ token.iat * Grain <= token.issued /\ token.issued < token.iat * Grain + Grain
      /\ token.exp * Grain = token.iat * Grain + TTL * Grain
      /\ token.iat * Grain \in Nat /\ TTL * Grain \in Nat
  BY <1>2, Rounding, Lifetime
<1>4. Parses(token, key) <=> token.key = key /\ now < token.exp * Grain
  BY <1>2, <1>3 DEF Parses
<1>5. token.key = key <=> configured \/ token.life = lives
  BY <1>2 DEF KeyAt
<1> DEFINE begin == token.iat * Grain
           end   == token.exp * Grain
           life  == TTL * Grain
<1>6. /\ begin \in Nat /\ life \in Nat /\ end = begin + life
      /\ begin <= token.issued /\ token.issued < begin + Grain
      /\ Parses(token, key) <=> token.key = key /\ now < end
  BY <1>3, <1>4
<1> HIDE DEF begin, end, life
<1>7. /\ now < end => now < token.issued + life
      /\ now + Grain <= token.issued + life => now < end
  BY <1>2, <1>6
<1>8. QED
  BY <1>5, <1>6, <1>7 DEF life

\* For any clock and lifetime: a token is active until at most a second before
\* its lifetime is over, over restarts if the key is configured, and never past
\* it nor, with a key of its own for each start, past its server's life.
THEOREM TokensLiveAsPromised == Spec => []ActiveAsPromised
BY PromiseKept, IdentityInvariant, PTL

LEMMA CachesFollow == ASSUME IInv PROVE CachesAgree
<1>1. SUFFICES ASSUME up, now >= started + MaxAge * Grain, NEW v \in Verifiers,
                      NEW token \in tokens, Fresh(v)
               PROVE  Validates(v, token, Issuers, Clients) <=> Parses(token, key)
  BY DEF CachesAgree, handleIntrospect
<1>2. /\ keySet[v] # NoKeySet /\ keySet[v].at \in Nat /\ now \in Nat /\ started \in Nat
      /\ token.iss \in Issuers /\ token.aud \in Clients
  BY <1>1, IdentityAssumption DEF Fresh, IInv, TypeOK, KeySets, Token
<1>3. MaxAge * Grain \in Nat
  BY IdentityAssumption, SMT
<1>4. now - keySet[v].at < MaxAge * Grain
  BY <1>1 DEF Fresh
<1>5. keySet[v].at > started
  BY <1>1, <1>2, <1>3, <1>4
<1>6. keySet[v].key = key
  BY <1>2, <1>5 DEF IInv, KeySetsInv
<1>7. QED
  BY <1>1, <1>2, <1>6 DEF Validates

\* Once a server has run for as long as key sets are cached, every verifier
\* agrees with it on every token, however often it was started before.
THEOREM VerifiersAgree == Spec => []CachesAgree
BY CachesFollow, IdentityInvariant, PTL
=============================================================================
