\* Two seconds of life for tokens and of cache for key sets, half-second ticks.
SPECIFICATION Spec
CONSTANTS
    Clients = {c1}
    Secrets <- OneSecret
    Offered = {right, wrong}
    Issuers = {home, away}
    Verifiers = {v1}
    NoKeySet = NoKeySet
    Grain = 2
    TTL = 2
    MaxAge = 2
    MaxTime = 9
    MaxLives = 3
    MaxTokens = 2
INVARIANTS
    TypeOK
    ActiveAsPromised
    CachesAgree
