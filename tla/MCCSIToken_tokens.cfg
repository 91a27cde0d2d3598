SPECIFICATION FairSpec
CONSTANTS
    Callers = {csi, k1}
    Controller = csi
    Buffer = 3
    Lifetimes <- MCLifetimes
    LifeSA = {4}
    LifeRPT = {5}
    LifeUser = {9}
    DefaultLife = 9
    MaxAge = 1
    MaxErrors = 1
    Refresh = 6
    ShortestLife = 9
    MaxRestarts = 1
INVARIANTS
    TypeOK
    CredentialsLive
    ReturnsLive
    SecretGapBounded
PROPERTIES
    SecretRecovers
