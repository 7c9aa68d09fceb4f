SPECIFICATION Spec
CONSTANTS
    Tokens <- MCTokens
    Requests = {r1, r2}
    PosTTL = 2
    NegTTL = 1
    MaxVerify = 1
    MaxViolations = 3
    ViolWindow = 2
    Grace = 2
PROPERTIES
    QuarantineClearsCache
