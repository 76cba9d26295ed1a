SPECIFICATION Spec
CONSTANTS
    a = a
    b = b
    Browsers = {a, b}
    Callers <- MCCallers
    p = p
    q = q
    Phones = {p, q}
    Typed <- MCTyped
    NoPhone = NoPhone
    NoToken = NoToken
    Keys <- MCCallers
    MaxAttempts = 1
    CodeTtl = 1
    TokenTtl = 1
    Margin = 0
    Hold = 1
    MaxCodes = 2
INVARIANTS
    RewardProved
    GuessesBounded
    LookedAtIsThere
