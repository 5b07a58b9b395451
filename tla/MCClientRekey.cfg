\* One secret, two passphrases and a provider without one of its own.
CONSTANTS
    b1 = b1
    b2 = b2
    s1 = s1
    s2 = s2
    Bundles = {b1}
    SecretOf <- MCSecretOf
    Passphrases = {p1, p2}
    NoPass = NoPass
    NoBundle = NoBundle
    DefaultPass = NoPass
    SelectsWhileHolding = TRUE
    Missing = Missing
    Idle = Idle
SPECIFICATION Spec
INVARIANT RecordsAreAsked
PROPERTIES
    ResultDecidesSecret
