\* Two secrets; a bundle is selected only while none other is held.
CONSTANTS
    b1 = b1
    b2 = b2
    s1 = s1
    s2 = s2
    Bundles <- TwoBundles
    SecretOf <- MCSecretOf
    Passphrases = {p1}
    NoPass = NoPass
    NoBundle = NoBundle
    DefaultPass = p1
    SelectsWhileHolding = FALSE
    Missing = Missing
    Idle = Idle
SPECIFICATION Spec
INVARIANTS
    TypeOK
    EntrustedIsStored
    ClientIsInOrder
