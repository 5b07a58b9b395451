SPECIFICATION Spec
CONSTANTS
    Users = {alice, bob}
    Nobody = Nobody
    MaxFresh = 5
INVARIANTS
    TypeOK
    NothingInTheClear
    
PROPERTIES
    LoginReachesValidator
    FailedLoginKeepsSession
    LoginEnds
