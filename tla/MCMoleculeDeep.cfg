\* Any order of calls: several builders, late meta, re-signing, JSON, the limit.
CONSTANTS
    NoBatch = NoBatch
    NoHash = NoHash
    NoFrag = NoFrag
    NotANumber = NotANumber
    NoWallet = NoWallet
    SigLen <- MCSigLen
    IntMax = 7
    OutOfRange <- X86
    Sources <- DeepSources
    Remainders <- DeepRemainders
    Recipients <- DeepRecipients
    Secrets <- MCSecrets
    Amounts <- DeepAmounts
    Metas <- DeepMetas
    UnitLists <- DeepUnits
    NewIds <- DeepNewIds
    LooseAtoms <- DeepLoose
    LateMetas <- DeepLate
    MaxAtoms = 4
    MaxCalls = 2
    Orders <- DeepOrders
SPECIFICATION Spec
CHECK_DEADLOCK FALSE
INVARIANTS
    TypeOK
    IndexIsPlace
    SignedIsCurrent
    SignedIsWhole
    
    ReorderedIsRefused

    
