\* Every builder with every pairing of wallets, one call, any later calls.
CONSTANTS
    NoBatch = NoBatch
    NoHash = NoHash
    NoFrag = NoFrag
    NotANumber = NotANumber
    NoWallet = NoWallet
    SigLen <- MCSigLen
    IntMax = 7
    OutOfRange <- X86
    Sources <- AllSources
    Remainders <- AllRemainders
    Recipients <- AllRecipients
    Secrets <- MCSecrets
    Amounts <- MCAmounts
    Metas <- MCMetas
    UnitLists <- DistinctUnits
    NewIds <- MCNewIds
    LooseAtoms <- None
    LateMetas <- None
    MaxAtoms = 5
    MaxCalls = 1
    Orders <- SameOrder
SPECIFICATION Spec
CHECK_DEADLOCK FALSE
INVARIANTS
    BuilderPassesCheck
    BuildersBalance
