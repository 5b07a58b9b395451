\* Several recipients, one of them with a negative amount.
CONSTANTS
    NoBatch = NoBatch
    NoHash = NoHash
    NoFrag = NoFrag
    NotANumber = NotANumber
    NoWallet = NoWallet
    SigLen <- MCSigLen
    IntMax = 7
    OutOfRange <- X86
    Sources <- FundedOnly
    Remainders <- RestOnly
    Recipients <- ToYouOnly
    Secrets <- MCSecrets
    Amounts <- SignedAmounts
    Metas <- MCMetas
    UnitLists <- DistinctUnits
    NewIds <- MCNewIds
    LooseAtoms <- None
    LateMetas <- None
    MaxAtoms = 5
    MaxCalls = 1
    Orders <- SameOrder
SPECIFICATION Spec
CHECK_DEADLOCK FALSE
INVARIANT RemainderIsRest
