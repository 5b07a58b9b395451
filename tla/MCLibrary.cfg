SPECIFICATION LibSpec

CONSTANTS
    Threads = {t1, t2}
    NoThread = NoThread
    Handles = {c1, c2, c3}
    NoHandle = NoHandle
    Limit = 1
    NoKey = NoKey
    NoWallet = NoWallet
    Rate = 3
    Bytes = {0, 1}
    MaxInput = 7
    MaxOutput = 7
    Missing = Missing
    Width = 4
    Top = 2
    ByteBase = 4
    Octets = 3
    Units = {1, 2, 3}
    MaxUnits = 3
    Clock = {0, 999, 1000, 1001, 2000, 2001}
    Bits = Bits
    Wrappers = {h1, h2, h3}
    Trees = {d1, d2}
    PolicyKeys = {"characters", "name"}
    Addresses = {"alice", "bob"}
    NotAList = NotAList
    NotAnObject = NotAnObject
    Alphabet = {"a", "b", " "}
    NUL = NUL
    Space = {" "}
    Upper <- UpperOf
    Default = 4
    MinGrowth = 2
    Alignment = 4
    PoolSizes = {6}
    PieceSizes = {1, 5, 12}
    MaxPieces = 3
    MaxHolders = 2
    SizeMax = 15
    Radix = 2
    SecretDigest = 100
    PositionDigest = 30
    Slugs <- SomeSlugs
    MaxDigits = 5
    Quarter = 2
    CodeBytes = {0, 5, 10, 15}
    MaxCodeBytes = 5
    Years = {0, 1, 4, 100, 399, 400, 1900, 1970, 1999, 2000, 2023, 2024}
    ErrorCodes <- SomeCodes
    Known <- KnownCodes
    ErrorTexts = {"m1"}
    Unauthenticated = {"Unauthenticated"}
    Numerals = {"7"}
    Garbage = Garbage
    Room = 4
    IvSize = 1
    TagSize = 1
    KemSize <- KemSizes
    Plaintexts <- SomePlaintexts
    WordMax = 15
    IntMax = 7
    MostBytes = 12
    SecretLength = 2
    AddressLengths = {2}
    MaxPosition = 2
    MaxToken = 2
    MaxPadding = 1
    ByteValues = 8
    MetaIds = {k1, k2}
    AtomIds = {a1, a2}
    FirstCapacity = 1
    MaxAtoms = 2
    ItemSize = 8
    ItemFrame = 4
    MetaLengths = {1, 2}
    KeptBundles = {"b1", "b2"}
    FirstPairs = 1
    MaxPairs = 3

INVARIANTS
    PoolIsSound
    KeysOpenTheirOwn
    HashIsOfTheMessage
    SignatureIsOfTheHash
    
    PartsAreSound
    
    
    MemoryIsSound
    

PROPERTIES SomeReturn 

CHECK_DEADLOCK FALSE
