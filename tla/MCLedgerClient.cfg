SPECIFICATION Spec
CONSTANTS
    Clients = {c1, c2}
    alice = alice
    bob = bob
    Bundles = {alice, bob}
    BundleOf <- DevicesOfAlice
    Amounts = {2}
    MaxMolecules = 2
    None = None
    Fixed = Fixed
INVARIANTS
    TypeOK
    
PROPERTIES
    
    ImplementsIdealLedger
SYMMETRY AnyDevice
CHECK_DEADLOCK FALSE
