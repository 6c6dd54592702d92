\* Two ports, a window of one tick and a clock that outlives it twice.
SPECIFICATION Spec
CONSTANTS
    c1 = c1
    c2 = c2
    c3 = c3
    i1 = i1
    i2 = i2
    i3 = i3
    s1 = s1
    s2 = s2
    s3 = s3
    alice = alice
    bob = bob
    None = None
    Clients <- MCClients
    Ids <- MCIds
    Slugs <- MCSlugs
    Ports = {1, 2}
    Owners <- MCOwners
    OwnerOf <- MCOwnerOf
    SlugOf <- MCSlugOf
    ReclaimWindow = 1
    MaxTime = 3
INVARIANTS
    RegistryInv
    SlugReserved
PROPERTIES
    ParkedUntilReclaimedOrElapsed
    ImplementsLease
