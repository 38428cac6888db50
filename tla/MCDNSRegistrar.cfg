CONSTANTS
    admin = admin
    alice = alice
    bystander = bystander
    registry = registry
    rootContract = rootContract
    security = security
    registrar = registrar
    previous = previous
    resolver = resolver
    nobody = nobody
    rootNode = rootNode
    uk = uk
    couk = couk
    acme = acme
    Nodes <- MCNodes
    ROOT = rootNode
    Parent <- MCParent
    Addresses = {admin, alice, bystander, registry, rootContract, security, registrar, previous, nobody}
    NoAddr = nobody
    REGISTRY = registry
    Senders = {admin, alice}
    Targets = {alice}
    Resolvers = {nobody, resolver}
    TTLs = {0}
    NoTTL = 0
    InitialOwner <- MCInitialOwner
    InitialOperators = {}
    Delegations = {}
    ROOT_CONTRACT = rootContract
    SECURITY_CONTROLLER = security
    Admins = {admin, nobody}
    InitialAdmin = admin
    InitialRootControllers = {admin, registrar, security}
    ManagedRootControllers = {registrar}
    DNS_REGISTRAR = registrar
    PREVIOUS_REGISTRAR = previous
    DNS_RESOLVER = resolver
    SuffixLists = {{uk, couk}}
    InitialSuffixes = {couk}
    DNSNames = {acme, couk}
    TXTOwners = {alice, bystander}
    W = 4
    Validity = 1
    StartTime = 1
    MaxTime = 4
    MaxSigned = 2
SPECIFICATION Spec
PROPERTY NewestRecordWins
PROPERTY LockedStays
PROPERTY DNSOwnerDecides
CHECK_DEADLOCK FALSE
