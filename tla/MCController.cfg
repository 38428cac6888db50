CONSTANTS
    alice = alice
    bystander = bystander
    root = root
    controller = controller
    registry = registry
    resolver = resolver
    nobody = nobody
    registrar = registrar
    rootNode = rootNode
    etn = etn
    name = name
    other = other
    Nodes <- MCNodes
    ROOT = rootNode
    Parent <- MCParent
    Addresses <- MCAddresses
    NoAddr = nobody
    REGISTRY = registry
    Senders = {alice}
    Targets = {alice, bystander}
    Resolvers = {nobody, resolver}
    TTLs = {0}
    NoTTL = 0
    InitialOwner <- MCInitialOwner
    InitialOperators = {}
    Delegations <- MCNoPairs
    ETN = etn
    REGISTRAR = registrar
    GRACE_PERIOD = 1
    Durations = {0, 1}
    InitialControllers = {controller}
    ManagedControllers = {}
    DirectControllers = {}
    TLDResolvers = {}
    TokenDelegations <- MCNoPairs
    Receivers = {alice, bystander, root}
    StartTime = 3
    MaxTime = 8
    MaxExpiry = 8
    CONTROLLER = controller
    Registrations <- MCRegistrations
    MinCommitmentAge = 1
    MaxCommitmentAge = 2
    MIN_REGISTRATION_DURATION = 1
    MaxDepth = 2
SPECIFICATION ControllerSpec
INVARIANT PendingCallsHold
PROPERTY SoldAsCommitted
PROPERTY NoCommitmentFromBefore
CHECK_DEADLOCK FALSE
