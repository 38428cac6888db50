CONSTANTS
    alice = alice
    bystander = bystander
    root = root
    controller = controller
    registry = registry
    resolver = resolver
    nobody = nobody
    registrar = registrar
    rootNode = rootNode
    etn = etn
    name = name
    Nodes <- MCNodes
    ROOT = rootNode
    Parent <- MCParent
    Addresses <- MCAddresses
    NoAddr = nobody
    REGISTRY = registry
    Senders <- MCSenders
    Targets <- MCTargets
    Resolvers <- MCResolvers
    TTLs = {0}
    NoTTL = 0
    InitialOwner <- MCInitialOwner
    InitialOperators <- MCNoPairs
    Delegations <- MCDelegations
    ETN = etn
    REGISTRAR = registrar
    GRACE_PERIOD = 1
    Durations = {0, 1, 2}
    InitialControllers = {controller}
    ManagedControllers = {controller}
    DirectControllers = {controller}
    TLDResolvers = {nobody}
    TokenDelegations <- MCTokenDelegations
    Receivers = {alice, bystander, root}
    StartTime = 2
    MaxTime = 7
    MaxExpiry = 6
SPECIFICATION RegistrarSpec
PROPERTY GraceFreezesToken
PROPERTY HolderKeepsToken
PROPERTY HolderKeepsRecord
PROPERTY ControlledFromAbove
