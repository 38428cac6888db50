CONSTANTS
    alice = alice
    bob = bob
    bystander = bystander
    root = root
    seller = seller
    registry = registry
    resolver = resolver
    nobody = nobody
    registrar = registrar
    wrapper = wrapper
    successor = successor
    rootNode = rootNode
    etn = etn
    name = name
    sub = sub
    ROOT = rootNode
    ETN = etn
    Parent <- MCParent
    Addresses <- MCAddresses
    NoAddr = nobody
    REGISTRY = registry
    REGISTRAR = registrar
    WRAPPER = wrapper
    InitialOwner <- MCInitialOwner
    InitialOperators <- WrapperApproved
    Receivers = {alice, bob, bystander, root}
    TLDResolvers = {}
    NoTTL = 0
    ManagedControllers = {}
    Nodes = {rootNode, etn, name}
    Senders = {alice, bob}
    Targets = {alice, bob, bystander, wrapper}
    Resolvers = {nobody, resolver}
    TTLs = {0}
    Delegations <- MCNoPairs
    GRACE_PERIOD = 1
    Durations = {0, 1}
    InitialControllers = {seller, wrapper}
    DirectControllers = {seller}
    TokenDelegations <- AliceAndBob
    StartTime = 2
    MaxTime = 6
    MaxExpiry = 6
    MAX_EXPIRY = 7
    OwnerFuseInputs <- OwnerWords2LD
    FuseInputs = {{}}
    ExpiryInputs = {5}
    Batches = {}
    WrapperDelegations <- AliceAndBob
    InitialWrapperControllers = {seller}
    ManagedWrapperControllers = {seller}
    UpgradeContracts = {nobody, successor}
SPECIFICATION Spec
INVARIANT RegistrationCoversToken
PROPERTY BystanderIsSafe
PROPERTY GraceFreezesName
CHECK_DEADLOCK FALSE
