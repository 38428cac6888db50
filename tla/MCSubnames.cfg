CONSTANTS
    alice = alice
    bob = bob
    bystander = bystander
    root = root
    seller = seller
    registry = registry
    resolver = resolver
    nobody = nobody
    registrar = registrar
    wrapper = wrapper
    successor = successor
    rootNode = rootNode
    etn = etn
    name = name
    sub = sub
    ROOT = rootNode
    ETN = etn
    Parent <- MCParent
    Addresses <- MCAddresses
    NoAddr = nobody
    REGISTRY = registry
    REGISTRAR = registrar
    WRAPPER = wrapper
    InitialOwner <- MCInitialOwner
    InitialOperators <- WrapperApproved
    Receivers = {alice, bob, bystander, root}
    TLDResolvers = {}
    NoTTL = 0
    ManagedControllers = {}
    Nodes = {rootNode, etn, name, sub}
    Senders = {alice}
    Targets = {alice, bystander, nobody, wrapper}
    Resolvers = {nobody}
    TTLs = {0}
    Delegations <- MCNoPairs
    GRACE_PERIOD = 1
    Durations = {0, 2}
    InitialControllers = {seller, wrapper}
    DirectControllers = {seller}
    TokenDelegations <- MCNoPairs
    StartTime = 2
    MaxTime = 6
    MaxExpiry = 7
    MAX_EXPIRY = 8
    OwnerFuseInputs <- OwnerWordsParent
    FuseInputs <- ParentWords
    ExpiryInputs = {4, 8}
    Batches <- WholeFamily
    WrapperDelegations <- MCNoPairs
    InitialWrapperControllers = {seller}
    ManagedWrapperControllers = {}
    UpgradeContracts = {}
SPECIFICATION Spec
INVARIANT WrapperInv
PROPERTY FusesStayBurned
PROPERTY BystanderIsSafe
PROPERTY LifecycleSpec
CHECK_DEADLOCK FALSE
