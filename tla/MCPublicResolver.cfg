CONSTANTS
    alice = alice
    bob = bob
    bystander = bystander
    root = root
    controller = controller
    registry = registry
    resolver = resolver
    reverse = reverse
    nobody = nobody
    registrar = registrar
    wrapper = wrapper
    rootNode = rootNode
    etn = etn
    name = name
    tld = tld
    empty = empty
    twentyBytes = twentyBytes
    oneByte = oneByte
    A = A
    TXT = TXT
    www = www
    zero = zero
    eth = eth
    bitcoin = bitcoin
    Nodes <- MCNodes
    ROOT = rootNode
    ETN = etn
    Parent <- MCParent
    Addresses <- MCAddresses
    NoAddr = nobody
    REGISTRY = registry
    REGISTRAR = registrar
    WRAPPER = wrapper
    CONTROLLER = controller
    RESOLVER = resolver
    Trusted = {controller, reverse}
    Senders = {alice}
    Writers = {alice, bob}
    Targets = {alice, bystander}
    Resolvers = {nobody, resolver}
    TTLs = {0}
    NoTTL = 0
    InitialOwner <- MCInitialOwner
    InitialOperators <- WrapperApproved
    Delegations <- NoPairs
    GRACE_PERIOD = 1
    Durations = {0, 1}
    InitialControllers = {controller}
    ManagedControllers = {}
    DirectControllers = {}
    TLDResolvers = {}
    TokenDelegations <- NoPairs
    Receivers = {alice, bystander, root}
    StartTime = 3
    MaxTime = 6
    MaxExpiry = 6
    Registrations <- MCRegistrations
    MinCommitmentAge = 1
    MaxCommitmentAge = 2
    MIN_REGISTRATION_DURATION = 1
    MaxDepth = 0
    MAX_EXPIRY = 7
    OwnerFuseInputs <- NoFuses
    FuseInputs = {}
    ExpiryInputs = {}
    Batches = {}
    WrapperDelegations <- NoPairs
    InitialWrapperControllers = {}
    ManagedWrapperControllers = {}
    UpgradeContracts = {}
    CoinTypes = {eth, bitcoin}
    EVMCoinTypes = {eth}
    TextKeys = {}
    DataKeys = {}
    ContentTypes = {}
    InterfaceIDs = {}
    Values = {empty, twentyBytes, oneByte}
    NoValue = empty
    AddressValues = {twentyBytes}
    RecordNodes = {name}
    WrittenKeys <- MCWrittenKeys
    RRLists <- MCRRLists
    DNSNames = {www}
    RRTypes = {A, TXT}
    ZeroType = zero
    Multicalls <- MCMulticalls
    ResolverDelegations <- AliceToBob
    Delegates = {bob}
    MaxVersion = 1
    MaxRecords = 2
SPECIFICATION ResolverSpec
INVARIANT EntriesCounted
INVARIANT SetsHoldTheirOwn
PROPERTY BystandersRecordsStay
PROPERTY NothingResurfaces
CHECK_DEADLOCK FALSE
