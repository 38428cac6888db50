CONSTANTS
    alice = alice
    bob = bob
    root = root
    controller = controller
    static = static
    universal = universal
    wrapper = wrapper
    owner = owner
    registry = registry
    registrar = registrar
    nobody = nobody
    rootNode = rootNode
    etn = etn
    name = name
    other = other
    Nodes <- MCNodes
    ROOT = rootNode
    Parent <- MCParent
    Addresses <- MCAddresses
    NoAddr = nobody
    REGISTRY = registry
    Senders = {alice, bob}
    Targets = {alice, bob}
    Resolvers = {nobody}
    TTLs = {0}
    NoTTL = 0
    InitialOwner <- MCInitialOwner
    InitialOperators = {}
    Delegations <- MCNoPairs
    ETN = etn
    REGISTRAR = registrar
    GRACE_PERIOD = 1
    Durations = {0, 1}
    InitialControllers = {controller, wrapper}
    ManagedControllers = {}
    DirectControllers = {}
    TLDResolvers = {}
    TokenDelegations <- MCNoPairs
    Receivers = {alice, bob}
    StartTime = 3
    MaxTime = 6
    MaxExpiry = 6
    CONTROLLER = controller
    Registrations <- MCRegistrations
    MinCommitmentAge = 0
    MaxCommitmentAge = 1
    MIN_REGISTRATION_DURATION = 1
    MaxDepth = 1
    RentPrices <- MCRentPrices
    ORACLE_GRACE_PERIOD = 1
    InitialPremium = 3
    PremiumDecreaseRate = 2
    AnswerUnit = 2
    STATIC_RENEWAL = static
    UNIVERSAL_RENEWAL = universal
    WRAPPER = wrapper
    OWNER = owner
    Answers = {1, 2}
    Values = {2, 5}
    RenewalBatches <- MCBatches
    Purse = 5
SPECIFICATION MarketSpec
INVARIANT QuotesSuffice
INVARIANT PremiumFallsAsPromised
PROPERTY TimeIsPaidFor
CHECK_DEADLOCK FALSE
