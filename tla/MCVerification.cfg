CONSTANTS
    tester = tester
    bob = bob
    root = root
    controller = controller
    static = static
    universal = universal
    wrapper = wrapper
    owner = owner
    registry = registry
    registrar = registrar
    resolver = resolver
    nobody = nobody
    rootNode = rootNode
    etn = etn
    verify1 = verify1
    verify2 = verify2
    noName = noName
    ownName = ownName
    Nodes <- MCNodes
    ROOT = rootNode
    Parent <- MCParent
    Addresses <- MCAddresses
    NoAddr = nobody
    REGISTRY = registry
    Senders = {tester, bob}
    Targets = {tester, bob}
    Resolvers = {nobody, resolver}
    TTLs = {0}
    NoTTL = 0
    InitialOwner <- MCInitialOwner
    InitialOperators = {}
    Delegations <- MCNoPairs
    ETN = etn
    REGISTRAR = registrar
    GRACE_PERIOD = 1
    Durations = {6}
    InitialControllers = {controller, wrapper}
    ManagedControllers = {}
    DirectControllers = {}
    TLDResolvers = {}
    TokenDelegations <- MCNoPairs
    Receivers = {tester, bob}
    StartTime = 3
    MaxTime = 5
    MaxExpiry = 23
    CONTROLLER = controller
    Registrations <- MCRegistrations
    MinCommitmentAge = 1
    MaxCommitmentAge = 2
    MIN_REGISTRATION_DURATION = 6
    MaxDepth = 1
    RentPrices <- MCRentPrices
    ORACLE_GRACE_PERIOD = 1
    InitialPremium = 0
    PremiumDecreaseRate = 1
    AnswerUnit = 2
    STATIC_RENEWAL = static
    UNIVERSAL_RENEWAL = universal
    WRAPPER = wrapper
    OWNER = owner
    Answers = {50, 51}
    Values = {408}
    RenewalBatches <- MCNoBatches
    Purse = 1228
    TESTER = tester
    Labels <- MCLabels
    RESOLVER = resolver
    NoName = noName
    OwnName = ownName
SPECIFICATION VerificationFairSpec
INVARIANT ChecksHold
INVARIANT DrillIsUndone
PROPERTY RunEnds
CHECK_DEADLOCK FALSE
