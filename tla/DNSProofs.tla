------------------------------- MODULE DNSProofs -------------------------------
(***************************************************************************)
(* The promises of DNSRegistrarProperties for every name tree, every set   *)
(* of accounts, any number of signed records and any width of the serial   *)
(* numbers that is more than twice the validity of a signature.            *)
(***************************************************************************)
EXTENDS DNSRegistrarProperties, TLAPS

\* The clock makes less than one turn, and what is signed is of the past.
SignedInThePast ==
    /\ now \in Nat /\ StartTime <= now /\ now < StartTime + W
    /\ \A txt \in signed :
        /\ txt \in TXTRecord
        /\ txt.inception \in StartTime .. now
        /\ txt.expiration = txt.inception + Validity

\* The contract remembers the serial number of the claim it has seen last.
ClaimsRemembered ==
    /\ inceptions \in [Nodes -> Int]
    /\ DOMAIN claims = Nodes
    /\ \A n \in Nodes :
        \/ claims[n] = NoRecord
        \/ claims[n] \in signed /\ inceptions[n] = Serial(claims[n].inception)

\* The root never leaves Root, which approves no operator, as no contract does.
RootIsHeld ==
    /\ records[ROOT].owner = ROOT_CONTRACT
    /\ operators \subseteq Senders \X Addresses
    /\ locked \subseteq TLDs

DNSInv == RegistryTypeOK /\ SignedInThePast /\ ClaimsRemembered /\ RootIsHeld

-----------------------------------------------------------------------------
(***************************************************************************)
(* The types of the registry below                                         *)
(***************************************************************************)
\* The writes of the registry keep a well-formed record table well-formed.
LEMMA RecordWrites ==
    ASSUME NEW recs \in [Nodes -> Record], NEW n \in Nodes, NEW owner \in Addresses,
           NEW resolver \in Resolvers, NEW ttl \in TTLs
    PROVE  /\ WithOwner(recs, n, owner) \in [Nodes -> Record]
           /\ WithResolver(recs, n, resolver) \in [Nodes -> Record]
           /\ WithTTL(recs, n, ttl) \in [Nodes -> Record]
           /\ WithRecord(recs, n, owner, resolver, ttl) \in [Nodes -> Record]
  BY DEF WithOwner, WithResolver, WithTTL, WithRecord, Record

\* Every transaction sent to the registry keeps its types.
LEMMA RegistryTypeStep ==
    ASSUME RegistryTypeOK, RegistryNext
    PROVE  RegistryTypeOK'
<1> USE RegistryAssumption DEF RegistryTypeOK
<1> PICK sender \in Senders :
        \/ \E n \in Nodes, owner \in Targets :
            \/ SetOwner(sender, n, owner)
            \/ SetSubnodeOwner(sender, n, owner)
        \/ \E n \in Nodes, owner \in Targets, resolver \in Resolvers, ttl \in TTLs :
            \/ SetRecord(sender, n, owner, resolver, ttl)
            \/ SetSubnodeRecord(sender, n, owner, resolver, ttl)
        \/ \E n \in Nodes, resolver \in Resolvers : SetResolver(sender, n, resolver)
        \/ \E n \in Nodes, ttl \in TTLs : SetTTL(sender, n, ttl)
        \/ \E operator \in Addresses, approved \in BOOLEAN :
            SetApprovalForAll(sender, operator, approved)
  BY DEF RegistryNext
<1>1. ASSUME NEW n \in Nodes, NEW owner \in Targets,
             SetOwner(sender, n, owner) \/ SetSubnodeOwner(sender, n, owner)
      PROVE  RegistryTypeOK'
  BY <1>1, RecordWrites DEF SetOwner, SetSubnodeOwner
<1>2. ASSUME NEW n \in Nodes, NEW owner \in Targets, NEW resolver \in Resolvers,
             NEW ttl \in TTLs,
             \/ SetRecord(sender, n, owner, resolver, ttl)
             \/ SetSubnodeRecord(sender, n, owner, resolver, ttl)
      PROVE  RegistryTypeOK'
  <2>1. records' = WithRecord(records, n, owner, resolver, ttl) /\ UNCHANGED operators
    BY <1>2 DEF SetRecord, SetSubnodeRecord
  <2> QED
    BY <2>1, RecordWrites
<1>3. ASSUME NEW n \in Nodes, NEW resolver \in Resolvers, SetResolver(sender, n, resolver)
      PROVE  RegistryTypeOK'
  BY <1>3, RecordWrites DEF SetResolver
<1>4. ASSUME NEW n \in Nodes, NEW ttl \in TTLs, SetTTL(sender, n, ttl)
      PROVE  RegistryTypeOK'
  BY <1>4, RecordWrites DEF SetTTL
<1>5. ASSUME NEW operator \in Addresses, NEW approved \in BOOLEAN,
             SetApprovalForAll(sender, operator, approved)
      PROVE  RegistryTypeOK'
  BY <1>5 DEF SetApprovalForAll
<1> QED
  BY <1>1, <1>2, <1>3, <1>4, <1>5

-----------------------------------------------------------------------------
(***************************************************************************)
(* Serial arithmetic                                                       *)
(***************************************************************************)
LEMMA Division ==
    ASSUME NEW M \in Nat \ {0}, NEW x \in Int
    PROVE  (x % M) \in 0 .. (M - 1) /\ \E q \in Int : x = (M * q) + (x % M)
<1>1. (x % M) \in 0 .. (M - 1)
  BY SMT
<1>2. x \div M \in Int /\ x = (M * (x \div M)) + (x % M)
  BY SMT
<1> QED
  BY <1>1, <1>2

LEMMA Remainder ==
    ASSUME NEW M \in Nat \ {0}, NEW q \in Int, NEW r \in 0 .. (M - 1)
    PROVE  ((M * q) + r) % M = r
  BY SMT

LEMMA Linear ==
    ASSUME NEW M \in Nat, NEW p \in Int, NEW q \in Int, NEW r \in Int, NEW s \in Int
    PROVE  /\ ((M * p) + r) - ((M * q) + s) = (M * (p - q)) + (r - s)
           /\ (M * p) + ((M * q) + r) = (M * (p + q)) + r
  BY SMT

\* A difference of serial numbers is the serial number of the difference.
LEMMA SerialDifference ==
    ASSUME NEW M \in Nat \ {0}, NEW x \in Int, NEW y \in Int
    PROVE  ((x % M) - (y % M)) % M = (x - y) % M
<1> PICK p \in Int : x = (M * p) + (x % M)
  BY Division
<1> PICK q \in Int : y = (M * q) + (y % M)
  BY Division
<1> DEFINE r == x % M
           s == y % M
           d == r - s
<1>1. r \in Int /\ s \in Int /\ d \in Int
  BY Division
<1>2. x = (M * p) + r /\ y = (M * q) + s
  OBVIOUS
<1> HIDE DEF r, s
<1>3. x - y = (M * (p - q)) + d
  BY <1>1, <1>2, Linear
<1>4. PICK k \in Int : d = (M * k) + (d % M)
  BY <1>1, Division
<1>5. d % M \in 0 .. (M - 1)
  BY <1>1, Division
<1>6. p - q \in Int /\ d % M \in Int /\ (p - q) + k \in Int
  BY <1>5
<1>7. x - y = (M * ((p - q) + k)) + (d % M)
  BY <1>3, <1>4, <1>6, Linear
<1>8. (x - y) % M = d % M
  BY <1>5, <1>6, <1>7, Remainder
<1> QED
  BY <1>8 DEF r, s

\* Less than one turn apart, the comparison only fails to see a distance of half a turn.
LEMMA SerialOrder ==
    ASSUME NEW M \in Nat \ {0}, NEW d \in (1 - M) .. (M - 1), d % M < M \div 2
    PROVE  d >= 0 \/ 2 * (M + d) < M
<1>1. CASE d >= 0
  BY <1>1
<1>2. CASE d < 0
  <2>1. M + d \in 0 .. (M - 1) /\ d = (M * (-1)) + (M + d)
    BY <1>2, SMT
  <2>2. d % M = M + d
    BY <2>1, Remainder
  <2>3. M + d < M \div 2
    BY <2>2
  <2> QED
    BY <2>3, SMT
<1> QED
  BY <1>1, <1>2

-----------------------------------------------------------------------------
(***************************************************************************)
(* What each part of the system leaves alone                               *)
(***************************************************************************)
\* A node is its owner's, its owner's operators' and its parent's.
LEMMA AccountsLeave ==
    ASSUME DNSInv, RegistryNext, NEW n \in Nodes, records[n].owner \notin Senders,
           n # ROOT => records[Parent[n]].owner \notin Senders
    PROVE  records'[n] = records[n]
<1> USE RegistryAssumption DEF DNSInv, RootIsHeld, RegistryTypeOK
<1> PICK sender \in Senders :
        \/ \E m \in Nodes, owner \in Targets :
            \/ SetOwner(sender, m, owner)
            \/ SetSubnodeOwner(sender, m, owner)
        \/ \E m \in Nodes, owner \in Targets, resolver \in Resolvers, ttl \in TTLs :
            \/ SetRecord(sender, m, owner, resolver, ttl)
            \/ SetSubnodeRecord(sender, m, owner, resolver, ttl)
        \/ \E m \in Nodes, resolver \in Resolvers : SetResolver(sender, m, resolver)
        \/ \E m \in Nodes, ttl \in TTLs : SetTTL(sender, m, ttl)
        \/ \E operator \in Addresses, approved \in BOOLEAN :
            SetApprovalForAll(sender, operator, approved)
  BY DEF RegistryNext
<1>1. ~Authorised(n, sender)
  BY DEF Authorised
<1>2. n # ROOT => ~Authorised(Parent[n], sender)
  BY DEF Authorised
<1>3. ASSUME NEW m \in Nodes, NEW owner \in Targets,
             SetOwner(sender, m, owner) \/ SetSubnodeOwner(sender, m, owner)
      PROVE  records'[n] = records[n]
  BY <1>1, <1>2, <1>3 DEF SetOwner, SetSubnodeOwner, WithOwner
<1>4. ASSUME NEW m \in Nodes, NEW owner \in Targets, NEW resolver \in Resolvers,
             NEW ttl \in TTLs,
             \/ SetRecord(sender, m, owner, resolver, ttl)
             \/ SetSubnodeRecord(sender, m, owner, resolver, ttl)
      PROVE  records'[n] = records[n]
  BY <1>1, <1>2, <1>4 DEF SetRecord, SetSubnodeRecord, WithRecord
<1>5. ASSUME NEW m \in Nodes, NEW resolver \in Resolvers, SetResolver(sender, m, resolver)
      PROVE  records'[n] = records[n]
  BY <1>1, <1>5 DEF SetResolver, WithResolver
<1>6. ASSUME NEW m \in Nodes, NEW ttl \in TTLs, SetTTL(sender, m, ttl)
      PROVE  records'[n] = records[n]
  BY <1>1, <1>6 DEF SetTTL, WithTTL
<1>7. ASSUME NEW operator \in Addresses, NEW approved \in BOOLEAN,
             SetApprovalForAll(sender, operator, approved)
      PROVE  records'[n] = records[n]
  BY <1>7 DEF SetApprovalForAll
<1> QED
  BY <1>3, <1>4, <1>5, <1>6, <1>7

\* Approvals are given by accounts only.
LEMMA OperatorsStep ==
    ASSUME operators \subseteq Senders \X Addresses, RegistryNext
    PROVE  operators' \subseteq Senders \X Addresses
  BY RegistryAssumption DEF RegistryNext, SetOwner, SetSubnodeOwner, SetRecord,
     SetSubnodeRecord, SetResolver, SetTTL, SetApprovalForAll

\* Root writes unlocked top-level domains, and the resolver of the root.
LEMMA RootLeaves ==
    ASSUME DNSInv, RootNext
    PROVE  /\ RegistryTypeOK' /\ operators' = operators
           /\ locked \subseteq locked' /\ locked' \subseteq TLDs
           /\ records'[ROOT].owner = records[ROOT].owner
           /\ \A n \in Nodes \ {ROOT} : n \in locked \/ n \notin TLDs => records'[n] = records[n]
<1> USE RegistryAssumption, RootAssumption DEF DNSInv, RootIsHeld, RegistryTypeOK
<1> DEFINE Left == /\ RegistryTypeOK' /\ operators' = operators
                   /\ locked \subseteq locked' /\ locked' \subseteq TLDs
                   /\ records'[ROOT].owner = records[ROOT].owner
                   /\ \A n \in Nodes \ {ROOT} :
                        n \in locked \/ n \notin TLDs => records'[n] = records[n]
<1> PICK sender \in Senders :
        \/ \E tld \in TLDs :
            \/ \E owner \in Targets : RootSetSubnodeOwner(sender, tld, owner)
            \/ Lock(sender, tld)
            \/ DisableTLD(sender, tld)
        \/ \E resolver \in Resolvers : SetRootResolver(sender, resolver)
        \/ \E controller \in ManagedRootControllers, enabled \in BOOLEAN :
            SetRootController(sender, controller, enabled)
        \/ \E to \in Admins : TransferRoot(sender, to) \/ TransferSecurity(sender, to)
  BY DEF RootNext
<1>1. ASSUME NEW tld \in TLDs, NEW owner \in Targets, RootSetSubnodeOwner(sender, tld, owner)
      PROVE  Left
  <2>1. tld \in Nodes \ {ROOT} /\ tld \notin locked
    BY <1>1 DEF RootSetSubnodeOwner, RootGrants, TLDs
  <2>2. RegistryTypeOK'
    BY <1>1, <2>1, RecordWrites DEF RootSetSubnodeOwner
  <2> QED
    BY <1>1, <2>1, <2>2 DEF RootSetSubnodeOwner, WithOwner, rootVars
<1>2. ASSUME NEW tld \in TLDs, Lock(sender, tld)
      PROVE  Left
  BY <1>2 DEF Lock, registryVars
<1>3. ASSUME NEW tld \in TLDs, DisableTLD(sender, tld)
      PROVE  Left
  <2>1. tld \in Nodes \ {ROOT} /\ tld \notin locked
    BY <1>3 DEF DisableTLD, RootGrants, TLDs
  <2> DEFINE owned == WithOwner(records, tld, SECURITY_CONTROLLER)
  <2>2. owned \in [Nodes -> Record]
    BY <2>1, RecordWrites
  <2>3. \A n \in Nodes \ {tld} : owned[n] = records[n]
    BY <2>1 DEF WithOwner
  <2>4. records' = WithResolver(owned, tld, NoAddr) /\ UNCHANGED <<operators, rootVars>>
    BY <1>3 DEF DisableTLD
  <2> HIDE DEF owned
  <2>5. RegistryTypeOK'
    BY <2>1, <2>2, <2>4, RecordWrites
  <2>6. \A n \in Nodes \ {tld} : records'[n] = records[n]
    BY <2>1, <2>2, <2>3, <2>4 DEF WithResolver
  <2> QED
    BY <2>1, <2>4, <2>5, <2>6 DEF rootVars
<1>4. ASSUME NEW resolver \in Resolvers, SetRootResolver(sender, resolver)
      PROVE  Left
  <2>1. RegistryTypeOK'
    BY <1>4, RecordWrites DEF SetRootResolver
  <2>2. \A n \in Nodes \ {ROOT} : records'[n] = records[n]
    BY <1>4 DEF SetRootResolver, WithResolver
  <2>3. records'[ROOT].owner = records[ROOT].owner
    BY <1>4 DEF SetRootResolver, WithResolver, Record
  <2> QED
    BY <1>4, <2>1, <2>2, <2>3 DEF SetRootResolver, rootVars
<1>5. ASSUME NEW controller \in ManagedRootControllers, NEW enabled \in BOOLEAN,
             SetRootController(sender, controller, enabled)
      PROVE  Left
  BY <1>5 DEF SetRootController, registryVars
<1>6. ASSUME NEW to \in Admins, TransferRoot(sender, to) \/ TransferSecurity(sender, to)
      PROVE  Left
  BY <1>6 DEF TransferRoot, TransferSecurity, registryVars
<1> QED
  BY <1>1, <1>2, <1>3, <1>4, <1>5, <1>6

\* Enabling takes nodes of nobody and of the previous registrar, and no locked one.
LEMMA EnablingLeaves ==
    ASSUME DNSInv, NEW domain, CanEnable(domain)
    PROVE  /\ Enabled(domain) \in [Nodes -> Record]
           /\ \A n \in Nodes : n = ROOT \/ n \in locked \/ ~TakesOver(n)
                                => Enabled(domain)[n] = records[n]
<1> USE RegistryAssumption, RootAssumption, DNSAssumption DEF DNSInv, RootIsHeld, RegistryTypeOK
<1>1. Enabled(domain) \in [Nodes -> Record]
  BY DEF Enabled, Record
<1>2. ~TakesOver(ROOT)
  BY DEF TakesOver, Owner
<1>3. ASSUME NEW n \in locked, n \in Domain(domain)
      PROVE  ~TakesOver(n)
  <2>1. n \in TLDs /\ ~RootGrants(DNS_REGISTRAR, n)
    BY <1>3 DEF RootGrants
  <2>2. Owner(n) = DNS_REGISTRAR
    BY <1>3, <2>1 DEF CanEnable
  <2> QED
    BY <2>2 DEF TakesOver
<1> QED
  BY <1>1, <1>2, <1>3 DEF Enabled

\* A claim writes the name, beyond what enabling its parent writes.
LEMMA ClaimWrites ==
    ASSUME DNSInv, NEW txt \in signed,
           \/ ProveAndClaim(txt)
           \/ \E sender \in Senders, resolver \in Resolvers, setsAddr \in BOOLEAN :
                ProveAndClaimWithResolver(sender, txt, resolver, setsAddr)
    PROVE  /\ Claim(txt)
           /\ txt.name \in DNSNames /\ txt.name \in Nodes \ ({ROOT} \union TLDs)
           /\ RegistryTypeOK'
           /\ records'[txt.name].owner = txt.owner
           /\ \/ txt.owner \in Senders
              \/ records'[txt.name] = [Enabled(Parent[txt.name])[txt.name] EXCEPT !.owner = txt.owner]
           /\ \A n \in Nodes \ {txt.name} : records'[n] = Enabled(Parent[txt.name])[n]
<1> USE RegistryAssumption, DNSAssumption DEF RegistryTypeOK
<1> DEFINE base == Enabled(Parent[txt.name])
<1>1. /\ txt.name \in DNSNames /\ txt.name \in Nodes \ ({ROOT} \union TLDs)
      /\ txt.owner \in Addresses
  BY DEF DNSInv, SignedInThePast, TXTRecord
<1>2. Claim(txt) /\ UNCHANGED operators /\ CanEnable(Parent[txt.name])
  BY DEF ProveAndClaim, ProveAndClaimWithResolver, Claim
<1>3. base \in [Nodes -> Record]
  BY <1>2, EnablingLeaves
<1>4. CASE ProveAndClaim(txt)
  <2>1. records' = WithOwner(base, txt.name, txt.owner)
    BY <1>4 DEF ProveAndClaim
  <2> HIDE DEF base
  <2>2. RegistryTypeOK'
    BY <1>1, <1>2, <1>3, <2>1, NoAddr \in Resolvers, NoTTL \in TTLs, RecordWrites DEF DNSInv
  <2>3. /\ records'[txt.name] = [base[txt.name] EXCEPT !.owner = txt.owner]
        /\ records'[txt.name].owner = txt.owner
        /\ \A n \in Nodes \ {txt.name} : records'[n] = base[n]
    BY <1>1, <1>3, <2>1 DEF WithOwner, Record
  <2> QED
    BY <1>1, <1>2, <2>2, <2>3 DEF base
<1>5. ASSUME NEW sender \in Senders, NEW resolver \in Resolvers, NEW setsAddr \in BOOLEAN,
             ProveAndClaimWithResolver(sender, txt, resolver, setsAddr)
      PROVE  /\ RegistryTypeOK'
             /\ records'[txt.name].owner = txt.owner /\ txt.owner \in Senders
             /\ \A n \in Nodes \ {txt.name} : records'[n] = base[n]
  <2>1. /\ records' = WithRecord(base, txt.name, txt.owner, resolver, NoTTL)
        /\ txt.owner = sender
    BY <1>5 DEF ProveAndClaimWithResolver, IsClaimant
  <2> HIDE DEF base
  <2>2. RegistryTypeOK'
    BY <1>1, <1>2, <1>3, <2>1, RecordWrites DEF DNSInv
  <2>3. /\ records'[txt.name].owner = txt.owner
        /\ \A n \in Nodes \ {txt.name} : records'[n] = base[n]
    BY <1>1, <1>3, <2>1 DEF WithRecord
  <2> QED
    BY <2>1, <2>2, <2>3
<1> QED
  BY <1>1, <1>2, <1>4, <1>5

\* A record claimed after another one was signed no earlier.
LEMMA ClaimIsNewer ==
    ASSUME DNSInv, NEW txt \in signed, Claim(txt)
    PROVE  txt.inception >= claims[txt.name].inception
<1> DEFINE i == txt.inception
           c == claims[txt.name].inception
<1>1. /\ txt.name \in Nodes /\ i \in StartTime .. now /\ txt.expiration = i + Validity
  BY DNSAssumption DEF DNSInv, SignedInThePast, TXTRecord
<1>2. CASE claims[txt.name] = NoRecord
  BY <1>1, <1>2, DNSAssumption DEF NoRecord
<1>3. CASE claims[txt.name] \in signed /\ inceptions[txt.name] = Serial(c)
  <2>1. /\ W \in Nat \ {0} /\ Validity \in Nat /\ 2 * Validity < W /\ StartTime \in Nat
        /\ now \in Nat /\ now < StartTime + W
    BY DNSAssumption DEF DNSInv, SignedInThePast
  <2>2. c \in StartTime .. now
    BY <1>3 DEF DNSInv, SignedInThePast
  <2>3. (i - c) % W < W \div 2
    <3>1. i \in Int /\ c \in Int
      BY <1>1, <2>1, <2>2
    <3>2. ((i % W) - (c % W)) % W = (i - c) % W
      BY <2>1, <3>1, SerialDifference
    <3>3. ((i % W) - (c % W)) % W < W \div 2
      BY <1>3 DEF Claim, IsFresh, SerialGte, Serial
    <3> QED
      BY <3>2, <3>3
  <2>4. (now - i) % W < W \div 2
    <3>1. now \in Int /\ i \in Int
      BY <1>1, <2>1, <2>2
    <3>2. ((now % W) - (i % W)) % W = (now - i) % W
      BY <2>1, <3>1, SerialDifference
    <3>3. ((now % W) - (i % W)) % W < W \div 2
      BY DEF Claim, Verifies, SerialGte, Serial
    <3> QED
      BY <3>2, <3>3
  <2>5. ((i + Validity) - now) % W < W \div 2
    <3>1. i + Validity \in Int /\ now \in Int
      BY <1>1, <2>1, <2>2
    <3>2. (((i + Validity) % W) - (now % W)) % W = ((i + Validity) - now) % W
      BY <2>1, <3>1, SerialDifference
    <3>3. (((i + Validity) % W) - (now % W)) % W < W \div 2
      BY <1>1 DEF Claim, Verifies, SerialGte, Serial
    <3> QED
      BY <3>2, <3>3
  <2> HIDE DEF i, c
  <2>6. i \in StartTime .. now
    BY <1>1 DEF i
  <2>7. 2 * (now - i) < W
    <3>1. now - i \in 0 .. (W - 1) /\ now - i = (W * 0) + (now - i)
      BY <2>1, <2>6
    <3>2. (now - i) % W = now - i
      BY <2>1, <3>1, Remainder
    <3> QED
      BY <2>1, <2>4, <3>1, <3>2, SMT
  <2>8. now - i <= Validity
    <3>1. ((i + Validity) - now) \in (1 - W) .. (W - 1)
      BY <2>1, <2>6, <2>7
    <3>2. ((i + Validity) - now) >= 0 \/ 2 * (W + ((i + Validity) - now)) < W
      BY <2>1, <2>5, <3>1, SerialOrder
    <3> QED
      BY <2>1, <2>6, <2>7, <3>2
  <2>9. i - c \in (1 - W) .. (W - 1)
    BY <2>1, <2>2, <2>6
  <2>10. i - c >= 0 \/ 2 * (W + (i - c)) < W
    BY <2>1, <2>3, <2>9, SerialOrder
  <2>11. i >= c
    BY <2>1, <2>2, <2>6, <2>8, <2>10
  <2> QED
    BY <2>11 DEF i, c
<1> QED
  BY <1>1, <1>2, <1>3 DEF DNSInv, ClaimsRemembered

-----------------------------------------------------------------------------
(***************************************************************************)
(* The invariant                                                           *)
(***************************************************************************)
LEMMA DNSInit == Init => DNSInv
<1> SUFFICES ASSUME Init PROVE DNSInv
  OBVIOUS
<1> USE RegistryAssumption, RootAssumption, DNSAssumption DEF Init
<1>1. RegistryTypeOK
  BY DEF RegistryInit, RegistryTypeOK, Record
<1>2. SignedInThePast
  BY DEF SignedInThePast
<1>3. ClaimsRemembered
  BY DEF ClaimsRemembered
<1>4. RootIsHeld
  BY DEF RegistryInit, RootInit, RootIsHeld
<1> QED
  BY <1>1, <1>2, <1>3, <1>4 DEF DNSInv

\* The clock, the DNS and the claims.
LEMMA TimeStep ==
    ASSUME DNSInv, DNSNext
    PROVE  SignedInThePast' /\ ClaimsRemembered'
<1> USE DNSAssumption DEF DNSInv, SignedInThePast
<1>1. ASSUME NEW name \in DNSNames, NEW owner \in TXTOwners, Sign(name, owner)
      PROVE  SignedInThePast' /\ ClaimsRemembered'
  <2> DEFINE txt == [name |-> name, owner |-> owner,
                     inception |-> now, expiration |-> now + Validity]
  <2>1. signed' = signed \union {txt} /\ now' = now /\ UNCHANGED dnsVars
    BY <1>1 DEF Sign
  <2>2. /\ txt \in TXTRecord /\ txt.inception \in StartTime .. now
        /\ txt.expiration = txt.inception + Validity
    BY DEF TXTRecord
  <2> HIDE DEF txt
  <2>3. SignedInThePast'
    BY <2>1, <2>2
  <2>4. ClaimsRemembered'
    BY <2>1 DEF ClaimsRemembered, dnsVars
  <2> QED
    BY <2>3, <2>4
<1>2. CASE Tick
  BY <1>2 DEF Tick, ClaimsRemembered, dnsVars
<1>3. ASSUME NEW domain \in suffixes, EnableNode(domain)
      PROVE  SignedInThePast' /\ ClaimsRemembered'
  BY <1>3 DEF EnableNode, ClaimsRemembered, dnsVars
<1>4. ASSUME NEW sender \in Senders, NEW list \in SuffixLists, SetPublicSuffixList(sender, list)
      PROVE  SignedInThePast' /\ ClaimsRemembered'
  BY <1>4 DEF SetPublicSuffixList, ClaimsRemembered
<1>5. ASSUME NEW txt \in signed, Claim(txt)
      PROVE  SignedInThePast' /\ ClaimsRemembered'
  <2>1. txt.name \in Nodes /\ Serial(txt.inception) \in Int
    BY Division DEF TXTRecord, Serial
  <2>2. UNCHANGED <<now, signed>>
        /\ inceptions' = [inceptions EXCEPT ![txt.name] = Serial(txt.inception)]
        /\ claims' = [claims EXCEPT ![txt.name] = txt]
    BY <1>5 DEF Claim
  <2>3. inceptions' \in [Nodes -> Int] /\ DOMAIN claims' = Nodes
    BY <2>1, <2>2 DEF ClaimsRemembered
  <2>4. claims'[txt.name] = txt /\ inceptions'[txt.name] = Serial(txt.inception)
    BY <2>1, <2>2 DEF ClaimsRemembered
  <2>5. \A n \in Nodes \ {txt.name} : claims'[n] = claims[n] /\ inceptions'[n] = inceptions[n]
    BY <2>2 DEF ClaimsRemembered
  <2>6. ClaimsRemembered'
    BY <2>1, <2>2, <2>3, <2>4, <2>5 DEF ClaimsRemembered, Serial
  <2> QED
    BY <2>2, <2>6
<1> QED
  BY <1>1, <1>2, <1>3, <1>4, <1>5 DEF DNSNext, ProveAndClaim, ProveAndClaimWithResolver

\* The registry and Root under the registrar's own steps.
LEMMA RegistrarStep ==
    ASSUME DNSInv, DNSNext
    PROVE  RegistryTypeOK' /\ RootIsHeld' /\ locked' = locked
<1> USE RegistryAssumption, DNSAssumption DEF RegistryTypeOK, RootIsHeld
<1>1. ASSUME UNCHANGED <<registryVars, rootVars>>
      PROVE  RegistryTypeOK' /\ RootIsHeld' /\ locked' = locked
  BY <1>1 DEF registryVars, rootVars, DNSInv
<1>2. ASSUME NEW domain \in suffixes, EnableNode(domain)
      PROVE  RegistryTypeOK' /\ RootIsHeld' /\ locked' = locked
  <2>1. records' = Enabled(domain) /\ UNCHANGED <<operators, locked>> /\ CanEnable(domain)
    BY <1>2 DEF EnableNode, rootVars
  <2> QED
    BY <2>1, EnablingLeaves DEF DNSInv
<1>3. ASSUME NEW txt \in signed,
             \/ ProveAndClaim(txt)
             \/ \E sender \in Senders, resolver \in Resolvers, setsAddr \in BOOLEAN :
                  ProveAndClaimWithResolver(sender, txt, resolver, setsAddr)
      PROVE  RegistryTypeOK' /\ RootIsHeld' /\ locked' = locked
  <2>1. RegistryTypeOK' /\ Claim(txt) /\ records'[ROOT] = Enabled(Parent[txt.name])[ROOT]
    BY <1>3, ClaimWrites
  <2>2. CanEnable(Parent[txt.name]) /\ UNCHANGED <<operators, locked>>
    BY <2>1 DEF Claim, rootVars
  <2>3. records'[ROOT] = records[ROOT]
    BY <2>1, <2>2, EnablingLeaves
  <2> QED
    BY <2>1, <2>2, <2>3 DEF DNSInv
<1> QED
  BY <1>1, <1>2, <1>3 DEF DNSNext, Sign, Tick, SetPublicSuffixList

LEMMA DNSInvStep == DNSInv /\ [Next]_vars => DNSInv'
<1> SUFFICES ASSUME DNSInv, [Next]_vars PROVE DNSInv'
  OBVIOUS
<1>1. ASSUME UNCHANGED <<now, signed, inceptions, claims>>
      PROVE  SignedInThePast' /\ ClaimsRemembered'
  BY <1>1 DEF DNSInv, SignedInThePast, ClaimsRemembered
<1>2. CASE RegistryNext /\ UNCHANGED <<rootVars, dnsVars, now, signed>>
  <2>1. RegistryTypeOK'
    BY <1>2, RegistryTypeStep DEF DNSInv
  <2>2. records'[ROOT] = records[ROOT]
    BY <1>2, AccountsLeave, RegistryAssumption, RootAssumption DEF DNSInv, RootIsHeld
  <2>3. operators' \subseteq Senders \X Addresses
    BY <1>2, OperatorsStep DEF DNSInv, RootIsHeld
  <2> QED
    BY <1>1, <1>2, <2>1, <2>2, <2>3 DEF DNSInv, RootIsHeld, rootVars, dnsVars
<1>3. CASE RootNext /\ UNCHANGED <<dnsVars, now, signed>>
  BY <1>1, <1>3, RootLeaves DEF DNSInv, RootIsHeld, dnsVars
<1>4. CASE DNSNext
  BY <1>4, TimeStep, RegistrarStep DEF DNSInv
<1>5. CASE UNCHANGED vars
  BY <1>1, <1>5 DEF vars, registryVars, rootVars, dnsVars, DNSInv, RegistryTypeOK, RootIsHeld
<1> QED
  BY <1>2, <1>3, <1>4, <1>5 DEF Next

\* Root keeps the root of the name tree, the clock and the claims are as the
\* contract remembers them, and the record tables are well-formed.
THEOREM DNSInvariant == Spec => []DNSInv
<1> QED
  BY DNSInit, DNSInvStep, PTL DEF Spec

-----------------------------------------------------------------------------
(***************************************************************************)
(* The promises                                                            *)
(***************************************************************************)
\* Of two records a name is claimed with, the second was signed no earlier
\* (_claim, serialNumberGte).
THEOREM NewestWins == Spec => NewestRecordWins
<1>1. ASSUME DNSInv, [Next]_vars, NEW n \in DNSNames
      PROVE  claims'[n].inception >= claims[n].inception
  <2>1. claims[n].inception \in Int /\ DOMAIN claims = Nodes /\ n \in Nodes
    BY <1>1, DNSAssumption DEF DNSInv, ClaimsRemembered, SignedInThePast, NoRecord
  <2>2. ASSUME NEW txt \in signed, Claim(txt)
        PROVE  claims'[n].inception >= claims[n].inception
    <3>1. claims' = [claims EXCEPT ![txt.name] = txt]
      BY <2>2 DEF Claim
    <3>2. txt.inception >= claims[txt.name].inception
      BY <1>1, <2>2, ClaimIsNewer
    <3> QED
      BY <2>1, <3>1, <3>2
  <2>3. CASE UNCHANGED claims
    BY <2>1, <2>3
  <2> QED
    BY <1>1, <2>2, <2>3 DEF Next, DNSNext, vars, dnsVars, Sign, EnableNode, Tick,
       SetPublicSuffixList, ProveAndClaim, ProveAndClaimWithResolver
<1>2. DNSInv /\ [Next]_vars =>
        [\A n \in DNSNames : claims'[n].inception >= claims[n].inception]_vars
  BY <1>1
<1> QED
  BY <1>2, DNSInvariant, PTL DEF Spec, NewestRecordWins

\* A locked top-level domain is out of everybody's reach but its owner's
\* (Root.lock, Root.setSubnodeOwner, DNSRegistrar._enableNode).
THEOREM LockIsForGood == Spec => LockedStays
<1>1. ASSUME DNSInv, [Next]_vars, NEW tld \in locked
      PROVE  /\ tld \in locked'
             /\ records[tld].owner \notin Senders => records'[tld] = records[tld]
  <2>1. /\ tld \in Nodes \ {ROOT} /\ tld \in TLDs /\ Parent[tld] = ROOT
        /\ records[ROOT].owner \notin Senders
    BY <1>1, RootAssumption DEF DNSInv, RootIsHeld, TLDs
  <2>2. CASE RegistryNext /\ UNCHANGED <<rootVars, dnsVars, now, signed>>
    BY <1>1, <2>1, <2>2, AccountsLeave DEF rootVars
  <2>3. CASE RootNext /\ UNCHANGED <<dnsVars, now, signed>>
    BY <1>1, <2>1, <2>3, RootLeaves
  <2>4. CASE DNSNext
    <3>1. locked' = locked
      BY <1>1, <2>4, RegistrarStep
    <3>2. ASSUME NEW domain \in suffixes, EnableNode(domain)
          PROVE  records'[tld] = records[tld]
      BY <1>1, <2>1, <3>2, EnablingLeaves DEF EnableNode
    <3>3. ASSUME NEW txt \in signed,
                 \/ ProveAndClaim(txt)
                 \/ \E sender \in Senders, resolver \in Resolvers, setsAddr \in BOOLEAN :
                      ProveAndClaimWithResolver(sender, txt, resolver, setsAddr)
          PROVE  records'[tld] = records[tld]
      <4>1. Claim(txt) /\ records'[tld] = Enabled(Parent[txt.name])[tld]
        BY <1>1, <2>1, <3>3, ClaimWrites
      <4> QED
        BY <1>1, <2>1, <4>1, EnablingLeaves DEF Claim
    <3> QED
      BY <2>4, <3>1, <3>2, <3>3 DEF DNSNext, Sign, Tick, SetPublicSuffixList, registryVars
  <2>5. CASE UNCHANGED vars
    BY <2>5, <1>1 DEF vars, registryVars, rootVars
  <2> QED
    BY <1>1, <2>2, <2>3, <2>4, <2>5 DEF Next
<1>2. DNSInv /\ [Next]_vars =>
        [\A tld \in locked :
           /\ tld \in locked'
           /\ records[tld].owner \notin Senders => records'[tld] = records[tld]]_vars
  BY <1>1
<1> QED
  BY <1>2, DNSInvariant, PTL DEF Spec, LockedStays

\* Below a node of the registrar only the DNS moves a name of somebody who
\* sends nothing (DNSRegistrar._claim, _enableNode, ENSRegistry.authorised).
THEOREM TheDNSDecides == Spec => DNSOwnerDecides
<1> DEFINE Idle(n) == records[n].owner \notin Senders \union {NoAddr, REGISTRY, PREVIOUS_REGISTRAR}
           ByDNS(n) == /\ records'[n].owner # records[n].owner
                       /\ \E txt \in signed : /\ txt.name = n /\ txt.owner = records'[n].owner
                                              /\ txt.inception >= claims[n].inception
<1>1. ASSUME DNSInv, [Next]_vars, NEW n \in DNSNames,
             records[Parent[n]].owner = DNS_REGISTRAR, Idle(n)
      PROVE  records'[n] = records[n] \/ ByDNS(n)
  <2>1. /\ n \in Nodes \ ({ROOT} \union TLDs) /\ DNS_REGISTRAR \notin Senders
        /\ ~TakesOver(n) /\ records[n] \in Record
    BY <1>1, DNSAssumption DEF TakesOver, Owner, DNSInv, RegistryTypeOK
  <2>2. CASE RegistryNext /\ UNCHANGED <<rootVars, dnsVars, now, signed>>
    BY <1>1, <2>1, <2>2, AccountsLeave
  <2>3. CASE RootNext /\ UNCHANGED <<dnsVars, now, signed>>
    BY <1>1, <2>1, <2>3, RootLeaves
  <2>4. CASE DNSNext
    <3>1. ASSUME NEW domain \in suffixes, EnableNode(domain)
          PROVE  records'[n] = records[n]
      BY <1>1, <2>1, <3>1, EnablingLeaves DEF EnableNode
    <3>2. ASSUME NEW txt \in signed,
                 \/ ProveAndClaim(txt)
                 \/ \E sender \in Senders, resolver \in Resolvers, setsAddr \in BOOLEAN :
                      ProveAndClaimWithResolver(sender, txt, resolver, setsAddr)
          PROVE  records'[n] = records[n] \/ ByDNS(n)
      <4>1. Claim(txt) /\ Enabled(Parent[txt.name])[n] = records[n]
        <5>1. Claim(txt)
          BY <1>1, <3>2, ClaimWrites
        <5> QED
          BY <1>1, <2>1, <5>1, EnablingLeaves DEF Claim
      <4>2. CASE txt.name # n
        BY <1>1, <2>1, <3>2, <4>1, <4>2, ClaimWrites
      <4>3. CASE txt.name = n
        <5>1. /\ records'[n].owner = txt.owner
              /\ txt.owner \in Senders \/ records'[n] = [records[n] EXCEPT !.owner = txt.owner]
          BY <1>1, <3>2, <4>1, <4>3, ClaimWrites
        <5>2. txt.inception >= claims[n].inception
          BY <1>1, <4>1, <4>3, ClaimIsNewer
        <5>3. CASE txt.owner = records[n].owner
          BY <1>1, <2>1, <5>1, <5>3 DEF Record
        <5>4. CASE txt.owner # records[n].owner
          BY <4>3, <5>1, <5>2, <5>4
        <5> QED
          BY <5>3, <5>4
      <4> QED
        BY <4>2, <4>3
    <3> QED
      BY <2>4, <3>1, <3>2 DEF DNSNext, Sign, Tick, SetPublicSuffixList, registryVars
  <2>5. CASE UNCHANGED vars
    BY <2>5 DEF vars, registryVars
  <2> QED
    BY <1>1, <2>2, <2>3, <2>4, <2>5 DEF Next
<1>2. DNSInv /\ [Next]_vars =>
        [\A n \in DNSNames :
           /\ records[Parent[n]].owner = DNS_REGISTRAR
           /\ records[n].owner \notin Senders \union {NoAddr, REGISTRY, PREVIOUS_REGISTRAR}
           => \/ records'[n] = records[n]
              \/ /\ records'[n].owner # records[n].owner
                 /\ \E txt \in signed : /\ txt.name = n /\ txt.owner = records'[n].owner
                                        /\ txt.inception >= claims[n].inception]_vars
  BY <1>1
<1> QED
  BY <1>2, DNSInvariant, PTL DEF Spec, DNSOwnerDecides
================================================================================
