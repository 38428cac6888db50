----------------------------- MODULE DNSRegistrar -----------------------------
(***************************************************************************)
(* dnsregistrar/DNSRegistrar.sol: the registrar of the names below public   *)
(* suffixes, which whoever controls a name in the DNS claims with a signed  *)
(* record of it.  The registrar owns the suffixes it serves, and takes      *)
(* them on first use from nobody or from the registrar it replaces; for a   *)
(* top-level domain it asks Root.                                           *)
(*                                                                         *)
(* Signed records are public: anybody may submit one, now or later.  Their  *)
(* inception and expiration are 32-bit numbers compared in the serial       *)
(* arithmetic of RFC 1982; here they are kept in full and cut to serial     *)
(* numbers modulo W where the code has them.                                *)
(***************************************************************************)
EXTENDS Root, Integers, FiniteSets

CONSTANTS
    DNS_REGISTRAR,        \* the address of this registrar
    PREVIOUS_REGISTRAR,   \* previousRegistrar, fixed by the constructor
    DNS_RESOLVER,         \* resolver, fixed by the constructor
    SuffixLists,          \* the suffixes of the lists setPublicSuffixList is called with
    InitialSuffixes,
    DNSNames,             \* the nodes that have a TXT record in the DNS
    TXTOwners,            \* the addresses such a record names
    W,                    \* 2^32: serial numbers
    Validity,             \* how long a signature is valid
    StartTime, MaxTime,   \* bound of the clock
    MaxSigned             \* bound of the records that are signed

VARIABLES
    now,         \* block.timestamp
    suffixes,    \* the present public suffix list
    inceptions,  \* the contract's mapping
    signed,      \* the TXT records signed in the DNS so far
    claims       \* of a name: the record it was last claimed with (the event Claim)

dnsVars == <<suffixes, inceptions, claims>>
vars == <<registryVars, rootVars, dnsVars, now, signed>>

TXTRecord == [name : DNSNames, owner : TXTOwners, inception : Nat, expiration : Nat]
NoRecord == [owner |-> NoAddr, inception |-> -1]

ASSUME DNSAssumption ==
    /\ W \in Nat /\ Validity \in Nat /\ StartTime \in Nat /\ MaxTime \in Nat
    /\ 2 * Validity < W /\ MaxTime < StartTime + W
    /\ DNS_REGISTRAR \in Addresses \ (Senders \union {NoAddr, REGISTRY, ROOT_CONTRACT})
    /\ DNS_RESOLVER \in Resolvers /\ TXTOwners \subseteq Addresses
    /\ PREVIOUS_REGISTRAR \in Addresses \ {ROOT_CONTRACT, DNS_REGISTRAR}
    /\ DNSNames \subseteq Nodes \ ({ROOT} \union TLDs)
    /\ ROOT \notin UNION (SuffixLists \union {InitialSuffixes})

Init ==
    /\ RegistryInit /\ RootInit
    /\ now = StartTime
    /\ suffixes = InitialSuffixes
    /\ inceptions = [n \in Nodes |-> 0]
    /\ signed = {}
    /\ claims = [n \in Nodes |-> NoRecord]

(***************************************************************************)
(* RRUtils.serialNumberGte(): the sign of a 32-bit difference              *)
(***************************************************************************)
Serial(time) == time % W

SerialGte(i, j) == (i - j) % W < W \div 2

(***************************************************************************)
(* The DNS, and what the DNSSEC oracle makes of a signed record            *)
(***************************************************************************)
Sign(name, owner) ==
    /\ Cardinality(signed) < MaxSigned
    /\ signed' = signed \union {[name |-> name, owner |-> owner,
                                 inception |-> now, expiration |-> now + Validity]}
    /\ UNCHANGED <<registryVars, rootVars, dnsVars, now>>

\* verifyRRSet(): the chain of signatures is what makes a record one of signed.
Verifies(txt) ==
    /\ SerialGte(Serial(txt.expiration), Serial(now))
    /\ SerialGte(Serial(now), Serial(txt.inception))

(***************************************************************************)
(* enableNode()                                                            *)
(***************************************************************************)
\* The node and the ones above it, the root left out.
Domain(n) ==
    LET Walk[m \in Nodes] == IF m = ROOT THEN {} ELSE {m} \union Walk[Parent[m]]
    IN  Walk[n]

TakesOver(n) == Owner(n) \in {NoAddr, PREVIOUS_REGISTRAR}

\* Root is whatever contract owns the root.
CanEnable(domain) ==
    /\ domain \in suffixes
    /\ \A n \in Domain(domain) :
        \/ Owner(n) = DNS_REGISTRAR
        \/ TakesOver(n) /\ (n \in TLDs => /\ Owner(ROOT) = ROOT_CONTRACT
                                          /\ RootGrants(DNS_REGISTRAR, n))

Enabled(domain) ==
    [n \in Nodes |->
        IF n \in Domain(domain) /\ TakesOver(n)
        THEN [owner |-> DNS_REGISTRAR, resolver |-> DNS_RESOLVER,
              ttl |-> IF n \in TLDs THEN records[n].ttl ELSE NoTTL]
        ELSE records[n]]

EnableNode(domain) ==
    /\ CanEnable(domain)
    /\ records' = Enabled(domain)
    /\ UNCHANGED <<operators, rootVars, dnsVars, now, signed>>

(***************************************************************************)
(* proveAndClaim(), proveAndClaimWithResolver()                            *)
(***************************************************************************)
\* Slip: the numbers as they stand, without the wrap-around.
IsFresh_Plain(txt) == Serial(txt.inception) >= inceptions[txt.name]

IsFresh(txt) == SerialGte(Serial(txt.inception), inceptions[txt.name])

Claim(txt) ==
    /\ Verifies(txt)
    /\ CanEnable(Parent[txt.name])
    /\ IsFresh(txt)
    /\ inceptions' = [inceptions EXCEPT ![txt.name] = Serial(txt.inception)]
    /\ claims' = [claims EXCEPT ![txt.name] = txt]
    /\ UNCHANGED <<operators, rootVars, suffixes, now, signed>>

ProveAndClaim(txt) ==
    /\ Claim(txt)
    /\ records' = WithOwner(Enabled(Parent[txt.name]), txt.name, txt.owner)

\* Slip: whoever submits the record chooses the resolver.
IsClaimant_Anybody(sender, txt) == sender \in Senders

IsClaimant(sender, txt) == sender = txt.owner

ProveAndClaimWithResolver(sender, txt, resolver, setsAddr) ==
    /\ Claim(txt)
    /\ IsClaimant(sender, txt)
    /\ setsAddr => resolver # NoAddr
    /\ records' = WithRecord(Enabled(Parent[txt.name]), txt.name, txt.owner, resolver, NoTTL)

\* onlyOwner: the owner of the contract that owns the root.
SetPublicSuffixList(sender, list) ==
    /\ Owner(ROOT) = ROOT_CONTRACT /\ sender = rootOwner
    /\ suffixes' = list
    /\ UNCHANGED <<registryVars, rootVars, inceptions, claims, now, signed>>

Tick ==
    /\ now < MaxTime
    /\ now' = now + 1
    /\ UNCHANGED <<registryVars, rootVars, dnsVars, signed>>

DNSNext ==
    \/ \E name \in DNSNames, owner \in TXTOwners : Sign(name, owner)
    \/ \E domain \in suffixes : EnableNode(domain)
    \/ \E txt \in signed : ProveAndClaim(txt)
    \/ \E txt \in signed, sender \in Senders, resolver \in Resolvers, setsAddr \in BOOLEAN :
        ProveAndClaimWithResolver(sender, txt, resolver, setsAddr)
    \/ \E sender \in Senders, list \in SuffixLists : SetPublicSuffixList(sender, list)
    \/ Tick

Next ==
    \/ RegistryNext /\ UNCHANGED <<rootVars, dnsVars, now, signed>>
    \/ RootNext /\ UNCHANGED <<dnsVars, now, signed>>
    \/ DNSNext

Spec == Init /\ [][Next]_vars
================================================================================
