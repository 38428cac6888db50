------------------------------ MODULE ENSRegistry ------------------------------
(***************************************************************************)
(* registry/ENSRegistry.sol: for every node of the name tree its owner,    *)
(* resolver and TTL, and the operators an owner has approved for all its   *)
(* nodes.                                                                  *)
(*                                                                         *)
(* A transaction of another contract calls the registry several times, so  *)
(* every write is given twice: as an operator on a value of the record     *)
(* table (WithOwner, WithResolver, ...), which callers compose, and as an  *)
(* action, the external call of an account.                                *)
(***************************************************************************)
CONSTANTS
    Nodes,              \* the nodes of the bounded name tree
    ROOT,               \* the root node, bytes32(0)
    Parent,             \* [Nodes \ {ROOT} -> Nodes]: the hash a node is made from
    Addresses,          \* every address a contract may store
    NoAddr,             \* address(0)
    REGISTRY,           \* the address of the registry itself
    Senders,            \* the accounts that send transactions
    Targets,            \* the addresses callers pass as a new owner
    Resolvers,          \* the resolver addresses callers pass, address(0) among them
    TTLs, NoTTL,        \* the TTL values callers pass, and the initial 0
    InitialOwner,       \* [Nodes -> Addresses]: the owners when the model starts
    InitialOperators,   \* the approvals in force when the model starts
    Delegations         \* the <<owner, operator>> pairs accounts grant or revoke

VARIABLES records, operators

registryVars == <<records, operators>>

ASSUME RegistryAssumption ==
    /\ ROOT \in Nodes
    /\ Parent \in [Nodes \ {ROOT} -> Nodes]
    /\ NoAddr \in Addresses
    /\ Senders \subseteq Addresses \ {NoAddr, REGISTRY}
    /\ Targets \subseteq Addresses
    /\ NoAddr \in Resolvers
    /\ NoTTL \in TTLs
    /\ InitialOwner \in [Nodes -> Addresses]
    \* An approval in force was given by its owner.
    /\ InitialOperators \subseteq Senders \X Addresses
    /\ Delegations \subseteq Senders \X Addresses

Record == [owner : Addresses, resolver : Resolvers, ttl : TTLs]

RegistryTypeOK ==
    /\ records \in [Nodes -> Record]
    /\ operators \subseteq Addresses \X Addresses

RegistryInit ==
    /\ records = [n \in Nodes |-> [owner |-> InitialOwner[n],
                                   resolver |-> NoAddr, ttl |-> NoTTL]]
    /\ operators = InitialOperators

(***************************************************************************)
(* Views and the `authorised' modifier                                     *)
(***************************************************************************)
\* owner(): a node owned by the registry itself reads as unowned.
Owner(n) == IF records[n].owner = REGISTRY THEN NoAddr ELSE records[n].owner

\* Slip: an approval by anybody is an approval by the owner.
Authorised_ByAnyApproval(n, sender) ==
    \/ records[n].owner = sender
    \/ \E pair \in operators : pair[2] = sender

\* The modifier reads the stored owner, not the view.
Authorised(n, sender) ==
    \/ records[n].owner = sender
    \/ <<records[n].owner, sender>> \in operators

(***************************************************************************)
(* The writes, on a value of the record table                              *)
(***************************************************************************)
WithOwner(recs, n, owner) == [recs EXCEPT ![n].owner = owner]
WithResolver(recs, n, resolver) == [recs EXCEPT ![n].resolver = resolver]
WithTTL(recs, n, ttl) == [recs EXCEPT ![n].ttl = ttl]

WithRecord(recs, n, owner, resolver, ttl) ==
    [recs EXCEPT ![n] = [owner |-> owner, resolver |-> resolver, ttl |-> ttl]]

(***************************************************************************)
(* The external calls                                                      *)
(***************************************************************************)
SetOwner(sender, n, owner) ==
    /\ Authorised(n, sender)
    /\ records' = WithOwner(records, n, owner)
    /\ UNCHANGED operators

\* The owner of a node creates, reassigns or deletes a subnode at will.
SetSubnodeOwner(sender, n, owner) ==
    /\ n # ROOT
    /\ Authorised(Parent[n], sender)
    /\ records' = WithOwner(records, n, owner)
    /\ UNCHANGED operators

SetRecord(sender, n, owner, resolver, ttl) ==
    /\ Authorised(n, sender)
    /\ records' = WithRecord(records, n, owner, resolver, ttl)
    /\ UNCHANGED operators

SetSubnodeRecord(sender, n, owner, resolver, ttl) ==
    /\ n # ROOT
    /\ Authorised(Parent[n], sender)
    /\ records' = WithRecord(records, n, owner, resolver, ttl)
    /\ UNCHANGED operators

SetResolver(sender, n, resolver) ==
    /\ Authorised(n, sender)
    /\ records' = WithResolver(records, n, resolver)
    /\ UNCHANGED operators

SetTTL(sender, n, ttl) ==
    /\ Authorised(n, sender)
    /\ records' = WithTTL(records, n, ttl)
    /\ UNCHANGED operators

SetApprovalForAll(sender, operator, approved) ==
    /\ <<sender, operator>> \in Delegations
    /\ operators' = IF approved THEN operators \union {<<sender, operator>>}
                                ELSE operators \ {<<sender, operator>>}
    /\ UNCHANGED records

RegistryNext ==
    \E sender \in Senders :
        \/ \E n \in Nodes, owner \in Targets :
            \/ SetOwner(sender, n, owner)
            \/ SetSubnodeOwner(sender, n, owner)
        \/ \E n \in Nodes, owner \in Targets, resolver \in Resolvers, ttl \in TTLs :
            \/ SetRecord(sender, n, owner, resolver, ttl)
            \/ SetSubnodeRecord(sender, n, owner, resolver, ttl)
        \/ \E n \in Nodes, resolver \in Resolvers : SetResolver(sender, n, resolver)
        \/ \E n \in Nodes, ttl \in TTLs : SetTTL(sender, n, ttl)
        \/ \E operator \in Addresses, approved \in BOOLEAN :
            SetApprovalForAll(sender, operator, approved)

RegistrySpec == RegistryInit /\ [][RegistryNext]_registryVars
================================================================================
