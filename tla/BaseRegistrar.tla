----------------------------- MODULE BaseRegistrar -----------------------------
(***************************************************************************)
(* ethregistrar/BaseRegistrarImplementation.sol: the owner of the .etn     *)
(* node sells second-level names for a time.  A name is an ERC721 token    *)
(* (the OpenZeppelin base contract, external) with an expiry; the holder   *)
(* of an unexpired token can always reclaim the name in the registry.  A   *)
(* token id is the label's hash; here it is the node below ETN.            *)
(***************************************************************************)
EXTENDS Integers, ENSRegistry

CONSTANTS
    ETN,                \* baseNode
    REGISTRAR,          \* the address of this contract
    GRACE_PERIOD,
    Durations,          \* the durations controllers pass
    InitialControllers, \* the controllers when the model starts
    ManagedControllers, \* the controllers the contract's owner adds or removes
    DirectControllers,  \* the controllers that call this contract themselves
    TLDResolvers,       \* the resolvers the contract's owner sets on the TLD
    TokenDelegations,   \* the <<owner, operator>> pairs of ERC721 setApprovalForAll
    Receivers,          \* the addresses that accept a safe transfer
    StartTime, MaxTime, \* bounds of block.timestamp
    MaxExpiry           \* bound of an expiry

VARIABLES
    now,                \* block.timestamp
    expiries, tokenOwner, tokenApproved, tokenOperators, controllers

tokenVars == <<expiries, tokenOwner, tokenApproved, tokenOperators>>
registrarVars == <<now, tokenVars, controllers>>

ASSUME RegistrarAssumption ==
    /\ ETN \in Nodes \ {ROOT} /\ Parent[ETN] = ROOT
    /\ REGISTRAR \in Addresses \ (Senders \union {NoAddr, REGISTRY})
    /\ GRACE_PERIOD \in Nat
    /\ Durations \subseteq Nat
    /\ InitialControllers \subseteq Addresses
    /\ ManagedControllers \subseteq Addresses
    /\ DirectControllers \subseteq Addresses \ (Senders \union {NoAddr})
    /\ TLDResolvers \subseteq Resolvers
    /\ TokenDelegations \subseteq Senders \X Addresses
    /\ Receivers \subseteq Addresses \ {NoAddr}
    \* An id never registered (expiry 0) is available from the start.
    /\ StartTime \in Nat /\ StartTime > GRACE_PERIOD
    /\ MaxTime \in Nat /\ StartTime <= MaxTime
    /\ MaxExpiry \in Nat

Names == {n \in Nodes \ {ROOT} : Parent[n] = ETN}

RegistrarTypeOK ==
    /\ now \in StartTime .. MaxTime
    /\ expiries \in [Names -> 0 .. MaxExpiry]
    /\ tokenOwner \in [Names -> Addresses]
    /\ tokenApproved \in [Names -> Addresses]
    /\ tokenOperators \subseteq Addresses \X Addresses
    /\ controllers \subseteq Addresses

RegistrarInit ==
    /\ now = StartTime
    /\ expiries = [id \in Names |-> 0]
    /\ tokenOwner = [id \in Names |-> NoAddr]
    /\ tokenApproved = [id \in Names |-> NoAddr]
    /\ tokenOperators = {}
    /\ controllers = InitialControllers

(***************************************************************************)
(* Views and modifiers                                                     *)
(***************************************************************************)
Live == Owner(ETN) = REGISTRAR

\* ownerOf() reverts on an expired name: strictly later than now.
Unexpired(id) == expiries[id] > now /\ tokenOwner[id] # NoAddr

\* Slip: the base contract's version, which ignores the expiry.
IsApprovedOrOwner_Unexpiring(spender, id) ==
    /\ tokenOwner[id] # NoAddr
    /\ \/ spender = tokenOwner[id]
       \/ spender = tokenApproved[id]
       \/ <<tokenOwner[id], spender>> \in tokenOperators

\* The override that goes through ownerOf(): nobody is, in the grace period.
IsApprovedOrOwner(spender, id) ==
    /\ Unexpired(id)
    /\ \/ spender = tokenOwner[id]
       \/ spender = tokenApproved[id]
       \/ <<tokenOwner[id], spender>> \in tokenOperators

Available(id) == expiries[id] + GRACE_PERIOD < now

\* Slip: require(available(id)) is missing.
CanRegister_Anytime(caller, id, duration) ==
    /\ Live
    /\ caller \in controllers
    /\ duration > 0
    /\ now + duration <= MaxExpiry

\* require(now + duration + GRACE > now + GRACE): not 0, and no overflow,
\* which the bound MaxExpiry stands for.
CanRegister(caller, id, duration) ==
    /\ Live
    /\ caller \in controllers
    /\ Available(id)
    /\ duration > 0
    /\ now + duration <= MaxExpiry

\* require(expiries + duration + GRACE > duration + GRACE): registered once.
CanRenew(caller, id, duration) ==
    /\ Live
    /\ caller \in controllers
    /\ expiries[id] + GRACE_PERIOD >= now
    /\ expiries[id] > 0
    /\ expiries[id] + duration <= MaxExpiry

(***************************************************************************)
(* The ERC721 writes of the base contract                                  *)
(***************************************************************************)
\* Slip: the approval survives the transfer.
MoveToken_KeepsApproval(id, to) ==
    /\ tokenOwner' = [tokenOwner EXCEPT ![id] = to]
    /\ UNCHANGED <<tokenApproved, tokenOperators>>

\* _mint, after _burn of an expired token, and _transfer: approval cleared.
MoveToken(id, to) ==
    /\ tokenOwner' = [tokenOwner EXCEPT ![id] = to]
    /\ tokenApproved' = [tokenApproved EXCEPT ![id] = NoAddr]
    /\ UNCHANGED tokenOperators

\* OpenZeppelin's approve() reads the raw owner: it works in the grace period.
ApproveToken(sender, id, to) ==
    /\ tokenOwner[id] # NoAddr
    /\ to # tokenOwner[id]
    /\ sender = tokenOwner[id] \/ <<tokenOwner[id], sender>> \in tokenOperators
    /\ tokenApproved' = [tokenApproved EXCEPT ![id] = to]
    /\ UNCHANGED <<registryVars, now, expiries, tokenOwner, tokenOperators, controllers>>

SetTokenApprovalForAll(sender, operator, approved) ==
    /\ <<sender, operator>> \in TokenDelegations
    /\ sender # operator
    /\ tokenOperators' = IF approved THEN tokenOperators \union {<<sender, operator>>}
                                     ELSE tokenOperators \ {<<sender, operator>>}
    /\ UNCHANGED <<registryVars, now, expiries, tokenOwner, tokenApproved, controllers>>

\* A token may be sent to any address, a contract that cannot use it included.
TransferFrom(sender, id, to) ==
    /\ IsApprovedOrOwner(sender, id)
    /\ to # NoAddr
    /\ MoveToken(id, to)
    /\ UNCHANGED <<registryVars, now, expiries, controllers>>

(***************************************************************************)
(* The contract's own operations                                           *)
(***************************************************************************)
Register(caller, id, owner, duration) ==
    /\ CanRegister(caller, id, duration)
    /\ owner # NoAddr
    /\ expiries' = [expiries EXCEPT ![id] = now + duration]
    /\ MoveToken(id, owner)
    /\ records' = WithOwner(records, id, owner)
    /\ UNCHANGED <<operators, now, controllers>>

RegisterOnly(caller, id, owner, duration) ==
    /\ CanRegister(caller, id, duration)
    /\ owner # NoAddr
    /\ expiries' = [expiries EXCEPT ![id] = now + duration]
    /\ MoveToken(id, owner)
    /\ UNCHANGED <<registryVars, now, controllers>>

Renew(caller, id, duration) ==
    /\ CanRenew(caller, id, duration)
    /\ expiries' = [expiries EXCEPT ![id] = @ + duration]
    /\ UNCHANGED <<registryVars, now, tokenOwner, tokenApproved, tokenOperators, controllers>>

Reclaim(sender, id, owner) ==
    /\ Live
    /\ IsApprovedOrOwner(sender, id)
    /\ records' = WithOwner(records, id, owner)
    /\ UNCHANGED <<operators, registrarVars>>

AddController(controller) ==
    /\ controllers' = controllers \union {controller}
    /\ UNCHANGED <<registryVars, now, tokenVars>>

RemoveController(controller) ==
    /\ controllers' = controllers \ {controller}
    /\ UNCHANGED <<registryVars, now, tokenVars>>

SetTLDResolver(resolver) ==
    /\ Authorised(ETN, REGISTRAR)
    /\ records' = WithResolver(records, ETN, resolver)
    /\ UNCHANGED <<operators, registrarVars>>

\* A block with a later timestamp.
Tick ==
    /\ now < MaxTime
    /\ now' = now + 1
    /\ UNCHANGED <<registryVars, tokenVars, controllers>>

\* What a controller does for whoever pays it: any owner, any name.
ControllerStep ==
    \E caller \in DirectControllers, id \in Names, duration \in Durations :
        \/ \E owner \in Targets :
            \/ Register(caller, id, owner, duration)
            \/ RegisterOnly(caller, id, owner, duration)
        \/ Renew(caller, id, duration)

HolderStep ==
    \E sender \in Senders, id \in Names :
        \E to \in Targets :
            \/ ApproveToken(sender, id, to)
            \/ TransferFrom(sender, id, to)
            \/ Reclaim(sender, id, to)

DelegationStep ==
    \E pair \in TokenDelegations, approved \in BOOLEAN :
        SetTokenApprovalForAll(pair[1], pair[2], approved)

AdminStep ==
    \/ \E controller \in ManagedControllers :
        \/ AddController(controller)
        \/ RemoveController(controller)
    \/ \E resolver \in TLDResolvers : SetTLDResolver(resolver)

RegistrarNext ==
    \/ RegistryNext /\ UNCHANGED registrarVars
    \/ ControllerStep
    \/ HolderStep
    \/ DelegationStep
    \/ AdminStep
    \/ Tick

registrarStateVars == <<registryVars, registrarVars>>

RegistrarStart == RegistryInit /\ RegistrarInit

RegistrarSpec == RegistrarStart /\ [][RegistrarNext]_registrarStateVars
================================================================================
