------------------------------ MODULE NameWrapper ------------------------------
(***************************************************************************)
(* wrapper/NameWrapper.sol on wrapper/ERC1155Fuse.sol: a contract that     *)
(* owns names in the registry (and .etn names in the registrar) and issues *)
(* an ERC1155 token for each, with an expiry and with fuses, permissions   *)
(* given up until the expiry.                                              *)
(*                                                                         *)
(* Every external call is one action: the calls it makes into the          *)
(* registrar and the registry are composed into it, and it happens only if *)
(* none of them reverts.  A fuse word is the set of its fuses.             *)
(***************************************************************************)
EXTENDS BaseRegistrar

CONSTANTS
    WRAPPER,                \* the address of this contract
    MAX_EXPIRY,             \* type(uint64).max
    OwnerFuseInputs,        \* the uint16 fuse words callers pass
    FuseInputs,             \* the uint32 fuse words callers pass
    ExpiryInputs,           \* the expiries callers pass
    Batches,                \* the sets of ids of safeBatchTransferFrom
    WrapperDelegations,     \* the <<owner, operator>> pairs of setApprovalForAll
    InitialWrapperControllers,
    ManagedWrapperControllers,  \* the controllers the contract's owner sets
    UpgradeContracts        \* the upgrade contracts the contract's owner sets

VARIABLES
    tokens,                 \* _tokens: owner, fuses, expiry of a node, unfiltered
    approvals,              \* _tokenApprovals
    wrapperOperators,       \* _operatorApprovals
    wrapperControllers,     \* Controllable.controllers
    upgradeContract

wrapperVars == <<tokens, approvals, wrapperOperators, wrapperControllers, upgradeContract>>

\* What most operations leave alone.
wrapperAdminVars == <<wrapperOperators, wrapperControllers, upgradeContract>>

vars == <<registryVars, registrarVars, wrapperVars>>

(***************************************************************************)
(* The fuses of INameWrapper.sol                                           *)
(***************************************************************************)
CANNOT_UNWRAP == "CANNOT_UNWRAP"
CANNOT_BURN_FUSES == "CANNOT_BURN_FUSES"
CANNOT_TRANSFER == "CANNOT_TRANSFER"
CANNOT_SET_RESOLVER == "CANNOT_SET_RESOLVER"
CANNOT_SET_TTL == "CANNOT_SET_TTL"
CANNOT_CREATE_SUBDOMAIN == "CANNOT_CREATE_SUBDOMAIN"
CANNOT_APPROVE == "CANNOT_APPROVE"
PARENT_CANNOT_CONTROL == "PARENT_CANNOT_CONTROL"
IS_DOT_ETH == "IS_DOT_ETH"
CAN_EXTEND_EXPIRY == "CAN_EXTEND_EXPIRY"

OwnerControlledFuses ==
    {CANNOT_UNWRAP, CANNOT_BURN_FUSES, CANNOT_TRANSFER, CANNOT_SET_RESOLVER,
     CANNOT_SET_TTL, CANNOT_CREATE_SUBDOMAIN, CANNOT_APPROVE}
PARENT_CONTROLLED_FUSES == {PARENT_CANNOT_CONTROL, IS_DOT_ETH, CAN_EXTEND_EXPIRY}
Fuses == OwnerControlledFuses \union PARENT_CONTROLLED_FUSES
USER_SETTABLE_FUSES == Fuses \ {IS_DOT_ETH}

ASSUME WrapperAssumption ==
    /\ WRAPPER \in Addresses \ (Senders \union DirectControllers \union {NoAddr, REGISTRY, REGISTRAR})
    /\ WRAPPER \notin Receivers
    /\ OwnerFuseInputs \subseteq SUBSET OwnerControlledFuses
    /\ FuseInputs \subseteq SUBSET Fuses
    /\ ExpiryInputs \subseteq Nat
    /\ Batches \subseteq SUBSET Nodes
    /\ WrapperDelegations \subseteq Senders \X Addresses
    /\ InitialWrapperControllers \subseteq Addresses \ {NoAddr}
    /\ ManagedWrapperControllers \subseteq Addresses
    /\ UpgradeContracts \subseteq Addresses \ (Senders \union {WRAPPER})
    /\ MAX_EXPIRY \in Nat
    /\ MaxTime <= MAX_EXPIRY
    /\ MaxExpiry + GRACE_PERIOD <= MAX_EXPIRY

\* The TLD is the registrar's, and the root belongs to nobody who takes part: its
\* owner could replace the registrar, which is the registrar's own model.
ASSUME DeploymentAssumption ==
    /\ InitialOwner[ETN] = REGISTRAR
    /\ InitialOwner[ROOT] \notin Senders \union {WRAPPER, REGISTRAR, REGISTRY}

Token == [owner : Addresses, fuses : SUBSET Fuses, expiry : 0 .. MAX_EXPIRY]

WrapperTypeOK ==
    /\ tokens \in [Nodes -> Token]
    /\ approvals \in [Nodes -> Addresses]
    /\ wrapperOperators \subseteq Addresses \X Addresses
    /\ wrapperControllers \subseteq Addresses
    /\ upgradeContract \in UpgradeContracts \union {NoAddr}

LockedForEver == [owner |-> NoAddr, fuses |-> {PARENT_CANNOT_CONTROL, CANNOT_UNWRAP},
                  expiry |-> MAX_EXPIRY]

\* The constructor locks the root and the TLD for ever.
WrapperInit ==
    /\ tokens = [n \in Nodes |->
                    IF n \in {ROOT, ETN} THEN LockedForEver
                    ELSE [owner |-> NoAddr, fuses |-> {}, expiry |-> 0]]
    /\ approvals = [n \in Nodes |-> NoAddr]
    /\ wrapperOperators = {}
    /\ wrapperControllers = InitialWrapperControllers
    /\ upgradeContract = NoAddr

(***************************************************************************)
(* Reading a token                                                         *)
(***************************************************************************)
\* _clearOwnerAndFuses: fuses end with the expiry, and an emancipated name's
\* owner with them.
Cleared(t) ==
    [owner |-> IF t.expiry < now /\ PARENT_CANNOT_CONTROL \in t.fuses
               THEN NoAddr ELSE t.owner,
     fuses |-> IF t.expiry < now THEN {} ELSE t.fuses,
     expiry |-> t.expiry]

Data(n) == Cleared(tokens[n])

InGracePeriod(t) == IS_DOT_ETH \in t.fuses /\ t.expiry - GRACE_PERIOD < now

OwnerOrOperator(owner, sender) == owner = sender \/ <<owner, sender>> \in wrapperOperators

\* Slips: the grace period is forgotten; the renewal manager counts as an owner.
CanModifyName_InGrace(n, sender) == OwnerOrOperator(Data(n).owner, sender)

CanModifyName_Manager(n, sender) ==
    /\ OwnerOrOperator(Data(n).owner, sender) \/ approvals[n] = sender
    /\ ~InGracePeriod(Data(n))

CanModifyName(n, sender) ==
    /\ OwnerOrOperator(Data(n).owner, sender)
    /\ ~InGracePeriod(Data(n))

\* getApproved(): no approval speaks for a name without an owner.
GetApproved(n) == IF Data(n).owner = NoAddr THEN NoAddr ELSE approvals[n]

CanExtendSubnames(n, sender) ==
    /\ \/ OwnerOrOperator(Data(n).owner, sender)
       \/ GetApproved(n) = sender
    /\ ~InGracePeriod(Data(n))

IsWrapped(n) == Data(n).owner # NoAddr /\ Owner(n) = WRAPPER

(***************************************************************************)
(* Checks on fuses and expiries                                            *)
(***************************************************************************)
CanFusesBeBurned(fuses) ==
    fuses \intersect OwnerControlledFuses # {}
    => {PARENT_CANNOT_CONTROL, CANNOT_UNWRAP} \subseteq fuses

FusesAreSettable(fuses) == fuses \subseteq USER_SETTABLE_FUSES

\* Slip: an emancipated parent is enough.
ParentFusesAllow_Emancipated(n, fuses) ==
    fuses \intersect PARENT_CONTROLLED_FUSES # {}
    => PARENT_CANNOT_CONTROL \in Data(Parent[n]).fuses

ParentFusesAllow(n, fuses) ==
    fuses \intersect PARENT_CONTROLLED_FUSES # {}
    => CANNOT_UNWRAP \in Data(Parent[n]).fuses

Larger(a, b) == IF a < b THEN b ELSE a
Smaller(a, b) == IF a < b THEN a ELSE b

\* Slip: no cap.
NormaliseExpiry_Uncapped(expiry, oldExpiry, maxExpiry) == Larger(expiry, oldExpiry)

\* At most the parent's expiry, and never less than the name's own.
NormaliseExpiry(expiry, oldExpiry, maxExpiry) ==
    Larger(Smaller(expiry, maxExpiry), oldExpiry)

SubnameExpiry(n, expiry) == NormaliseExpiry(expiry, tokens[n].expiry, tokens[Parent[n]].expiry)

(***************************************************************************)
(* Writing a token: _mint, _burn and _transfer                             *)
(***************************************************************************)
SetToken(n, t) == tokens' = [tokens EXCEPT ![n] = t]
ClearApproval(n) == approvals' = [approvals EXCEPT ![n] = NoAddr]

\* An owner left over from before is burned silently, with its approval.
\* Parent-controlled fuses survive if they have not expired.
Mint(n, owner, fuses, expiry) ==
    LET old == tokens[n] IN
    /\ CanFusesBeBurned(fuses)
    /\ owner \in Receivers
    /\ SetToken(n, [owner |-> owner,
                    fuses |-> IF old.expiry >= now
                              THEN fuses \union (old.fuses \intersect PARENT_CONTROLLED_FUSES)
                              ELSE fuses,
                    expiry |-> Larger(expiry, old.expiry)])
    /\ IF old.owner # NoAddr THEN ClearApproval(n) ELSE UNCHANGED approvals

\* Slip: a burn resets the fuses.
Burn_ResetsFuses(n, t) ==
    /\ SetToken(n, [owner |-> NoAddr, fuses |-> {}, expiry |-> t.expiry])
    /\ ClearApproval(n)

\* Fuses and expiry outlive the token.
Burn(n, t) ==
    /\ SetToken(n, [Cleared(t) EXCEPT !.owner = NoAddr])
    /\ ClearApproval(n)

\* _unwrap of the token value t, the registry record going to `owner'.
UnwrapTo(n, t, owner, recs) ==
    /\ CANNOT_UNWRAP \notin Cleared(t).fuses
    /\ recs[n].owner = WRAPPER \/ <<recs[n].owner, WRAPPER>> \in operators
    /\ Burn(n, t)
    /\ records' = WithOwner(recs, n, owner)

\* _beforeTransfer: a .etn name counts as expired from its grace period on.
MayTransfer(t) ==
    IF InGracePeriod(t) \/ t.expiry < now
    THEN PARENT_CANNOT_CONTROL \notin t.fuses
    ELSE CANNOT_TRANSFER \notin t.fuses

\* _transfer of the token value t: renewal approvals end, even if it goes nowhere.
TransferTo(n, t, from, to) ==
    LET c == Cleared(t) IN
    /\ MayTransfer(c)
    /\ c.owner = from
    /\ from = to \/ to \in Receivers
    /\ SetToken(n, IF from = to THEN t ELSE [c EXCEPT !.owner = to])
    /\ IF CANNOT_APPROVE \in c.fuses THEN UNCHANGED approvals ELSE ClearApproval(n)

(***************************************************************************)
(* ERC1155 and approvals                                                   *)
(***************************************************************************)
Approve(sender, n, to) ==
    /\ CANNOT_APPROVE \notin Data(n).fuses
    /\ to # Data(n).owner
    /\ OwnerOrOperator(Data(n).owner, sender)
    /\ approvals' = [approvals EXCEPT ![n] = to]
    /\ UNCHANGED <<registryVars, registrarVars, tokens, wrapperAdminVars>>

SetWrapperApprovalForAll(sender, operator, approved) ==
    /\ sender # operator
    /\ wrapperOperators' = IF approved THEN wrapperOperators \union {<<sender, operator>>}
                                       ELSE wrapperOperators \ {<<sender, operator>>}
    /\ UNCHANGED <<registryVars, registrarVars, tokens, approvals, wrapperControllers,
                   upgradeContract>>

SafeTransferFrom(sender, n, from, to) ==
    /\ to # NoAddr
    /\ OwnerOrOperator(from, sender)
    /\ TransferTo(n, tokens[n], from, to)
    /\ UNCHANGED <<registryVars, registrarVars, wrapperAdminVars>>

\* Every token of the batch or none; a token sent to its owner is rewritten too.
SafeBatchTransferFrom(sender, batch, from, to) ==
    /\ to \in Receivers
    /\ OwnerOrOperator(from, sender)
    /\ \A n \in batch : MayTransfer(Data(n)) /\ Data(n).owner = from
    /\ tokens' = [n \in Nodes |-> IF n \in batch THEN [Data(n) EXCEPT !.owner = to]
                                                 ELSE tokens[n]]
    /\ approvals' = [n \in Nodes |-> IF n \in batch /\ CANNOT_APPROVE \notin Data(n).fuses
                                     THEN NoAddr ELSE approvals[n]]
    /\ UNCHANGED <<registryVars, registrarVars, wrapperAdminVars>>

(***************************************************************************)
(* Wrapping and unwrapping .etn names                                      *)
(***************************************************************************)
\* Slip: the grace period is added twice.
WrapName_GraceTwice(n, owner, fuses, expiry, resolver, recs) ==
    /\ Mint(n, owner, fuses \union {PARENT_CANNOT_CONTROL, IS_DOT_ETH}, expiry + GRACE_PERIOD)
    /\ records' = IF resolver = NoAddr THEN recs ELSE WithResolver(recs, n, resolver)

\* _wrapETH2LD, on a registry that already names the wrapper as owner.
WrapName(n, owner, fuses, expiry, resolver, recs) ==
    /\ Mint(n, owner, fuses \union {PARENT_CANNOT_CONTROL, IS_DOT_ETH}, expiry)
    /\ records' = IF resolver = NoAddr THEN recs ELSE WithResolver(recs, n, resolver)

\* The wrapper pulls the token, which takes its own approval on the registrar.
WrapETH2LD(sender, n, owner, fuses, resolver) ==
    /\ Live
    /\ sender = tokenOwner[n] \/ <<tokenOwner[n], sender>> \in tokenOperators
    /\ IsApprovedOrOwner(WRAPPER, n)
    /\ MoveToken(n, WRAPPER)
    /\ WrapName(n, owner, fuses, expiries[n] + GRACE_PERIOD, resolver,
                WithOwner(records, n, WRAPPER))
    /\ UNCHANGED <<operators, now, expiries, controllers, wrapperAdminVars>>

\* The holder pushes the token with safeTransferFrom, the request in its data.
OnERC721Received(sender, n, owner, fuses, resolver) ==
    /\ Live
    /\ IsApprovedOrOwner(sender, n)
    /\ MoveToken(n, WRAPPER)
    /\ WrapName(n, owner, fuses, expiries[n] + GRACE_PERIOD, resolver,
                WithOwner(records, n, WRAPPER))
    /\ UNCHANGED <<operators, now, expiries, controllers, wrapperAdminVars>>

RegisterAndWrapETH2LD(caller, n, owner, duration, resolver, fuses) ==
    /\ caller \in wrapperControllers
    /\ CanRegister(WRAPPER, n, duration)
    /\ expiries' = [expiries EXCEPT ![n] = now + duration]
    /\ MoveToken(n, WRAPPER)
    /\ WrapName(n, owner, fuses, now + duration + GRACE_PERIOD, resolver,
                WithOwner(records, n, WRAPPER))
    /\ UNCHANGED <<operators, now, controllers, wrapperAdminVars>>

\* The token follows the registrar only if the wrapper holds the name in both
\* contracts; the stored owner and fuses are kept, expired or not.
RenewETH2LD(caller, n, duration) ==
    LET expiry == expiries[n] + duration
        held == expiry > now /\ tokenOwner[n] = WRAPPER /\ Owner(n) = WRAPPER
    IN
    /\ caller \in wrapperControllers
    /\ CanRenew(WRAPPER, n, duration)
    /\ expiries' = [expiries EXCEPT ![n] = expiry]
    /\ IF held THEN /\ CanFusesBeBurned(tokens[n].fuses)
                    /\ SetToken(n, [tokens[n] EXCEPT !.expiry = expiry + GRACE_PERIOD])
               ELSE UNCHANGED tokens
    /\ UNCHANGED <<registryVars, now, tokenOwner, tokenApproved, tokenOperators, controllers,
                   approvals, wrapperAdminVars>>

\* The registry record goes to any address, the token to one that accepts it.
UnwrapETH2LD(sender, n, registrant, controller) ==
    /\ CanModifyName(n, sender)
    /\ registrant \in Receivers
    /\ UnwrapTo(n, tokens[n], controller, records)
    /\ IsApprovedOrOwner(WRAPPER, n) /\ tokenOwner[n] = WRAPPER
    /\ MoveToken(n, registrant)
    /\ UNCHANGED <<operators, now, expiries, controllers, wrapperAdminVars>>

(***************************************************************************)
(* Wrapping and unwrapping any other name                                  *)
(***************************************************************************)
\* The wrapper takes the record, which takes its own approval on the registry.
Wrap(sender, n, owner, resolver) ==
    /\ n # ROOT /\ Parent[n] # ETN
    /\ Owner(n) = sender \/ <<Owner(n), sender>> \in operators
    /\ Authorised(n, WRAPPER)
    /\ Mint(n, owner, {}, 0)
    /\ records' = WithOwner(IF resolver = NoAddr THEN records
                                                 ELSE WithResolver(records, n, resolver),
                            n, WRAPPER)
    /\ UNCHANGED <<operators, registrarVars, wrapperAdminVars>>

Unwrap(sender, n, controller) ==
    /\ n # ROOT /\ Parent[n] # ETN
    /\ controller \notin {NoAddr, WRAPPER}
    /\ CanModifyName(n, sender)
    /\ UnwrapTo(n, tokens[n], controller, records)
    /\ UNCHANGED <<operators, registrarVars, wrapperAdminVars>>

\* The new contract checks that it was approved; what it then does is its own.
Upgrade(sender, n) ==
    /\ upgradeContract # NoAddr
    /\ CanModifyName(n, sender)
    /\ IF n \in Names
       THEN Unexpired(n) /\ tokenOwner[n] = WRAPPER /\ <<WRAPPER, upgradeContract>> \in tokenOperators
       ELSE Owner(n) = WRAPPER /\ <<WRAPPER, upgradeContract>> \in operators
    /\ Burn(n, tokens[n])
    /\ UNCHANGED <<registryVars, registrarVars, wrapperAdminVars>>

(***************************************************************************)
(* Fuses and expiries                                                      *)
(***************************************************************************)
SetFuses(sender, n, fuses) ==
    LET burned == fuses \union Data(n).fuses IN
    /\ CanModifyName(n, sender)
    /\ CANNOT_BURN_FUSES \notin Data(n).fuses
    /\ CanFusesBeBurned(burned)
    /\ SetToken(n, [Data(n) EXCEPT !.fuses = burned])
    /\ UNCHANGED <<registryVars, registrarVars, approvals, wrapperAdminVars>>

\* The owner of the name may extend it only if the parent burned the permission.
ExtendExpiry(sender, n, expiry) ==
    /\ n # ROOT
    /\ IsWrapped(n)
    /\ \/ CanExtendSubnames(Parent[n], sender)
       \/ CanModifyName(n, sender) /\ CAN_EXTEND_EXPIRY \in Data(n).fuses
    /\ CanFusesBeBurned(Data(n).fuses)
    /\ SetToken(n, [Data(n) EXCEPT !.expiry = SubnameExpiry(n, expiry)])
    /\ UNCHANGED <<registryVars, registrarVars, approvals, wrapperAdminVars>>

\* Below the root the owner of the name itself stands in for the parent's.
SetChildFuses(sender, n, fuses, expiry) ==
    LET burned == fuses \union Data(n).fuses IN
    /\ n # ROOT
    /\ FusesAreSettable(fuses)
    /\ IsWrapped(n)
    /\ CanModifyName(IF Parent[n] = ROOT THEN n ELSE Parent[n], sender)
    /\ ParentFusesAllow(n, fuses)
    /\ PARENT_CANNOT_CONTROL \in Data(n).fuses => burned = Data(n).fuses
    /\ CanFusesBeBurned(burned)
    /\ SetToken(n, [owner |-> Data(n).owner, fuses |-> burned,
                    expiry |-> SubnameExpiry(n, expiry)])
    /\ UNCHANGED <<registryVars, registrarVars, approvals, wrapperAdminVars>>

(***************************************************************************)
(* Subnames                                                                *)
(***************************************************************************)
\* Slip: emancipation is not looked at.
CanCallSetSubnodeOwner_EvenEmancipated(n) ==
    Data(n).owner = NoAddr \/ Owner(n) = NoAddr
    => CANNOT_CREATE_SUBDOMAIN \notin Data(Parent[n]).fuses

\* Creating needs the parent's permission, replacing that the name is not
\* emancipated.  A deleted name counts as existing until its expiry.
CanCallSetSubnodeOwner(n) ==
    IF tokens[n].expiry < now /\ (Data(n).owner = NoAddr \/ Owner(n) = NoAddr)
    THEN CANNOT_CREATE_SUBDOMAIN \notin Data(Parent[n]).fuses
    ELSE PARENT_CANNOT_CONTROL \notin Data(n).fuses

CanSetSubnode(sender, n, fuses) ==
    /\ n # ROOT
    /\ CanModifyName(Parent[n], sender)
    /\ CanCallSetSubnodeOwner(n)
    /\ FusesAreSettable(fuses)
    /\ ParentFusesAllow(n, fuses)

\* _updateName: burn fuses and extend first, then transfer or delete the result.
UpdateName(n, owner, fuses, expiry, recs) ==
    LET t == [owner |-> Data(n).owner, fuses |-> Data(n).fuses \union fuses,
              expiry |-> expiry]
    IN
    /\ CanFusesBeBurned(t.fuses)
    /\ IF owner = NoAddr THEN UnwrapTo(n, t, NoAddr, recs)
                         ELSE TransferTo(n, t, t.owner, owner) /\ records' = recs

SetSubnodeOwnerWrapped(sender, n, owner, fuses, expiry) ==
    /\ CanSetSubnode(sender, n, fuses)
    /\ IF IsWrapped(n)
       THEN UpdateName(n, owner, fuses, SubnameExpiry(n, expiry), records)
       ELSE /\ Authorised(Parent[n], WRAPPER)
            /\ Mint(n, owner, fuses, SubnameExpiry(n, expiry))
            /\ records' = WithOwner(records, n, WRAPPER)
    /\ UNCHANGED <<operators, registrarVars, wrapperAdminVars>>

\* The record is written in both branches, before the token is touched.
SetSubnodeRecordWrapped(sender, n, owner, resolver, ttl, fuses, expiry) ==
    LET recs == WithRecord(records, n, WRAPPER, resolver, ttl) IN
    /\ CanSetSubnode(sender, n, fuses)
    /\ Authorised(Parent[n], WRAPPER)
    /\ IF IsWrapped(n)
       THEN UpdateName(n, owner, fuses, SubnameExpiry(n, expiry), recs)
       ELSE Mint(n, owner, fuses, SubnameExpiry(n, expiry)) /\ records' = recs
    /\ UNCHANGED <<operators, registrarVars, wrapperAdminVars>>

(***************************************************************************)
(* Registry records of wrapped names                                       *)
(***************************************************************************)
OperationAllowed(n, fuses) == Data(n).fuses \intersect fuses = {}

SetRecordWrapped(sender, n, owner, resolver, ttl) ==
    LET recs == WithRecord(records, n, WRAPPER, resolver, ttl) IN
    /\ CanModifyName(n, sender)
    /\ OperationAllowed(n, {CANNOT_TRANSFER, CANNOT_SET_RESOLVER, CANNOT_SET_TTL})
    /\ Authorised(n, WRAPPER)
    /\ IF owner = NoAddr
       THEN IS_DOT_ETH \notin Data(n).fuses /\ UnwrapTo(n, tokens[n], NoAddr, recs)
       ELSE TransferTo(n, tokens[n], Data(n).owner, owner) /\ records' = recs
    /\ UNCHANGED <<operators, registrarVars, wrapperAdminVars>>

SetResolverWrapped(sender, n, resolver) ==
    /\ CanModifyName(n, sender)
    /\ OperationAllowed(n, {CANNOT_SET_RESOLVER})
    /\ Authorised(n, WRAPPER)
    /\ records' = WithResolver(records, n, resolver)
    /\ UNCHANGED <<operators, registrarVars, wrapperVars>>

SetTTLWrapped(sender, n, ttl) ==
    /\ CanModifyName(n, sender)
    /\ OperationAllowed(n, {CANNOT_SET_TTL})
    /\ Authorised(n, WRAPPER)
    /\ records' = WithTTL(records, n, ttl)
    /\ UNCHANGED <<operators, registrarVars, wrapperVars>>

(***************************************************************************)
(* Administration                                                          *)
(***************************************************************************)
SetWrapperController(controller, active) ==
    /\ wrapperControllers' = IF active THEN wrapperControllers \union {controller}
                                       ELSE wrapperControllers \ {controller}
    /\ UNCHANGED <<registryVars, registrarVars, tokens, approvals, wrapperOperators,
                   upgradeContract>>

\* The old upgrade contract loses its approvals, the new one gets them.
SetUpgradeContract(contract) ==
    LET old == {<<WRAPPER, upgradeContract>>}
        new == IF contract = NoAddr THEN {} ELSE {<<WRAPPER, contract>>}
    IN
    /\ operators' = (operators \ old) \union new
    /\ tokenOperators' = (tokenOperators \ old) \union new
    /\ upgradeContract' = contract
    /\ UNCHANGED <<records, now, expiries, tokenOwner, tokenApproved, controllers,
                   tokens, approvals, wrapperOperators, wrapperControllers>>

(***************************************************************************)
(* The specification: the steps of the wrapper, and those of the registry  *)
(* and the registrar around it                                             *)
(***************************************************************************)
Names2LDStep ==
    \/ \E n \in Names, owner \in Targets, fuses \in OwnerFuseInputs, resolver \in Resolvers :
        \/ \E sender \in Senders :
            \/ WrapETH2LD(sender, n, owner, fuses, resolver)
            \/ OnERC721Received(sender, n, owner, fuses, resolver)
        \/ \E caller \in wrapperControllers, duration \in Durations :
            RegisterAndWrapETH2LD(caller, n, owner, duration, resolver, fuses)
    \/ \E caller \in wrapperControllers, n \in Names, duration \in Durations :
        RenewETH2LD(caller, n, duration)
    \/ \E sender \in Senders, n \in Names, registrant, controller \in Targets :
        UnwrapETH2LD(sender, n, registrant, controller)

TokenStep ==
    \E sender \in Senders :
        \/ \E n \in Nodes, owner \in Targets :
            \/ Approve(sender, n, owner)
            \/ SafeTransferFrom(sender, n, Data(n).owner, owner)
            \/ Unwrap(sender, n, owner)
            \/ \E resolver \in Resolvers : Wrap(sender, n, owner, resolver)
        \/ \E batch \in Batches, from \in Senders, to \in Targets :
            SafeBatchTransferFrom(sender, batch, from, to)
        \/ \E n \in Nodes : Upgrade(sender, n)
        \/ \E n \in Nodes, fuses \in OwnerFuseInputs : SetFuses(sender, n, fuses)
        \/ \E n \in Nodes, expiry \in ExpiryInputs : ExtendExpiry(sender, n, expiry)

SubnameStep ==
    \E sender \in Senders, n \in Nodes, fuses \in FuseInputs, expiry \in ExpiryInputs :
        \/ SetChildFuses(sender, n, fuses, expiry)
        \/ \E owner \in Targets :
            \/ SetSubnodeOwnerWrapped(sender, n, owner, fuses, expiry)
            \/ \E resolver \in Resolvers, ttl \in TTLs :
                SetSubnodeRecordWrapped(sender, n, owner, resolver, ttl, fuses, expiry)

RecordStep ==
    \E sender \in Senders, n \in Nodes :
        \/ \E owner \in Targets, resolver \in Resolvers, ttl \in TTLs :
            SetRecordWrapped(sender, n, owner, resolver, ttl)
        \/ \E resolver \in Resolvers : SetResolverWrapped(sender, n, resolver)
        \/ \E ttl \in TTLs : SetTTLWrapped(sender, n, ttl)

WrapperAdminStep ==
    \/ \E pair \in WrapperDelegations, approved \in BOOLEAN :
        SetWrapperApprovalForAll(pair[1], pair[2], approved)
    \/ \E controller \in ManagedWrapperControllers, active \in BOOLEAN :
        SetWrapperController(controller, active)
    \/ \E contract \in UpgradeContracts : SetUpgradeContract(contract)

WrapperNext == Names2LDStep \/ TokenStep \/ SubnameStep \/ RecordStep \/ WrapperAdminStep

Init == RegistryInit /\ RegistrarInit /\ WrapperInit

Next ==
    \/ WrapperNext
    \/ RegistrarNext /\ UNCHANGED wrapperVars

Spec == Init /\ [][Next]_vars
================================================================================
