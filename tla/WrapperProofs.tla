----------------------------- MODULE WrapperProofs -----------------------------
(***************************************************************************)
(* The safety of wrapped names, for every name tree, every set of accounts *)
(* and every grace period: WrapperInv is inductive, nobody reaches a       *)
(* bystander's name, and the documented lifecycle is implemented.  Then    *)
(* the records of names, wrapped or not, for any calls, keys, values and   *)
(* batches of any length: who can change them, that clearing is for good,  *)
(* and that DNS records are kept by name and type and counted.             *)
(*                                                                         *)
(* First type correctness, of the wrapper together with the registrar and  *)
(* the registry: every expiry the wrapper computes fits the 64 bits it is  *)
(* stored in, and no operation brings an undefined fuse into a fuse word.  *)
(*                                                                         *)
(* The parts of WrapperInv need each other.  Fuses stay burned because     *)
(* whoever could mint a name anew would have to get a locked name out of   *)
(* the wrapper (ProtectedIsHeld); a protected name stays in the wrapper    *)
(* because its parent does (EmancipatedUnderLocked); and a parent stays    *)
(* locked as long as the child is emancipated because it does not expire   *)
(* before the child (ExpiryHierarchy) and its fuses stay burned.           *)
(*                                                                         *)
(* The proof goes through TokenMove, what a step may do to one token.      *)
(* Every operation of the wrapper is shown to move the one token it is     *)
(* about in this way, and the invariant follows from TokenMove alone.      *)
(***************************************************************************)
EXTENDS WrapperProperties, PublicResolver, RegistrarProofs, FiniteSetTheorems, WellFoundedInduction

(***************************************************************************)
(* Facts about fuses, reads and computed expiries                          *)
(***************************************************************************)
LEMMA FuseFacts ==
    /\ OwnerControlledFuses \subseteq Fuses
    /\ PARENT_CONTROLLED_FUSES \subseteq Fuses
    /\ USER_SETTABLE_FUSES \subseteq Fuses
    /\ OwnerControlledFuses \intersect PARENT_CONTROLLED_FUSES = {}
    /\ {PARENT_CANNOT_CONTROL, IS_DOT_ETH, CAN_EXTEND_EXPIRY} \subseteq PARENT_CONTROLLED_FUSES
    /\ CANNOT_UNWRAP \in OwnerControlledFuses
<1>1. /\ OwnerControlledFuses \subseteq Fuses
      /\ PARENT_CONTROLLED_FUSES \subseteq Fuses
      /\ USER_SETTABLE_FUSES \subseteq Fuses
  BY DEF Fuses, USER_SETTABLE_FUSES
<1>2. OwnerControlledFuses \intersect PARENT_CONTROLLED_FUSES = {}
  BY DEF OwnerControlledFuses, PARENT_CONTROLLED_FUSES, CANNOT_UNWRAP, CANNOT_BURN_FUSES,
         CANNOT_TRANSFER, CANNOT_SET_RESOLVER, CANNOT_SET_TTL, CANNOT_CREATE_SUBDOMAIN,
         CANNOT_APPROVE, PARENT_CANNOT_CONTROL, IS_DOT_ETH, CAN_EXTEND_EXPIRY
<1> QED
  BY <1>1, <1>2 DEF OwnerControlledFuses, PARENT_CONTROLLED_FUSES

LEMMA ClearedType ==
    ASSUME NEW t \in Token
    PROVE  Cleared(t) \in Token /\ Cleared(t).fuses \subseteq t.fuses
                                /\ Cleared(t).expiry = t.expiry
  BY RegistryAssumption DEF Cleared, Token

LEMMA DataType ==
    ASSUME WrapperTypeOK, NEW n \in Nodes
    PROVE  tokens[n] \in Token /\ Data(n) \in Token
  BY ClearedType DEF WrapperTypeOK, Data

\* The normalised expiry of a subname is between its own and its parent's.
LEMMA SubnameExpiryBounds ==
    ASSUME WrapperTypeOK, NEW n \in Nodes \ {ROOT}, NEW expiry \in Nat
    PROVE  /\ SubnameExpiry(n, expiry) \in 0 .. MAX_EXPIRY
           /\ SubnameExpiry(n, expiry) >= tokens[n].expiry
           /\ \/ SubnameExpiry(n, expiry) <= tokens[Parent[n]].expiry
              \/ SubnameExpiry(n, expiry) = tokens[n].expiry
<1>1. Parent[n] \in Nodes
  BY RegistryAssumption
<1>2. tokens[n].expiry \in 0 .. MAX_EXPIRY /\ tokens[Parent[n]].expiry \in 0 .. MAX_EXPIRY
  BY <1>1 DEF WrapperTypeOK, Token
<1> QED
  BY <1>2, WrapperAssumption DEF SubnameExpiry, NormaliseExpiry, Larger, Smaller

(***************************************************************************)
(* The writes of a token                                                   *)
(***************************************************************************)
LEMMA MintType ==
    ASSUME WrapperTypeOK, NEW n \in Nodes, NEW owner, NEW fuses \in SUBSET Fuses,
           NEW expiry \in 0 .. MAX_EXPIRY, Mint(n, owner, fuses, expiry)
    PROVE  tokens' \in [Nodes -> Token] /\ approvals' \in [Nodes -> Addresses]
<1> USE RegistryAssumption, RegistrarAssumption
<1>1. tokens[n] \in Token
  BY DataType
<1>2. Larger(expiry, tokens[n].expiry) \in 0 .. MAX_EXPIRY
  BY <1>1 DEF Larger, Token
<1>3. owner \in Addresses
  BY DEF Mint
<1> DEFINE kept == IF tokens[n].expiry >= now
                   THEN fuses \union (tokens[n].fuses \intersect PARENT_CONTROLLED_FUSES)
                   ELSE fuses
<1>4. kept \subseteq Fuses
  BY <1>1, FuseFacts DEF Token
<1> HIDE DEF kept
<1>5. tokens' = [tokens EXCEPT ![n] = [owner |-> owner, fuses |-> kept,
                                       expiry |-> Larger(expiry, tokens[n].expiry)]]
  BY DEF Mint, SetToken, kept
<1>6. approvals' \in [Nodes -> Addresses]
  BY DEF Mint, ClearApproval, WrapperTypeOK
<1> QED
  BY <1>2, <1>3, <1>4, <1>5, <1>6 DEF WrapperTypeOK, Token

LEMMA BurnType ==
    ASSUME WrapperTypeOK, NEW n \in Nodes, NEW t \in Token, Burn(n, t)
    PROVE  tokens' \in [Nodes -> Token] /\ approvals' \in [Nodes -> Addresses]
<1>1. [Cleared(t) EXCEPT !.owner = NoAddr] \in Token
  BY ClearedType, RegistryAssumption DEF Token
<1> QED
  BY <1>1, RegistryAssumption DEF Burn, SetToken, ClearApproval, WrapperTypeOK

LEMMA UnwrapToType ==
    ASSUME WrapperTypeOK, NEW n \in Nodes, NEW t \in Token, NEW owner \in Addresses,
           NEW recs \in [Nodes -> Record], UnwrapTo(n, t, owner, recs)
    PROVE  /\ tokens' \in [Nodes -> Token] /\ approvals' \in [Nodes -> Addresses]
           /\ records' \in [Nodes -> Record]
  BY BurnType, RegistryAssumption DEF UnwrapTo, WithOwner, Record

LEMMA TransferToType ==
    ASSUME WrapperTypeOK, NEW n \in Nodes, NEW t \in Token, NEW from, NEW to,
           TransferTo(n, t, from, to)
    PROVE  tokens' \in [Nodes -> Token] /\ approvals' \in [Nodes -> Addresses]
<1>1. Cleared(t) \in Token
  BY ClearedType
<1>2. from = to \/ to \in Addresses
  BY RegistrarAssumption DEF TransferTo
<1>3. (IF from = to THEN t ELSE [Cleared(t) EXCEPT !.owner = to]) \in Token
  BY <1>1, <1>2 DEF Token
<1>4. tokens' = [tokens EXCEPT ![n] = IF from = to THEN t ELSE [Cleared(t) EXCEPT !.owner = to]]
  BY DEF TransferTo, SetToken
<1>5. approvals' \in [Nodes -> Addresses]
  BY RegistryAssumption DEF TransferTo, ClearApproval, WrapperTypeOK
<1> QED
  BY <1>3, <1>4, <1>5 DEF WrapperTypeOK

LEMMA WrapNameType ==
    ASSUME WrapperTypeOK, NEW n \in Nodes, NEW owner, NEW fuses \in OwnerFuseInputs,
           NEW expiry \in 0 .. MAX_EXPIRY, NEW resolver \in Resolvers,
           NEW recs \in [Nodes -> Record], WrapName(n, owner, fuses, expiry, resolver, recs)
    PROVE  /\ tokens' \in [Nodes -> Token] /\ approvals' \in [Nodes -> Addresses]
           /\ records' \in [Nodes -> Record]
<1>1. fuses \union {PARENT_CANNOT_CONTROL, IS_DOT_ETH} \subseteq Fuses
  BY FuseFacts, WrapperAssumption
<1>2. records' \in [Nodes -> Record]
  BY DEF WrapName, WithResolver, Record
<1> QED
  BY <1>1, <1>2, MintType DEF WrapName

LEMMA UpdateNameType ==
    ASSUME WrapperTypeOK, NEW n \in Nodes, NEW owner \in Addresses,
           NEW fuses \in SUBSET Fuses, NEW expiry \in 0 .. MAX_EXPIRY,
           NEW recs \in [Nodes -> Record], UpdateName(n, owner, fuses, expiry, recs)
    PROVE  /\ tokens' \in [Nodes -> Token] /\ approvals' \in [Nodes -> Addresses]
           /\ records' \in [Nodes -> Record]
<1> DEFINE t == [owner |-> Data(n).owner, fuses |-> Data(n).fuses \union fuses,
                 expiry |-> expiry]
<1>1. t \in Token
  BY DataType DEF Token
<1> HIDE DEF t
<1>2. \/ UnwrapTo(n, t, NoAddr, recs)
      \/ TransferTo(n, t, t.owner, owner) /\ records' = recs
  BY DEF UpdateName, t
<1> QED
  BY <1>1, <1>2, UnwrapToType, TransferToType, RegistryAssumption

(***************************************************************************)
(* The steps.  Each proof names the part of the state the step writes.     *)
(***************************************************************************)
LEMMA NamesTypeStep ==
    ASSUME TypeOK, Names2LDStep
    PROVE  TypeOK'
<1> USE RegistryAssumption, RegistrarAssumption, WrapperAssumption
<1> DEFINE Written == /\ records' \in [Nodes -> Record]
                      /\ tokens' \in [Nodes -> Token]
                      /\ approvals' \in [Nodes -> Addresses]
           Passed == /\ tokenOwner' \in [Names -> Addresses]
                   /\ tokenApproved' \in [Names -> Addresses]
                   /\ tokenOperators' \subseteq Addresses \X Addresses
<1>a. RegistryTypeOK /\ RegistrarTypeOK /\ WrapperTypeOK
  BY DEF TypeOK
<1>b. /\ \A id \in Names : id \in Nodes
      /\ \A id \in Names : WithOwner(records, id, WRAPPER) \in [Nodes -> Record]
  BY <1>a, RecordWrites DEF Names, RegistryTypeOK, WithOwner, Record
<1>c. \A id \in Names : expiries[id] + GRACE_PERIOD \in 0 .. MAX_EXPIRY
  BY <1>a DEF RegistrarTypeOK
<1>1. ASSUME NEW sender \in Senders, NEW n \in Names, NEW owner \in Targets,
             NEW fuses \in OwnerFuseInputs, NEW resolver \in Resolvers,
             \/ WrapETH2LD(sender, n, owner, fuses, resolver)
             \/ OnERC721Received(sender, n, owner, fuses, resolver)
      PROVE  TypeOK'
  <2>1. /\ MoveToken(n, WRAPPER)
        /\ WrapName(n, owner, fuses, expiries[n] + GRACE_PERIOD, resolver,
                    WithOwner(records, n, WRAPPER))
        /\ UNCHANGED <<operators, now, expiries, controllers, wrapperAdminVars>>
    BY <1>1 DEF WrapETH2LD, OnERC721Received
  <2>2. Passed
    BY <2>1, <1>a, MoveTokenType
  <2>3. Written
    BY <2>1, <1>a, <1>b, <1>c, WrapNameType
  <2> QED
    BY <2>1, <2>2, <2>3, <1>a
       DEF TypeOK, RegistryTypeOK, RegistrarTypeOK, WrapperTypeOK, wrapperAdminVars
<1>2. ASSUME NEW caller \in wrapperControllers, NEW n \in Names, NEW owner \in Targets,
             NEW duration \in Durations, NEW fuses \in OwnerFuseInputs,
             NEW resolver \in Resolvers,
             RegisterAndWrapETH2LD(caller, n, owner, duration, resolver, fuses)
      PROVE  TypeOK'
  <2>1. /\ CanRegister(WRAPPER, n, duration)
        /\ expiries' = [expiries EXCEPT ![n] = now + duration]
        /\ MoveToken(n, WRAPPER)
        /\ WrapName(n, owner, fuses, now + duration + GRACE_PERIOD, resolver,
                    WithOwner(records, n, WRAPPER))
        /\ UNCHANGED <<operators, now, controllers, wrapperAdminVars>>
    BY <1>2 DEF RegisterAndWrapETH2LD
  <2>2. Passed
    BY <2>1, <1>a, MoveTokenType
  <2>3. expiries' \in [Names -> 0 .. MaxExpiry]
    BY <2>1, <1>a, ExpiryType
  <2>4. now + duration + GRACE_PERIOD \in 0 .. MAX_EXPIRY
    BY <2>1, <1>a DEF CanRegister, RegistrarTypeOK
  <2>5. Written
    BY <2>1, <2>4, <1>a, <1>b, WrapNameType
  <2> QED
    BY <2>1, <2>2, <2>3, <2>5, <1>a
       DEF TypeOK, RegistryTypeOK, RegistrarTypeOK, WrapperTypeOK, wrapperAdminVars
<1>3. ASSUME NEW caller \in wrapperControllers, NEW n \in Names, NEW duration \in Durations,
             RenewETH2LD(caller, n, duration)
      PROVE  TypeOK'
  <2>1. /\ CanRenew(WRAPPER, n, duration)
        /\ expiries' = [expiries EXCEPT ![n] = @ + duration]
        /\ \/ tokens' = [tokens EXCEPT ![n] = [tokens[n] EXCEPT !.expiry = expiries[n] + duration + GRACE_PERIOD]]
           \/ tokens' = tokens
        /\ UNCHANGED <<registryVars, now, tokenOwner, tokenApproved, tokenOperators,
                       controllers, approvals, wrapperAdminVars>>
    BY <1>3, <1>a DEF RenewETH2LD, SetToken, RegistrarTypeOK
  <2>2. expiries' \in [Names -> 0 .. MaxExpiry]
    BY <2>1, <1>a, ExpiryType
  <2>3. expiries[n] + duration + GRACE_PERIOD \in 0 .. MAX_EXPIRY
    BY <2>1, <1>a DEF CanRenew, RegistrarTypeOK
  <2>4. tokens' \in [Nodes -> Token]
    BY <2>1, <2>3, <1>a, <1>b DEF WrapperTypeOK, Token
  <2> QED
    BY <2>1, <2>2, <2>4, <1>a
       DEF TypeOK, RegistryTypeOK, RegistrarTypeOK, WrapperTypeOK, wrapperAdminVars,
           registryVars
<1>4. ASSUME NEW sender \in Senders, NEW n \in Names, NEW registrant \in Targets,
             NEW controller \in Targets, UnwrapETH2LD(sender, n, registrant, controller)
      PROVE  TypeOK'
  <2>1. /\ UnwrapTo(n, tokens[n], controller, records)
        /\ MoveToken(n, registrant)
        /\ UNCHANGED <<operators, now, expiries, controllers, wrapperAdminVars>>
    BY <1>4 DEF UnwrapETH2LD
  <2>2. Passed
    BY <2>1, <1>a, MoveTokenType
  <2>3. Written
    BY <2>1, <1>a, <1>b, DataType, UnwrapToType DEF RegistryTypeOK
  <2> QED
    BY <2>1, <2>2, <2>3, <1>a
       DEF TypeOK, RegistryTypeOK, RegistrarTypeOK, WrapperTypeOK, wrapperAdminVars
<1> QED
  BY <1>1, <1>2, <1>3, <1>4 DEF Names2LDStep

LEMMA TokenTypeStep ==
    ASSUME TypeOK, TokenStep
    PROVE  TypeOK'
<1> USE RegistryAssumption, RegistrarAssumption, WrapperAssumption
<1> DEFINE Written == /\ tokens' \in [Nodes -> Token]
                      /\ approvals' \in [Nodes -> Addresses]
           Around == UNCHANGED <<registrarVars, operators, wrapperAdminVars>>
<1>a. RegistryTypeOK /\ RegistrarTypeOK /\ WrapperTypeOK
  BY DEF TypeOK
<1>b. ASSUME Written, Around, records' \in [Nodes -> Record]
      PROVE  TypeOK'
  BY <1>b, <1>a DEF TypeOK, RegistryTypeOK, RegistrarTypeOK, WrapperTypeOK, registrarVars,
                    tokenVars, wrapperAdminVars
<1>c. \A n \in Nodes : tokens[n] \in Token /\ Data(n) \in Token
  BY <1>a, DataType
<1>d. records \in [Nodes -> Record]
  BY <1>a DEF RegistryTypeOK
<1> PICK sender \in Senders :
        \/ \E n \in Nodes, owner \in Targets :
            \/ Approve(sender, n, owner)
            \/ SafeTransferFrom(sender, n, Data(n).owner, owner)
            \/ Unwrap(sender, n, owner)
            \/ \E resolver \in Resolvers : Wrap(sender, n, owner, resolver)
        \/ \E batch \in Batches, from \in Senders, to \in Targets :
            SafeBatchTransferFrom(sender, batch, from, to)
        \/ \E n \in Nodes : Upgrade(sender, n)
        \/ \E n \in Nodes, fuses \in OwnerFuseInputs : SetFuses(sender, n, fuses)
        \/ \E n \in Nodes, expiry \in ExpiryInputs : ExtendExpiry(sender, n, expiry)
  BY DEF TokenStep
<1>1. ASSUME NEW n \in Nodes, NEW owner \in Targets, Approve(sender, n, owner)
      PROVE  TypeOK'
  BY <1>1, <1>a, <1>b, <1>d DEF Approve, WrapperTypeOK, registryVars
<1>2. ASSUME NEW n \in Nodes, NEW owner \in Targets,
             SafeTransferFrom(sender, n, Data(n).owner, owner)
      PROVE  TypeOK'
  <2>1. Written
    BY <1>2, <1>a, <1>c, TransferToType DEF SafeTransferFrom
  <2> QED
    BY <1>2, <2>1, <1>b, <1>d DEF SafeTransferFrom, registryVars
<1>3. ASSUME NEW n \in Nodes, NEW owner \in Targets, Unwrap(sender, n, owner)
      PROVE  TypeOK'
  <2>1. Written /\ records' \in [Nodes -> Record]
    BY <1>3, <1>a, <1>c, <1>d, UnwrapToType DEF Unwrap
  <2> QED
    BY <1>3, <2>1, <1>b DEF Unwrap
<1>4. ASSUME NEW n \in Nodes, NEW owner \in Targets, NEW resolver \in Resolvers,
             Wrap(sender, n, owner, resolver)
      PROVE  TypeOK'
  <2>1. Written
    <3>1. Mint(n, owner, {}, 0) /\ {} \in SUBSET Fuses /\ 0 \in 0 .. MAX_EXPIRY
      BY <1>4 DEF Wrap
    <3> QED
      BY <3>1, <1>a, MintType
  <2>2. records' \in [Nodes -> Record]
    BY <1>4, <1>d DEF Wrap, WithOwner, WithResolver, Record
  <2> QED
    BY <1>4, <2>1, <2>2, <1>b DEF Wrap
<1>5. ASSUME NEW batch \in Batches, NEW from \in Senders, NEW to \in Targets,
             SafeBatchTransferFrom(sender, batch, from, to)
      PROVE  TypeOK'
  <2>1. ASSUME NEW n \in Nodes
        PROVE  [Data(n) EXCEPT !.owner = to] \in Token
    <3>1. Data(n) \in Token /\ to \in Addresses
      BY <1>c
    <3> QED
      BY <3>1 DEF Token
  <2>2. Written
    BY <1>5, <2>1, <1>a, <1>c DEF SafeBatchTransferFrom, WrapperTypeOK
  <2> QED
    BY <1>5, <2>2, <1>b, <1>d DEF SafeBatchTransferFrom, registryVars
<1>6. ASSUME NEW n \in Nodes, Upgrade(sender, n)
      PROVE  TypeOK'
  <2>1. Written
    BY <1>6, <1>a, <1>c, BurnType DEF Upgrade
  <2> QED
    BY <1>6, <2>1, <1>b, <1>d DEF Upgrade, registryVars
<1>7. ASSUME NEW n \in Nodes, NEW fuses \in OwnerFuseInputs, SetFuses(sender, n, fuses)
      PROVE  TypeOK'
  <2>1. [Data(n) EXCEPT !.fuses = fuses \union Data(n).fuses] \in Token
    BY <1>c, FuseFacts DEF Token
  <2>2. Written
    BY <1>7, <2>1, <1>a DEF SetFuses, SetToken, WrapperTypeOK
  <2> QED
    BY <1>7, <2>2, <1>b, <1>d DEF SetFuses, registryVars
<1>8. ASSUME NEW n \in Nodes, NEW expiry \in ExpiryInputs, ExtendExpiry(sender, n, expiry)
      PROVE  TypeOK'
  <2>1. SubnameExpiry(n, expiry) \in 0 .. MAX_EXPIRY
    BY <1>8, <1>a, SubnameExpiryBounds DEF ExtendExpiry
  <2>2. [Data(n) EXCEPT !.expiry = SubnameExpiry(n, expiry)] \in Token
    BY <2>1, <1>c DEF Token
  <2>3. Written
    BY <1>8, <2>2, <1>a DEF ExtendExpiry, SetToken, WrapperTypeOK
  <2> QED
    BY <1>8, <2>3, <1>b, <1>d DEF ExtendExpiry, registryVars
<1> QED
  BY <1>1, <1>2, <1>3, <1>4, <1>5, <1>6, <1>7, <1>8

LEMMA SubnameTypeStep ==
    ASSUME TypeOK, SubnameStep
    PROVE  TypeOK'
<1> USE RegistryAssumption, RegistrarAssumption, WrapperAssumption
<1> DEFINE Written == /\ tokens' \in [Nodes -> Token]
                      /\ approvals' \in [Nodes -> Addresses]
                      /\ records' \in [Nodes -> Record]
           Around == UNCHANGED <<registrarVars, operators, wrapperAdminVars>>
<1>a. RegistryTypeOK /\ RegistrarTypeOK /\ WrapperTypeOK
  BY DEF TypeOK
<1>b. ASSUME Written, Around
      PROVE  TypeOK'
  BY <1>b, <1>a DEF TypeOK, RegistryTypeOK, RegistrarTypeOK, WrapperTypeOK, registrarVars,
                    tokenVars, wrapperAdminVars
<1>d. records \in [Nodes -> Record]
  BY <1>a DEF RegistryTypeOK
<1> PICK sender \in Senders, n \in Nodes, fuses \in FuseInputs, expiry \in ExpiryInputs :
        \/ SetChildFuses(sender, n, fuses, expiry)
        \/ \E owner \in Targets :
            \/ SetSubnodeOwnerWrapped(sender, n, owner, fuses, expiry)
            \/ \E resolver \in Resolvers, ttl \in TTLs :
                SetSubnodeRecordWrapped(sender, n, owner, resolver, ttl, fuses, expiry)
  BY DEF SubnameStep
<1>c. n # ROOT /\ fuses \subseteq Fuses
  BY DEF SetChildFuses, SetSubnodeOwnerWrapped, SetSubnodeRecordWrapped, CanSetSubnode
<1>e. Data(n) \in Token /\ SubnameExpiry(n, expiry) \in 0 .. MAX_EXPIRY
  BY <1>a, <1>c, DataType, SubnameExpiryBounds
<1>1. CASE SetChildFuses(sender, n, fuses, expiry)
  <2>1. [owner |-> Data(n).owner, fuses |-> fuses \union Data(n).fuses,
         expiry |-> SubnameExpiry(n, expiry)] \in Token
    BY <1>c, <1>e DEF Token
  <2>2. Written
    BY <1>1, <2>1, <1>a, <1>d DEF SetChildFuses, SetToken, WrapperTypeOK, registryVars
  <2> QED
    BY <1>1, <2>2, <1>b DEF SetChildFuses, registryVars
<1>2. ASSUME NEW owner \in Targets, SetSubnodeOwnerWrapped(sender, n, owner, fuses, expiry)
      PROVE  TypeOK'
  <2>1. CASE IsWrapped(n)
    <3>1. UpdateName(n, owner, fuses, SubnameExpiry(n, expiry), records)
      BY <1>2, <2>1 DEF SetSubnodeOwnerWrapped
    <3>2. Written
      BY <3>1, <1>a, <1>c, <1>d, <1>e, UpdateNameType
    <3> QED
      BY <1>2, <3>2, <1>b DEF SetSubnodeOwnerWrapped
  <2>2. CASE ~IsWrapped(n)
    <3>1. /\ Mint(n, owner, fuses, SubnameExpiry(n, expiry))
          /\ records' = WithOwner(records, n, WRAPPER)
      BY <1>2, <2>2 DEF SetSubnodeOwnerWrapped
    <3>2. tokens' \in [Nodes -> Token] /\ approvals' \in [Nodes -> Addresses]
      BY <3>1, <1>a, <1>c, <1>e, MintType
    <3>3. records' \in [Nodes -> Record]
      BY <3>1, <1>d DEF WithOwner, Record
    <3> QED
      BY <1>2, <3>2, <3>3, <1>b DEF SetSubnodeOwnerWrapped
  <2> QED
    BY <2>1, <2>2
<1>3. ASSUME NEW owner \in Targets, NEW resolver \in Resolvers, NEW ttl \in TTLs,
             SetSubnodeRecordWrapped(sender, n, owner, resolver, ttl, fuses, expiry)
      PROVE  TypeOK'
  <2> DEFINE recs == WithRecord(records, n, WRAPPER, resolver, ttl)
  <2>1. recs \in [Nodes -> Record]
    BY <1>d, RecordWrites
  <2> HIDE DEF recs
  <2>2. \/ UpdateName(n, owner, fuses, SubnameExpiry(n, expiry), recs)
        \/ Mint(n, owner, fuses, SubnameExpiry(n, expiry)) /\ records' = recs
    BY <1>3 DEF SetSubnodeRecordWrapped, recs
  <2>3. Written
    BY <2>1, <2>2, <1>a, <1>c, <1>e, UpdateNameType, MintType
  <2> QED
    BY <1>3, <2>3, <1>b DEF SetSubnodeRecordWrapped
<1> QED
  BY <1>1, <1>2, <1>3

LEMMA RecordTypeStep ==
    ASSUME TypeOK, RecordStep
    PROVE  TypeOK'
<1> USE RegistryAssumption, RegistrarAssumption, WrapperAssumption
<1>a. RegistryTypeOK /\ RegistrarTypeOK /\ WrapperTypeOK
  BY DEF TypeOK
<1>b. ASSUME tokens' \in [Nodes -> Token], approvals' \in [Nodes -> Addresses],
             records' \in [Nodes -> Record],
             UNCHANGED <<registrarVars, operators, wrapperAdminVars>>
      PROVE  TypeOK'
  BY <1>b, <1>a DEF TypeOK, RegistryTypeOK, RegistrarTypeOK, WrapperTypeOK, registrarVars,
                    tokenVars, wrapperAdminVars
<1>c. \A n \in Nodes : tokens[n] \in Token
  BY <1>a, DataType
<1>d. records \in [Nodes -> Record]
  BY <1>a DEF RegistryTypeOK
<1>1. ASSUME NEW sender \in Senders, NEW n \in Nodes, NEW owner \in Targets,
             NEW resolver \in Resolvers, NEW ttl \in TTLs,
             SetRecordWrapped(sender, n, owner, resolver, ttl)
      PROVE  TypeOK'
  <2> DEFINE recs == WithRecord(records, n, WRAPPER, resolver, ttl)
  <2>1. recs \in [Nodes -> Record]
    BY <1>d, RecordWrites
  <2> HIDE DEF recs
  <2>2. \/ UnwrapTo(n, tokens[n], NoAddr, recs)
        \/ TransferTo(n, tokens[n], Data(n).owner, owner) /\ records' = recs
    BY <1>1 DEF SetRecordWrapped, recs
  <2>3. /\ tokens' \in [Nodes -> Token] /\ approvals' \in [Nodes -> Addresses]
        /\ records' \in [Nodes -> Record]
    BY <2>1, <2>2, <1>a, <1>c, UnwrapToType, TransferToType
  <2> QED
    BY <1>1, <2>3, <1>b DEF SetRecordWrapped
<1>2. ASSUME NEW sender \in Senders, NEW n \in Nodes, NEW resolver \in Resolvers,
             SetResolverWrapped(sender, n, resolver)
      PROVE  TypeOK'
  BY <1>2, <1>a, <1>b, <1>d, RecordWrites
     DEF SetResolverWrapped, wrapperVars, wrapperAdminVars, WrapperTypeOK, WithResolver, Record
<1>3. ASSUME NEW sender \in Senders, NEW n \in Nodes, NEW ttl \in TTLs,
             SetTTLWrapped(sender, n, ttl)
      PROVE  TypeOK'
  BY <1>3, <1>a, <1>b, <1>d
     DEF SetTTLWrapped, wrapperVars, wrapperAdminVars, WrapperTypeOK, WithTTL, Record
<1> QED
  BY <1>1, <1>2, <1>3 DEF RecordStep

LEMMA AdminTypeStep ==
    ASSUME TypeOK, WrapperAdminStep
    PROVE  TypeOK'
<1> USE RegistryAssumption, RegistrarAssumption, WrapperAssumption
<1>a. RegistryTypeOK /\ RegistrarTypeOK /\ WrapperTypeOK
  BY DEF TypeOK
<1>1. ASSUME NEW pair \in WrapperDelegations, NEW approved \in BOOLEAN,
             SetWrapperApprovalForAll(pair[1], pair[2], approved)
      PROVE  TypeOK'
  BY <1>1, <1>a DEF SetWrapperApprovalForAll, TypeOK, RegistryTypeOK, RegistrarTypeOK,
                    WrapperTypeOK, registryVars, registrarVars, tokenVars
<1>2. ASSUME NEW controller \in ManagedWrapperControllers, NEW active \in BOOLEAN,
             SetWrapperController(controller, active)
      PROVE  TypeOK'
  BY <1>2, <1>a DEF SetWrapperController, TypeOK, RegistryTypeOK, RegistrarTypeOK,
                    WrapperTypeOK, registryVars, registrarVars, tokenVars
<1>3. ASSUME NEW contract \in UpgradeContracts, SetUpgradeContract(contract)
      PROVE  TypeOK'
  BY <1>3, <1>a DEF SetUpgradeContract, TypeOK, RegistryTypeOK, RegistrarTypeOK,
                    WrapperTypeOK
<1> QED
  BY <1>1, <1>2, <1>3 DEF WrapperAdminStep

(***************************************************************************)
(* Type correctness                                                        *)
(***************************************************************************)
LEMMA TypeInit ==
    ASSUME Init
    PROVE  TypeOK
<1>1. RegistryTypeOK /\ RegistrarTypeOK
  BY RegistrarTypeInit DEF Init
<1>2. {PARENT_CANNOT_CONTROL, CANNOT_UNWRAP} \subseteq Fuses
  BY FuseFacts
<1>3. WrapperTypeOK
  BY <1>2, RegistryAssumption, WrapperAssumption DEF Init, WrapperInit, WrapperTypeOK, Token,
                                                             LockedForEver
<1> QED
  BY <1>1, <1>3 DEF TypeOK

LEMMA TypeStep ==
    ASSUME TypeOK, [Next]_vars
    PROVE  TypeOK'
<1>1. CASE RegistrarNext /\ UNCHANGED wrapperVars
  BY <1>1, RegistrarTypeStep DEF TypeOK, WrapperTypeOK, wrapperVars
<1>2. CASE UNCHANGED vars
  BY <1>2 DEF vars, registryVars, registrarVars, tokenVars, wrapperVars, TypeOK,
              RegistryTypeOK, RegistrarTypeOK, WrapperTypeOK
<1> QED
  BY <1>1, <1>2, NamesTypeStep, TokenTypeStep, SubnameTypeStep, RecordTypeStep,
     AdminTypeStep DEF Next, WrapperNext

\* Every variable of the three contracts keeps its type: in particular no expiry
\* leaves the 64 bits it is stored in, and no undefined fuse is ever burned.
THEOREM TypeCorrect == Spec => []TypeOK
  BY TypeInit, TypeStep, PTL DEF Spec

THEOREM WrapperTypeCorrect == Spec => []WrapperTypeOK
<1>1. TypeOK => WrapperTypeOK
  BY DEF TypeOK
<1> QED
  BY <1>1, TypeCorrect, PTL

(***************************************************************************)
(* What a step does to the token of n                                      *)
(***************************************************************************)
TokenMove(n) ==
    LET o == tokens[n]  t == tokens'[n] IN
    /\ t.expiry >= o.expiry
    /\ \/ t.expiry = o.expiry
       \/ n \in Subnodes \ Names /\ t.expiry <= tokens[Parent[n]].expiry
       \/ n \in Names /\ t.expiry = expiries'[n] + GRACE_PERIOD
    /\ CanFusesBeBurned(t.fuses)
    /\ o.expiry >= now => o.fuses \subseteq t.fuses
    /\ t.expiry >= now /\ PARENT_CANNOT_CONTROL \in t.fuses =>
          \/ o.expiry >= now /\ PARENT_CANNOT_CONTROL \in o.fuses
          \/ n # ROOT /\ CANNOT_UNWRAP \in Data(Parent[n]).fuses
    /\ n \in Names /\ CAN_EXTEND_EXPIRY \in t.fuses => CAN_EXTEND_EXPIRY \in o.fuses
    /\ IS_DOT_ETH \in t.fuses => PARENT_CANNOT_CONTROL \in t.fuses
    /\ n \in {ROOT, ETN} => t = o

\* What a step of the wrapper about n leaves alone.
OnlyAt(n) ==
    /\ now' = now
    /\ \A id \in Names : expiries'[id] >= expiries[id]
    /\ \A m \in Nodes \ {n} : /\ tokens'[m] = tokens[m]
                              /\ records'[m] = records[m]
                              /\ m \in Names => tokenOwner'[m] = tokenOwner[m]

\* A step is about one name, or it leaves all names in the state they are in.
OneStateMoves ==
    \/ \E n \in Subnodes : \A m \in Nodes \ {n} :
          tokens'[m] = tokens[m] /\ records'[m].owner = records[m].owner
    \/ \A m \in Nodes : StateOf(m)' = StateOf(m)

\* A step of the wrapper that keeps what the invariant says of tokens.
SafeStep ==
    /\ now' = now
    /\ \A id \in Names : expiries'[id] >= expiries[id]
    /\ \A n \in Nodes : TokenMove(n)
    /\ \A n \in Subnodes : Protected(n)' => Held(n)'
    /\ \A n \in {ROOT, ETN} : records'[n].owner = records[n].owner
    /\ OneStateMoves

(***************************************************************************)
(* Facts about the name tree and about the names nobody controls           *)
(***************************************************************************)
LEMMA TreeFacts ==
    /\ Names \subseteq Subnodes /\ Subnodes \subseteq Nodes
    /\ ETN # ROOT /\ ETN \notin Names /\ ROOT \notin Names
    /\ \A n \in Nodes \ {ROOT} : Parent[n] \in Nodes
    /\ \A n \in Names : Parent[n] = ETN
  BY RegistryAssumption, RegistrarAssumption DEF Names, Subnodes

\* The expiry and the clock are numbers.
LEMMA Numbers ==
    ASSUME WrapperInv
    PROVE  /\ now \in Nat /\ now <= MAX_EXPIRY /\ GRACE_PERIOD \in Nat /\ MAX_EXPIRY \in Nat
           /\ \A n \in Nodes : /\ tokens[n].expiry \in 0 .. MAX_EXPIRY
                               /\ tokens[n].fuses \subseteq Fuses
           /\ \A id \in Names : expiries[id] \in Nat
<1>1. WrapperTypeOK /\ RegistrarTypeOK
  BY DEF WrapperInv, TypeOK
<1> QED
  BY <1>1, RegistrarAssumption, WrapperAssumption DEF WrapperTypeOK, RegistrarTypeOK, Token

\* Whoever acts on a name through the wrapper acts for an owner that exists; the
\* root and the TLD have none.
LEMMA Control ==
    ASSUME WrapperInv, NEW sender \in Senders, NEW n \in Nodes
    PROVE  /\ OwnerOrOperator(Data(n).owner, sender) =>
                Data(n).owner # NoAddr /\ n \in Subnodes
           /\ CanModifyName(n, sender) => Data(n).owner # NoAddr /\ n \in Subnodes
           /\ CanExtendSubnames(n, sender) => Data(n).owner # NoAddr /\ n \in Subnodes
           /\ n \in {ROOT, ETN} => Data(n).owner = NoAddr /\ CANNOT_UNWRAP \in Data(n).fuses
<1> USE RegistryAssumption
<1>1. OwnerOrOperator(Data(n).owner, sender) => Data(n).owner # NoAddr
  BY DEF WrapperInv, DelegationsKnown, OwnerOrOperator
<1>2. n \in {ROOT, ETN} => Data(n).owner = NoAddr /\ CANNOT_UNWRAP \in Data(n).fuses
  BY Numbers DEF WrapperInv, TLDsHeld, LockedForEver, Data, Cleared
<1>3. GetApproved(n) = sender => Data(n).owner # NoAddr
  BY DEF GetApproved
<1> QED
  BY <1>1, <1>2, <1>3 DEF CanModifyName, CanExtendSubnames, Subnodes

\* No account speaks in the registry or the registrar for what the wrapper holds,
\* nor for the root, the TLD and the registrar.
LEMMA NobodySpeaks ==
    ASSUME WrapperInv, NEW sender \in Senders
    PROVE  /\ \A n \in Nodes : records[n].owner = WRAPPER => ~Authorised(n, sender)
           /\ ~Authorised(ROOT, sender) /\ ~Authorised(ETN, sender)
           /\ \A n \in Nodes : Owner(n) = WRAPPER \/ n = ETN =>
                Owner(n) # sender /\ <<Owner(n), sender>> \notin operators
           /\ \A id \in Names : tokenOwner[id] = WRAPPER =>
                /\ ~IsApprovedOrOwner(sender, id)
                /\ sender # tokenOwner[id] /\ <<tokenOwner[id], sender>> \notin tokenOperators
  BY RegistryAssumption, RegistrarAssumption, WrapperAssumption, DeploymentAssumption
     DEF WrapperInv, TLDsHeld, DelegationsKnown, Authorised, IsApprovedOrOwner, Owner

\* A token that does not change moves as allowed.
LEMMA Unmoved ==
    ASSUME WrapperInv, NEW n \in Nodes, tokens'[n] = tokens[n]
    PROVE  TokenMove(n)
<1>1. tokens[n].expiry \in Nat
  BY Numbers
<1> QED
  BY <1>1 DEF TokenMove, WrapperInv, FuseInvariant, DotEthIsEmancipated

\* It is enough to look at the name the step is about.
LEMMA OneName ==
    ASSUME WrapperInv, NEW n \in Subnodes, OnlyAt(n), TokenMove(n),
           Protected(n)' => Held(n)'
    PROVE  SafeStep
<1>1. \A m \in Nodes : TokenMove(m)
  BY Unmoved DEF OnlyAt
<1>2. ASSUME NEW m \in Subnodes, Protected(m)'
      PROVE  Held(m)'
  <2>1. CASE m = n
    BY <1>2, <2>1
  <2>2. CASE m # n
    <3>1. tokens'[m] = tokens[m] /\ records'[m] = records[m] /\ now' = now
          /\ (m \in Names => tokenOwner'[m] = tokenOwner[m])
      BY <2>2, TreeFacts DEF OnlyAt
    <3>2. Protected(m)
      BY <1>2, <3>1 DEF Protected, Locked, Emancipated, Burned, Data, Cleared
    <3>3. Held(m)
      BY <3>2 DEF WrapperInv, ProtectedIsHeld
    <3> QED
      BY <3>1, <3>3 DEF Held
  <2> QED
    BY <2>1, <2>2
<1>3. ROOT \in Nodes /\ ETN \in Nodes /\ ROOT # n /\ ETN # n
  BY RegistryAssumption, RegistrarAssumption DEF Subnodes
<1> QED
  BY <1>1, <1>2, <1>3 DEF SafeStep, OneStateMoves, OnlyAt

(***************************************************************************)
(* The writes of a token move it as allowed                                *)
(***************************************************************************)
\* Burning fuses the parent's may allow, extending within the parent's expiry, and
\* writing out what has expired; F = {} for a transfer or a burn.
LEMMA Rewritten ==
    ASSUME WrapperInv, NEW n \in Subnodes, NEW F \in SUBSET Fuses, NEW t \in Token,
           CanFusesBeBurned(Data(n).fuses \union F), ParentFusesAllow(n, F),
           n \in Names => CAN_EXTEND_EXPIRY \notin F, IS_DOT_ETH \notin F,
           \/ t.expiry = tokens[n].expiry
           \/ /\ n \notin Names /\ t.expiry >= tokens[n].expiry
              /\ t.expiry <= tokens[Parent[n]].expiry,
           t.fuses = Data(n).fuses \union F \/ (t.expiry < now /\ t.fuses = {}),
           tokens'[n] = t
    PROVE  TokenMove(n)
<1> DEFINE o == tokens[n]
<1>a. /\ o.expiry \in Nat /\ now \in Nat /\ t.expiry \in Nat
      /\ n \in Nodes /\ n # ROOT /\ n # ETN
  BY Numbers, TreeFacts DEF Subnodes, Token
<1>b. Data(n).fuses = IF o.expiry < now THEN {} ELSE o.fuses
  BY DEF Data, Cleared
<1>1. t.expiry >= o.expiry
  BY <1>a
<1>2. CanFusesBeBurned(t.fuses)
  BY DEF CanFusesBeBurned
<1>3. o.expiry >= now => o.fuses \subseteq t.fuses
  BY <1>a, <1>b, <1>1
<1>4. ASSUME t.expiry >= now, PARENT_CANNOT_CONTROL \in t.fuses
      PROVE  \/ o.expiry >= now /\ PARENT_CANNOT_CONTROL \in o.fuses
             \/ n # ROOT /\ CANNOT_UNWRAP \in Data(Parent[n]).fuses
  <2>1. PARENT_CANNOT_CONTROL \in Data(n).fuses \/ PARENT_CANNOT_CONTROL \in F
    BY <1>4, <1>a
  <2> QED
    BY <2>1, <1>a, <1>b, FuseFacts DEF ParentFusesAllow
<1>5. n \in Names /\ CAN_EXTEND_EXPIRY \in t.fuses => CAN_EXTEND_EXPIRY \in o.fuses
  BY <1>b
<1>6. \/ t.expiry = o.expiry
      \/ n \in Subnodes \ Names /\ t.expiry <= tokens[Parent[n]].expiry
  OBVIOUS
<1>7. IS_DOT_ETH \in t.fuses => PARENT_CANNOT_CONTROL \in t.fuses
  BY <1>a, <1>b DEF WrapperInv, DotEthIsEmancipated
<1> QED
  BY <1>1, <1>2, <1>3, <1>4, <1>5, <1>6, <1>7, <1>a DEF TokenMove

\* A name that is not both emancipated and locked has no permission of its owner to
\* lose.
LEMMA NothingToLose ==
    ASSUME WrapperInv, NEW n \in Nodes,
           ~({PARENT_CANNOT_CONTROL, CANNOT_UNWRAP} \subseteq Data(n).fuses)
    PROVE  tokens[n].expiry >= now => tokens[n].fuses \subseteq PARENT_CONTROLLED_FUSES
<1> SUFFICES ASSUME tokens[n].expiry >= now
             PROVE  tokens[n].fuses \subseteq PARENT_CONTROLLED_FUSES
  OBVIOUS
<1>1. Data(n).fuses = tokens[n].fuses
  BY Numbers DEF Data, Cleared
<1>2. CanFusesBeBurned(tokens[n].fuses)
  BY DEF WrapperInv, FuseInvariant
<1>3. tokens[n].fuses \intersect OwnerControlledFuses = {}
  BY <1>1, <1>2 DEF CanFusesBeBurned
<1>4. tokens[n].fuses \subseteq OwnerControlledFuses \union PARENT_CONTROLLED_FUSES
  BY Numbers DEF Fuses
<1> QED
  BY <1>3, <1>4

\* Minting anew, which keeps the fuses of the parent and drops those of the owner.
LEMMA Minted ==
    ASSUME WrapperInv, NEW n \in Subnodes, NEW owner, NEW F \in SUBSET Fuses,
           NEW e \in 0 .. MAX_EXPIRY, Mint(n, owner, F, e),
           tokens[n].expiry >= now => tokens[n].fuses \subseteq PARENT_CONTROLLED_FUSES,
           n \in Names \/ ParentFusesAllow(n, F),
           n \in Names => CAN_EXTEND_EXPIRY \notin F,
           IS_DOT_ETH \in F => PARENT_CANNOT_CONTROL \in F,
           \/ e <= tokens[n].expiry
           \/ n \notin Names /\ e <= tokens[Parent[n]].expiry
           \/ n \in Names /\ e = expiries'[n] + GRACE_PERIOD
    PROVE  TokenMove(n)
<1> DEFINE o == tokens[n]
           kept == IF o.expiry >= now THEN F \union (o.fuses \intersect PARENT_CONTROLLED_FUSES)
                                      ELSE F
<1>a. /\ o.expiry \in Nat /\ now \in Nat /\ e \in Nat /\ o.fuses \subseteq Fuses
      /\ n \in Nodes /\ n # ROOT /\ n # ETN
      /\ tokens \in [Nodes -> Token]
  BY Numbers, TreeFacts, WrapperAssumption DEF Subnodes, WrapperInv, TypeOK, WrapperTypeOK
<1>b. tokens'[n] = [owner |-> owner, fuses |-> kept, expiry |-> Larger(e, o.expiry)]
  BY <1>a DEF Mint, SetToken
<1> HIDE DEF kept
<1>1. /\ Larger(e, o.expiry) >= o.expiry
      /\ Larger(e, o.expiry) = o.expiry \/ (Larger(e, o.expiry) = e /\ ~(e <= o.expiry))
  BY <1>a DEF Larger
<1>2. CanFusesBeBurned(kept)
  BY FuseFacts DEF kept, Mint, CanFusesBeBurned
<1>3. o.expiry >= now => o.fuses \subseteq kept
  BY DEF kept
<1>4. ASSUME PARENT_CANNOT_CONTROL \in kept
      PROVE  \/ o.expiry >= now /\ PARENT_CANNOT_CONTROL \in o.fuses
             \/ n # ROOT /\ CANNOT_UNWRAP \in Data(Parent[n]).fuses
  <2>1. (o.expiry >= now /\ PARENT_CANNOT_CONTROL \in o.fuses) \/ PARENT_CANNOT_CONTROL \in F
    BY <1>4 DEF kept
  <2>2. n \in Names => CANNOT_UNWRAP \in Data(Parent[n]).fuses
    <3>1. n \in Names => Parent[n] = ETN /\ ETN \in Nodes
      BY TreeFacts, RegistrarAssumption
    <3>2. CANNOT_UNWRAP \in Data(ETN).fuses
      BY Numbers, RegistrarAssumption DEF WrapperInv, TLDsHeld, LockedForEver, Data, Cleared
    <3> QED
      BY <3>1, <3>2
  <2> QED
    BY <2>1, <2>2, <1>a, FuseFacts DEF ParentFusesAllow
<1>5. n \in Names /\ CAN_EXTEND_EXPIRY \in kept => CAN_EXTEND_EXPIRY \in o.fuses
  BY DEF kept
<1>6. \/ Larger(e, o.expiry) = o.expiry
      \/ n \in Subnodes \ Names /\ Larger(e, o.expiry) <= tokens[Parent[n]].expiry
      \/ n \in Names /\ Larger(e, o.expiry) = expiries'[n] + GRACE_PERIOD
  BY <1>1
<1>7. IS_DOT_ETH \in kept => PARENT_CANNOT_CONTROL \in kept
  BY <1>a, FuseFacts DEF kept, WrapperInv, DotEthIsEmancipated
<1> QED
  BY <1>1, <1>2, <1>3, <1>4, <1>5, <1>6, <1>7, <1>a, <1>b DEF TokenMove

\* A name whose token is burned is no longer protected, unless it is locked.
LEMMA BurnedUnprotected ==
    ASSUME WrapperTypeOK, now' = now, NEW n \in Nodes, NEW t \in Token, Burn(n, t),
           CANNOT_UNWRAP \notin Cleared(t).fuses
    PROVE  ~Protected(n)'
<1>1. tokens'[n] = [Cleared(t) EXCEPT !.owner = NoAddr]
  BY DEF Burn, SetToken, WrapperTypeOK
<1>2. Data(n)'.owner = NoAddr /\ Data(n)'.fuses \subseteq Cleared(t).fuses
  BY <1>1, ClearedType DEF Data, Cleared, Token
<1> QED
  BY <1>2 DEF Protected, Locked, Burned

(***************************************************************************)
(* Composed writes                                                         *)
(***************************************************************************)
\* A step that touches neither tokens nor owners.
LEMMA QuietStep ==
    ASSUME WrapperInv, UNCHANGED <<now, expiries, tokens, tokenOwner>>,
           \A n \in Nodes : records'[n].owner = records[n].owner
    PROVE  SafeStep
<1>1. \A n \in Nodes : TokenMove(n)
  BY Unmoved
<1>2. ASSUME NEW n \in Subnodes, Protected(n)'
      PROVE  Held(n)'
  <2>1. Protected(n)
    BY <1>2 DEF Protected, Locked, Emancipated, Burned, Data, Cleared
  <2> QED
    BY <2>1, TreeFacts DEF WrapperInv, ProtectedIsHeld, Held
<1>3. \A id \in Names : expiries'[id] >= expiries[id]
  BY Numbers
<1>4. OneStateMoves
  BY DEF OneStateMoves, StateOf, IsWrapped, Owner, Locked, Emancipated, Burned, Data, Cleared
<1> QED
  BY <1>1, <1>2, <1>3, <1>4, RegistryAssumption, RegistrarAssumption DEF SafeStep

\* A name with an owner that burns nothing stays where it is.
LEMMA HeldStays ==
    ASSUME WrapperInv, NEW n \in Subnodes, OnlyAt(n), Data(n).owner # NoAddr,
           Data(n)'.fuses \subseteq Data(n).fuses,
           records'[n].owner \in {records[n].owner, WRAPPER},
           n \in Names => tokenOwner'[n] = tokenOwner[n]
    PROVE  Protected(n)' => Held(n)'
<1> SUFFICES ASSUME Protected(n)'
             PROVE  Held(n)'
  OBVIOUS
<1>1. Protected(n)
  BY DEF Protected, Locked, Emancipated, Burned
<1>2. Held(n)
  BY <1>1 DEF WrapperInv, ProtectedIsHeld
<1> QED
  BY <1>2 DEF Held

\* Taking a name out of the wrapper, after burning the fuses F.
LEMMA UnwrapSafe ==
    ASSUME WrapperInv, NEW n \in Subnodes, OnlyAt(n), NEW F \in SUBSET Fuses, NEW t \in Token,
           NEW owner, NEW recs, UnwrapTo(n, t, owner, recs),
           CanFusesBeBurned(Data(n).fuses \union F), ParentFusesAllow(n, F),
           n \in Names => CAN_EXTEND_EXPIRY \notin F, IS_DOT_ETH \notin F,
           \/ t.expiry = tokens[n].expiry
           \/ /\ n \notin Names /\ t.expiry >= tokens[n].expiry
              /\ t.expiry <= tokens[Parent[n]].expiry,
           Cleared(t).fuses = Data(n).fuses \union F \/ (t.expiry < now /\ Cleared(t).fuses = {})
    PROVE  SafeStep
<1> DEFINE u == [Cleared(t) EXCEPT !.owner = NoAddr]
<1>1. n \in Nodes /\ WrapperTypeOK /\ now' = now
  BY TreeFacts DEF WrapperInv, TypeOK, OnlyAt
<1>2. u \in Token /\ u.expiry = t.expiry /\ u.fuses = Cleared(t).fuses
  BY ClearedType, RegistryAssumption DEF Token
<1>3. tokens'[n] = u
  BY <1>1 DEF UnwrapTo, Burn, SetToken, WrapperTypeOK
<1> HIDE DEF u
<1>4. TokenMove(n)
  BY <1>2, <1>3, Rewritten
<1>5. ~Protected(n)'
  BY <1>1, BurnedUnprotected DEF UnwrapTo
<1> QED
  BY <1>4, <1>5, OneName

\* Passing a token on as it stands.
LEMMA TransferSafe ==
    ASSUME WrapperInv, NEW n \in Subnodes, OnlyAt(n), NEW to,
           TransferTo(n, tokens[n], Data(n).owner, to), Data(n).owner # NoAddr,
           records'[n].owner \in {records[n].owner, WRAPPER},
           n \in Names => tokenOwner'[n] = tokenOwner[n]
    PROVE  SafeStep
<1> DEFINE t == IF Data(n).owner = to THEN tokens[n] ELSE [Data(n) EXCEPT !.owner = to]
<1>1. n \in Nodes /\ WrapperTypeOK /\ now' = now
  BY TreeFacts DEF WrapperInv, TypeOK, OnlyAt
<1>2. tokens[n] \in Token /\ Data(n) \in Token /\ Data(n).expiry = tokens[n].expiry
  BY <1>1, DataType, ClearedType DEF Data
<1>3. tokens'[n] = t
  BY <1>1 DEF TransferTo, SetToken, WrapperTypeOK, Data
<1>4. t \in Token
  BY <1>2, RegistrarAssumption DEF TransferTo, Token
<1>5. Data(n)'.fuses \subseteq Data(n).fuses
  BY <1>1, <1>2, <1>3 DEF Data, Cleared
<1>6. TokenMove(n)
  <2>1. CASE t = tokens[n]
    BY <1>1, <1>3, <2>1, Unmoved
  <2>2. CASE t = [Data(n) EXCEPT !.owner = to]
    <3>1. t.expiry = tokens[n].expiry /\ t.fuses = Data(n).fuses \union {}
      BY <1>2, <2>2 DEF Token
    <3>2. CanFusesBeBurned(Data(n).fuses \union {})
      BY <1>1 DEF Data, Cleared, WrapperInv, FuseInvariant, CanFusesBeBurned
    <3>3. ParentFusesAllow(n, {})
      BY DEF ParentFusesAllow
    <3> HIDE DEF t
    <3> QED
      BY <1>3, <1>4, <3>1, <3>2, <3>3, Rewritten
  <2> QED
    BY <2>1, <2>2
<1> QED
  BY <1>5, <1>6, HeldStays, OneName

(***************************************************************************)
(* The operations on .etn names                                            *)
(***************************************************************************)
\* Issuing the token of a .etn name the wrapper has just received.
LEMMA WrapNameSafe ==
    ASSUME WrapperInv, NEW n \in Names, NEW owner, NEW fuses \in OwnerFuseInputs,
           NEW resolver \in Resolvers, NEW e \in 0 .. MAX_EXPIRY,
           WrapName(n, owner, fuses, e, resolver, WithOwner(records, n, WRAPPER)),
           tokens[n].expiry >= now => tokens[n].fuses \subseteq PARENT_CONTROLLED_FUSES,
           e = expiries'[n] + GRACE_PERIOD,
           \A id \in Names : expiries'[id] >= expiries[id],
           MoveToken(n, WRAPPER), now' = now
    PROVE  SafeStep
<1> DEFINE F == fuses \union {PARENT_CANNOT_CONTROL, IS_DOT_ETH}
<1>1. n \in Subnodes /\ n \in Nodes
  BY TreeFacts
<1>2. records \in [Nodes -> Record] /\ tokens \in [Nodes -> Token]
      /\ tokenOwner \in [Names -> Addresses]
  BY DEF WrapperInv, TypeOK, RegistryTypeOK, RegistrarTypeOK, WrapperTypeOK
<1>3. F \subseteq Fuses /\ CAN_EXTEND_EXPIRY \notin F
  <2>1. fuses \subseteq OwnerControlledFuses
    BY WrapperAssumption
  <2> QED
    BY <2>1, FuseFacts DEF PARENT_CANNOT_CONTROL, IS_DOT_ETH, CAN_EXTEND_EXPIRY
<1>4. Mint(n, owner, F, e)
  BY DEF WrapName
<1>b. PARENT_CANNOT_CONTROL \in F
  OBVIOUS
<1> HIDE DEF F
<1>5. TokenMove(n)
  BY <1>1, <1>3, <1>4, <1>b, Minted
<1>6. /\ records'[n].owner = WRAPPER
      /\ \A m \in Nodes \ {n} : records'[m] = records[m]
  BY <1>1, <1>2 DEF WrapName, WithOwner, WithResolver, Record
<1>7. /\ tokenOwner'[n] = WRAPPER
      /\ \A m \in Names \ {n} : tokenOwner'[m] = tokenOwner[m]
  BY <1>2 DEF MoveToken
<1>8. OnlyAt(n)
  BY <1>1, <1>2, <1>4, <1>6, <1>7 DEF OnlyAt, Mint, SetToken
<1>9. Held(n)'
  BY <1>6, <1>7 DEF Held
<1> QED
  BY <1>1, <1>5, <1>8, <1>9, OneName

LEMMA NamesSafe ==
    ASSUME WrapperInv, Names2LDStep
    PROVE  SafeStep
<1> USE RegistryAssumption, RegistrarAssumption, WrapperAssumption
<1>a. RegistryTypeOK /\ RegistrarTypeOK /\ WrapperTypeOK
  BY DEF WrapperInv, TypeOK
<1>b. \A id \in Names : expiries[id] + GRACE_PERIOD \in 0 .. MAX_EXPIRY
  BY <1>a DEF RegistrarTypeOK
<1>c. ASSUME NEW n \in Names, tokenOwner[n] # WRAPPER
      PROVE  tokens[n].expiry >= now => tokens[n].fuses \subseteq PARENT_CONTROLLED_FUSES
  <2>1. ~Held(n)
    BY <1>c DEF Held
  <2>2. ~Protected(n)
    BY <2>1, TreeFacts DEF WrapperInv, ProtectedIsHeld
  <2> QED
    BY <2>2, TreeFacts, NothingToLose DEF Protected, Locked, Burned
<1>1. ASSUME NEW sender \in Senders, NEW n \in Names, NEW owner \in Targets,
             NEW fuses \in OwnerFuseInputs, NEW resolver \in Resolvers,
             \/ WrapETH2LD(sender, n, owner, fuses, resolver)
             \/ OnERC721Received(sender, n, owner, fuses, resolver)
      PROVE  SafeStep
  <2>1. /\ MoveToken(n, WRAPPER)
        /\ WrapName(n, owner, fuses, expiries[n] + GRACE_PERIOD, resolver,
                    WithOwner(records, n, WRAPPER))
        /\ UNCHANGED <<now, expiries>>
    BY <1>1 DEF WrapETH2LD, OnERC721Received
  <2>2. tokenOwner[n] # WRAPPER
    BY <1>1, NobodySpeaks DEF WrapETH2LD, OnERC721Received
  <2>3. \A id \in Names : expiries'[id] >= expiries[id]
    BY <2>1, Numbers
  <2> QED
    BY <2>1, <2>2, <2>3, <1>b, <1>c, WrapNameSafe
<1>2. ASSUME NEW caller \in wrapperControllers, NEW n \in Names, NEW owner \in Targets,
             NEW duration \in Durations, NEW fuses \in OwnerFuseInputs,
             NEW resolver \in Resolvers,
             RegisterAndWrapETH2LD(caller, n, owner, duration, resolver, fuses)
      PROVE  SafeStep
  <2>1. /\ CanRegister(WRAPPER, n, duration)
        /\ expiries' = [expiries EXCEPT ![n] = now + duration]
        /\ MoveToken(n, WRAPPER)
        /\ WrapName(n, owner, fuses, now + duration + GRACE_PERIOD, resolver,
                    WithOwner(records, n, WRAPPER))
        /\ UNCHANGED now
    BY <1>2 DEF RegisterAndWrapETH2LD
  <2>2. /\ expiries'[n] = now + duration /\ expiries'[n] + GRACE_PERIOD \in 0 .. MAX_EXPIRY
        /\ \A id \in Names : expiries'[id] >= expiries[id]
    BY <2>1, <1>a, Numbers DEF CanRegister, Available, RegistrarTypeOK
  <2>3. tokens[n].expiry < now
    <3>1. tokens[n].expiry <= expiries[n] + GRACE_PERIOD
      BY DEF WrapperInv, RegistrationCoversToken
    <3>2. tokens[n].expiry \in Nat
      BY TreeFacts, Numbers
    <3> QED
      BY <2>1, <3>1, <3>2, Numbers DEF CanRegister, Available
  <2>4. tokens[n].expiry >= now => tokens[n].fuses \subseteq PARENT_CONTROLLED_FUSES
    BY <2>3, Numbers, TreeFacts
  <2> QED
    BY <2>1, <2>2, <2>4, WrapNameSafe
<1>3. ASSUME NEW caller \in wrapperControllers, NEW n \in Names, NEW duration \in Durations,
             RenewETH2LD(caller, n, duration)
      PROVE  SafeStep
  <2> DEFINE e == expiries[n] + duration + GRACE_PERIOD
             renewed == [tokens[n] EXCEPT !.expiry = e]
  <2>1. /\ expiries' = [expiries EXCEPT ![n] = @ + duration]
        /\ \/ /\ tokenOwner[n] = WRAPPER /\ Owner(n) = WRAPPER
              /\ tokens' = [tokens EXCEPT ![n] = renewed]
           \/ tokens' = tokens
        /\ UNCHANGED <<registryVars, now, tokenOwner>>
    BY <1>3 DEF RenewETH2LD, SetToken
  <2>2. n \in Nodes /\ n \in Subnodes /\ Parent[n] = ETN /\ n # ROOT /\ n # ETN
        /\ expiries \in [Names -> Nat] /\ duration \in Nat /\ tokens[n] \in Token
    BY <1>a, TreeFacts, DataType DEF RegistrarTypeOK
  <2>3. expiries'[n] + GRACE_PERIOD = e /\ \A id \in Names : expiries'[id] >= expiries[id]
    BY <2>1, <2>2
  <2>4. OnlyAt(n)
    BY <2>1, <2>2, <2>3, <1>a DEF OnlyAt, registryVars, WrapperTypeOK
  <2>5. CASE tokens' = tokens
    <3>1. Protected(n)' => Protected(n)
      BY <2>1, <2>5 DEF Protected, Locked, Emancipated, Burned, Data, Cleared
    <3>2. Protected(n)' => Held(n)'
      BY <3>1, <2>1, <2>2 DEF WrapperInv, ProtectedIsHeld, Held, registryVars
    <3> QED
      BY <3>2, <2>2, <2>4, <2>5, Unmoved, OneName
  <2>6. CASE /\ tokenOwner[n] = WRAPPER /\ Owner(n) = WRAPPER
             /\ tokens' = [tokens EXCEPT ![n] = renewed]
    <3>1. tokens'[n] = renewed /\ renewed.expiry = e /\ renewed.fuses = tokens[n].fuses
      BY <2>2, <2>6, <1>a DEF WrapperTypeOK, Token
    <3>2. e >= tokens[n].expiry
      <4>1. tokens[n].expiry <= expiries[n] + GRACE_PERIOD
        BY DEF WrapperInv, RegistrationCoversToken
      <4> QED
        BY <4>1, <2>2 DEF Token
    <3>3. CANNOT_UNWRAP \in Data(ETN).fuses
      BY Numbers DEF WrapperInv, TLDsHeld, LockedForEver, Data, Cleared
    <3>4. CanFusesBeBurned(tokens[n].fuses)
      BY <2>2 DEF WrapperInv, FuseInvariant
    <3> HIDE DEF renewed, e
    <3>5. TokenMove(n)
      BY <3>1, <3>2, <3>3, <3>4, <2>2, <2>3 DEF TokenMove, WrapperInv, DotEthIsEmancipated
    <3>6. Held(n)'
      BY <2>1, <2>6 DEF Held, Owner, registryVars
    <3> QED
      BY <3>5, <3>6, <2>2, <2>4, OneName
  <2> QED
    BY <2>1, <2>5, <2>6
<1>4. ASSUME NEW sender \in Senders, NEW n \in Names, NEW registrant \in Targets,
             NEW controller \in Targets, UnwrapETH2LD(sender, n, registrant, controller)
      PROVE  SafeStep
  <2>1. /\ UnwrapTo(n, tokens[n], controller, records)
        /\ MoveToken(n, registrant)
        /\ UNCHANGED <<now, expiries>>
    BY <1>4 DEF UnwrapETH2LD
  <2>2. n \in Nodes /\ n \in Subnodes /\ tokens[n] \in Token
    BY <1>a, TreeFacts, DataType
  <2>3. OnlyAt(n)
    BY <2>1, <2>2, <1>a, Numbers
       DEF OnlyAt, UnwrapTo, Burn, SetToken, WithOwner, MoveToken, RegistryTypeOK, Record,
           RegistrarTypeOK, WrapperTypeOK
  <2>4. Cleared(tokens[n]).fuses = Data(n).fuses \union {}
    BY DEF Data
  <2>5. CanFusesBeBurned(Data(n).fuses \union {}) /\ ParentFusesAllow(n, {})
    BY <2>2 DEF Data, Cleared, WrapperInv, FuseInvariant, CanFusesBeBurned, ParentFusesAllow
  <2> QED
    BY <2>1, <2>2, <2>3, <2>4, <2>5, UnwrapSafe
<1> QED
  BY <1>1, <1>2, <1>3, <1>4 DEF Names2LDStep

(***************************************************************************)
(* The operations on tokens of any name                                    *)
(***************************************************************************)
\* What an operation leaves alone that writes one token and nothing else.
LEMMA TokenOnly ==
    ASSUME WrapperInv, NEW n \in Nodes, NEW t, SetToken(n, t),
           UNCHANGED <<registryVars, registrarVars>>
    PROVE  OnlyAt(n) /\ tokens'[n] = t
  BY Numbers
     DEF OnlyAt, SetToken, registryVars, registrarVars, tokenVars, WrapperInv, TypeOK,
         WrapperTypeOK

\* What an operation leaves alone that also writes one registry record.
LEMMA RecordAndToken ==
    ASSUME WrapperInv, NEW n \in Nodes, NEW t, SetToken(n, t), UNCHANGED registrarVars,
           NEW owner, NEW resolver, NEW ttl,
           \/ records' = WithOwner(records, n, owner)
           \/ records' = WithRecord(records, n, owner, resolver, ttl)
           \/ records' = WithOwner(WithResolver(records, n, resolver), n, owner)
           \/ records' = WithOwner(WithRecord(records, n, WRAPPER, resolver, ttl), n, owner)
    PROVE  OnlyAt(n) /\ tokens'[n] = t /\ records'[n].owner = owner
<1>1. records \in [Nodes -> Record] /\ tokens \in [Nodes -> Token]
  BY DEF WrapperInv, TypeOK, RegistryTypeOK, WrapperTypeOK
<1>2. /\ \A m \in Nodes \ {n} : records'[m] = records[m] /\ tokens'[m] = tokens[m]
      /\ tokens'[n] = t /\ records'[n].owner = owner
  BY <1>1 DEF WithOwner, WithRecord, WithResolver, Record, SetToken
<1> QED
  BY <1>2, Numbers DEF OnlyAt, registrarVars, tokenVars

\* A token burned or passed on as it stands burns no fuses.
LEMMA AsItStands ==
    ASSUME WrapperInv, NEW n \in Nodes
    PROVE  /\ CanFusesBeBurned(Data(n).fuses \union {}) /\ ParentFusesAllow(n, {})
           /\ Cleared(tokens[n]).fuses = Data(n).fuses \union {}
  BY DEF Data, Cleared, WrapperInv, FuseInvariant, CanFusesBeBurned, ParentFusesAllow

\* Writing out what a token stands for, with a new owner or expiry.
LEMMA RestatedSafe ==
    ASSUME WrapperInv, NEW n \in Subnodes, Data(n).owner # NoAddr, OnlyAt(n),
           NEW t \in Token, tokens'[n] = t, t.fuses = Data(n).fuses,
           records'[n] = records[n], n \in Names => tokenOwner'[n] = tokenOwner[n],
           \/ t.expiry = tokens[n].expiry
           \/ /\ n \notin Names /\ t.expiry >= tokens[n].expiry
              /\ t.expiry <= tokens[Parent[n]].expiry
    PROVE  SafeStep
<1>1. n \in Nodes /\ now' = now
  BY TreeFacts DEF OnlyAt
<1>2. CanFusesBeBurned(Data(n).fuses \union {}) /\ ParentFusesAllow(n, {})
  BY <1>1 DEF Data, Cleared, WrapperInv, FuseInvariant, CanFusesBeBurned, ParentFusesAllow
<1>3. t.fuses = Data(n).fuses \union {}
  OBVIOUS
<1>4. TokenMove(n)
  BY <1>2, <1>3, Rewritten
<1>5. Data(n)'.fuses \subseteq Data(n).fuses
  BY <1>1 DEF Data, Cleared
<1> QED
  BY <1>4, <1>5, HeldStays, OneName

\* A batch moves each of its tokens as a transfer of that token would.
LEMMA BatchSafe ==
    ASSUME WrapperInv, NEW sender \in Senders, NEW batch \in Batches, NEW from, NEW to,
           SafeBatchTransferFrom(sender, batch, from, to)
    PROVE  SafeStep
<1>a. /\ UNCHANGED <<registryVars, registrarVars>> /\ to \in Addresses
      /\ \A n \in Nodes : tokens'[n] = IF n \in batch THEN [Data(n) EXCEPT !.owner = to]
                                                      ELSE tokens[n]
      /\ \A n \in batch : n \in Subnodes /\ Data(n).owner # NoAddr
  BY Control, RegistrarAssumption, WrapperAssumption DEF SafeBatchTransferFrom
<1>b. \A n \in Nodes : tokens[n] \in Token /\ Data(n) \in Token
  BY DataType DEF WrapperInv, TypeOK
<1>c. Subnodes \subseteq Nodes /\ now' = now /\ records' = records /\ tokenOwner' = tokenOwner
  BY <1>a, TreeFacts DEF registryVars, registrarVars, tokenVars
<1>d. ASSUME NEW n \in batch
      PROVE  /\ tokens'[n] \in Token /\ tokens'[n].expiry = tokens[n].expiry
             /\ tokens'[n].fuses = Data(n).fuses
  <2>1. n \in Nodes /\ tokens'[n] = [Data(n) EXCEPT !.owner = to]
    BY <1>a, <1>c
  <2> QED
    BY <2>1, <1>a, <1>b DEF Token, Data, Cleared
<1>1. ASSUME NEW n \in Nodes
      PROVE  TokenMove(n)
  <2>1. CASE n \in batch
    <3>1. CanFusesBeBurned(Data(n).fuses \union {}) /\ ParentFusesAllow(n, {})
      BY DEF Data, Cleared, WrapperInv, FuseInvariant, CanFusesBeBurned, ParentFusesAllow
    <3>2. tokens'[n].fuses = Data(n).fuses \union {} /\ n \in Subnodes
      BY <1>a, <1>d, <2>1
    <3> QED
      BY <1>d, <2>1, <3>1, <3>2, Rewritten
  <2>2. CASE n \notin batch
    BY <1>a, <2>2, Unmoved
  <2> QED
    BY <2>1, <2>2
<1>2. ASSUME NEW n \in Subnodes, Protected(n)'
      PROVE  Held(n)'
  <2>1. Protected(n)
    <3>1. CASE n \in batch
      <4>1. Data(n)'.fuses \subseteq Data(n).fuses
        BY <1>c, <1>d, <3>1 DEF Data, Cleared
      <4> QED
        BY <1>2, <1>a, <3>1, <4>1 DEF Protected, Locked, Emancipated, Burned
    <3>2. CASE n \notin batch
      <4>1. tokens'[n] = tokens[n]
        BY <1>a, <1>c, <3>2
      <4> QED
        BY <1>2, <1>c, <4>1 DEF Protected, Locked, Emancipated, Burned, Data, Cleared
    <3> QED
      BY <3>1, <3>2
  <2> QED
    BY <1>c, <2>1 DEF WrapperInv, ProtectedIsHeld, Held
<1>3. \A id \in Names : expiries'[id] >= expiries[id]
  BY <1>a, Numbers DEF registrarVars, tokenVars
<1>4. ASSUME NEW n \in Nodes
      PROVE  StateOf(n)' = StateOf(n)
  <2>1. CASE n \in batch
    <3>1. /\ Data(n)'.fuses = Data(n).fuses
          /\ Data(n)'.owner = to
      BY <1>a, <1>b, <1>c, <1>d, <2>1 DEF Data, Cleared, Token
    <3>2. to # NoAddr /\ Data(n).owner # NoAddr
      BY <1>a, <2>1, RegistrarAssumption DEF SafeBatchTransferFrom
    <3> QED
      BY <1>c, <3>1, <3>2 DEF StateOf, IsWrapped, Owner, Locked, Emancipated, Burned
  <2>2. CASE n \notin batch
    BY <1>a, <1>c, <2>2
       DEF StateOf, IsWrapped, Owner, Locked, Emancipated, Burned, Data, Cleared
  <2> QED
    BY <2>1, <2>2
<1> QED
  BY <1>1, <1>2, <1>3, <1>4, <1>c DEF SafeStep, OneStateMoves

LEMMA SetFusesSafe ==
    ASSUME WrapperInv, NEW sender \in Senders, NEW n \in Nodes, NEW fuses \in OwnerFuseInputs,
           SetFuses(sender, n, fuses)
    PROVE  SafeStep
<1> DEFINE t == [Data(n) EXCEPT !.fuses = fuses \union Data(n).fuses]
<1>1. n \in Subnodes /\ Data(n).owner # NoAddr
  BY Control DEF SetFuses
<1>2. fuses \subseteq OwnerControlledFuses
  BY WrapperAssumption
<1>3. fuses \subseteq Fuses /\ fuses \intersect PARENT_CONTROLLED_FUSES = {}
      /\ CAN_EXTEND_EXPIRY \notin fuses /\ PARENT_CANNOT_CONTROL \notin fuses
      /\ IS_DOT_ETH \notin fuses
  BY <1>2, FuseFacts
<1>4. t \in Token /\ t.fuses = Data(n).fuses \union fuses /\ t.expiry = tokens[n].expiry
  <2>1. Data(n) \in Token /\ Data(n).expiry = tokens[n].expiry
    BY DataType DEF WrapperInv, TypeOK, Data, Cleared
  <2> QED
    BY <2>1, <1>3 DEF Token
<1>5. OnlyAt(n) /\ tokens'[n] = t /\ UNCHANGED <<registryVars, registrarVars>>
  BY TokenOnly DEF SetFuses
<1>6. CanFusesBeBurned(Data(n).fuses \union fuses)
  <2>1. fuses \union Data(n).fuses = Data(n).fuses \union fuses
    OBVIOUS
  <2> QED
    BY <2>1 DEF SetFuses
<1>7. ParentFusesAllow(n, fuses)
  BY <1>3 DEF ParentFusesAllow
<1> HIDE DEF t
<1>8. TokenMove(n)
  BY <1>1, <1>3, <1>4, <1>5, <1>6, <1>7, Rewritten
<1>9. ASSUME Protected(n)'
      PROVE  Held(n)'
  <2>1. Data(n)'.fuses \subseteq Data(n).fuses \union fuses
    BY <1>4, <1>5 DEF Data, Cleared
  <2>2. PARENT_CANNOT_CONTROL \in Data(n).fuses \union fuses
    BY <1>9, <2>1, <1>6, FuseFacts DEF Protected, Locked, Emancipated, Burned, CanFusesBeBurned
  <2>3. Protected(n)
    BY <2>2, <1>1, <1>3 DEF Protected, Emancipated, Burned
  <2> QED
    BY <2>3, <1>1, <1>5 DEF WrapperInv, ProtectedIsHeld, Held, registryVars, registrarVars,
                           tokenVars
<1> QED
  BY <1>1, <1>5, <1>8, <1>9, OneName

LEMMA ExtendExpirySafe ==
    ASSUME WrapperInv, NEW sender \in Senders, NEW n \in Nodes, NEW expiry \in ExpiryInputs,
           ExtendExpiry(sender, n, expiry)
    PROVE  SafeStep
<1> DEFINE t == [Data(n) EXCEPT !.expiry = SubnameExpiry(n, expiry)]
<1>1. n # ROOT /\ n \in Subnodes /\ Data(n).owner # NoAddr
  BY Control DEF ExtendExpiry, IsWrapped, Subnodes
<1>2. n \notin Names
  <2>1. CASE CanExtendSubnames(Parent[n], sender)
    <3>1. Parent[n] \in Subnodes
      BY <1>1, <2>1, TreeFacts, Control
    <3> QED
      BY <3>1, TreeFacts DEF Subnodes
  <2>2. CASE CAN_EXTEND_EXPIRY \in Data(n).fuses
    BY <2>2 DEF Data, Cleared, WrapperInv, OnlyRenewed
  <2> QED
    BY <2>1, <2>2 DEF ExtendExpiry
<1>3. /\ SubnameExpiry(n, expiry) \in 0 .. MAX_EXPIRY
      /\ SubnameExpiry(n, expiry) >= tokens[n].expiry
      /\ \/ SubnameExpiry(n, expiry) <= tokens[Parent[n]].expiry
         \/ SubnameExpiry(n, expiry) = tokens[n].expiry
  <2>1. WrapperTypeOK /\ expiry \in Nat
    BY WrapperAssumption DEF WrapperInv, TypeOK
  <2> QED
    BY <1>1, <2>1, SubnameExpiryBounds
<1>4. t \in Token /\ t.fuses = Data(n).fuses /\ t.expiry = SubnameExpiry(n, expiry)
  <2>1. Data(n) \in Token
    BY DataType DEF WrapperInv, TypeOK
  <2> QED
    BY <2>1, <1>3 DEF Token
<1>5. OnlyAt(n) /\ tokens'[n] = t /\ UNCHANGED <<registryVars, registrarVars>>
  BY TokenOnly DEF ExtendExpiry
<1>6. records'[n] = records[n] /\ tokenOwner' = tokenOwner
  BY <1>5 DEF registryVars, registrarVars, tokenVars
<1> HIDE DEF t
<1> QED
  BY <1>1, <1>2, <1>3, <1>4, <1>5, <1>6, RestatedSafe

LEMMA WrapSafe ==
    ASSUME WrapperInv, NEW sender \in Senders, NEW n \in Nodes, NEW owner \in Targets,
           NEW resolver \in Resolvers, Wrap(sender, n, owner, resolver)
    PROVE  SafeStep
<1>1. n \in Subnodes /\ n \notin Names /\ Owner(n) # WRAPPER
  BY NobodySpeaks, TreeFacts DEF Wrap, Subnodes
<1>2. ~Protected(n)
  BY <1>1, WrapperAssumption DEF WrapperInv, ProtectedIsHeld, Held, Owner
<1>3. tokens[n].expiry >= now => tokens[n].fuses \subseteq PARENT_CONTROLLED_FUSES
  BY <1>2, NothingToLose DEF Protected, Locked, Burned
<1>4. Mint(n, owner, {}, 0)
  BY DEF Wrap
<1>5. OnlyAt(n) /\ records'[n].owner = WRAPPER
  <2>1. \/ records' = WithOwner(records, n, WRAPPER)
        \/ records' = WithOwner(WithResolver(records, n, resolver), n, WRAPPER)
    BY DEF Wrap
  <2>2. PICK t : SetToken(n, t)
    BY <1>4 DEF Mint
  <2>3. UNCHANGED registrarVars
    BY DEF Wrap
  <2> QED
    BY <2>1, <2>2, <2>3, RecordAndToken
<1>6. TokenMove(n)
  <2>1. 0 \in 0 .. MAX_EXPIRY /\ 0 <= tokens[n].expiry
    BY Numbers
  <2>2. ParentFusesAllow(n, {}) /\ {} \in SUBSET Fuses /\ CAN_EXTEND_EXPIRY \notin {}
    BY DEF ParentFusesAllow
  <2> QED
    BY <1>1, <1>3, <1>4, <2>1, <2>2, Minted
<1> QED
  BY <1>1, <1>5, <1>6, OneName DEF Held

LEMMA TokenSafe ==
    ASSUME WrapperInv, TokenStep
    PROVE  SafeStep
<1>a. WrapperTypeOK
  BY DEF WrapperInv, TypeOK
<1> PICK sender \in Senders :
        \/ \E n \in Nodes, owner \in Targets :
            \/ Approve(sender, n, owner)
            \/ SafeTransferFrom(sender, n, Data(n).owner, owner)
            \/ Unwrap(sender, n, owner)
            \/ \E resolver \in Resolvers : Wrap(sender, n, owner, resolver)
        \/ \E batch \in Batches, from \in Senders, to \in Targets :
            SafeBatchTransferFrom(sender, batch, from, to)
        \/ \E n \in Nodes : Upgrade(sender, n)
        \/ \E n \in Nodes, fuses \in OwnerFuseInputs : SetFuses(sender, n, fuses)
        \/ \E n \in Nodes, expiry \in ExpiryInputs : ExtendExpiry(sender, n, expiry)
  BY DEF TokenStep
<1>1. ASSUME NEW n \in Nodes, NEW owner \in Targets, Approve(sender, n, owner)
      PROVE  SafeStep
  BY <1>1, QuietStep DEF Approve, registryVars, registrarVars, tokenVars
<1>2. ASSUME NEW n \in Nodes, NEW owner \in Targets,
             SafeTransferFrom(sender, n, Data(n).owner, owner)
      PROVE  SafeStep
  <2>1. /\ n \in Subnodes /\ Data(n).owner # NoAddr
        /\ TransferTo(n, tokens[n], Data(n).owner, owner)
        /\ UNCHANGED <<registryVars, registrarVars>>
    BY <1>2, Control DEF SafeTransferFrom
  <2>2. OnlyAt(n)
    BY <2>1, TokenOnly DEF TransferTo
  <2>3. records' = records /\ tokenOwner' = tokenOwner
    BY <2>1 DEF registryVars, registrarVars, tokenVars
  <2> QED
    BY <2>1, <2>2, <2>3, TransferSafe
<1>3. ASSUME NEW n \in Nodes, NEW owner \in Targets, Unwrap(sender, n, owner)
      PROVE  SafeStep
  <2>1. /\ n \in Subnodes
        /\ UnwrapTo(n, tokens[n], owner, records)
        /\ UNCHANGED registrarVars
    BY <1>3, Control DEF Unwrap
  <2>2. OnlyAt(n)
    BY <2>1, RecordAndToken DEF UnwrapTo, Burn
  <2> QED
    BY <2>1, <2>2, <1>a, DataType, AsItStands, UnwrapSafe
<1>4. ASSUME NEW n \in Nodes, Upgrade(sender, n)
      PROVE  SafeStep
  <2> DEFINE t == [Data(n) EXCEPT !.owner = NoAddr]
  <2>1. n \in Subnodes /\ Data(n).owner # NoAddr /\ UNCHANGED <<registryVars, registrarVars>>
    BY <1>4, Control DEF Upgrade
  <2>2. SetToken(n, t)
    BY <1>4 DEF Upgrade, Burn, Data
  <2>3. t \in Token /\ t.fuses = Data(n).fuses /\ t.expiry = tokens[n].expiry
    <3>1. Data(n) \in Token /\ Data(n).expiry = tokens[n].expiry
      BY <1>a, DataType DEF Data, Cleared
    <3> QED
      BY <3>1, RegistryAssumption DEF Token
  <2> HIDE DEF t
  <2>4. OnlyAt(n) /\ tokens'[n] = t
    BY <2>1, <2>2, TokenOnly
  <2>5. records' = records /\ tokenOwner' = tokenOwner
    BY <2>1 DEF registryVars, registrarVars, tokenVars
  <2> QED
    BY <2>1, <2>3, <2>4, <2>5, RestatedSafe
<1> QED
  BY <1>1, <1>2, <1>3, <1>4, WrapSafe, BatchSafe, SetFusesSafe, ExtendExpirySafe

(***************************************************************************)
(* The operations of the parent on subnames                                *)
(***************************************************************************)
\* Only the owner of a name that exists, so never of the root or the TLD, acts on
\* its subnames, which are therefore no .etn names.
LEMMA BelowAWrappedName ==
    ASSUME WrapperInv, NEW sender \in Senders, NEW n \in Nodes \ {ROOT},
           CanModifyName(Parent[n], sender)
    PROVE  n \in Subnodes /\ n \notin Names
<1>1. Parent[n] \in Subnodes
  BY TreeFacts, Control
<1> QED
  BY <1>1, TreeFacts, RegistrarAssumption DEF Subnodes

\* What the proofs of the three operations need to know of the computed expiry.
LEMMA ComputedExpiry ==
    ASSUME WrapperInv, NEW n \in Subnodes, NEW expiry \in ExpiryInputs
    PROVE  /\ SubnameExpiry(n, expiry) \in 0 .. MAX_EXPIRY
           /\ SubnameExpiry(n, expiry) >= tokens[n].expiry
           /\ \/ SubnameExpiry(n, expiry) <= tokens[Parent[n]].expiry
              \/ SubnameExpiry(n, expiry) = tokens[n].expiry
<1>1. WrapperTypeOK /\ expiry \in Nat /\ n \in Nodes \ {ROOT}
  BY WrapperAssumption DEF WrapperInv, TypeOK, Subnodes
<1> QED
  BY <1>1, SubnameExpiryBounds

LEMMA SetChildFusesSafe ==
    ASSUME WrapperInv, NEW sender \in Senders, NEW n \in Nodes, NEW fuses \in SUBSET Fuses,
           NEW expiry \in ExpiryInputs, SetChildFuses(sender, n, fuses, expiry)
    PROVE  SafeStep
<1> DEFINE t == [owner |-> Data(n).owner, fuses |-> fuses \union Data(n).fuses,
                 expiry |-> SubnameExpiry(n, expiry)]
<1>1. n \in Subnodes /\ n \notin Names
  <2>1. CASE Parent[n] = ROOT
    BY <2>1, TreeFacts, Control DEF SetChildFuses
  <2>2. CASE Parent[n] # ROOT
    BY <2>2, BelowAWrappedName DEF SetChildFuses
  <2> QED
    BY <2>1, <2>2
<1>2. /\ ParentFusesAllow(n, fuses) /\ SetToken(n, t) /\ IsWrapped(n)
      /\ CanFusesBeBurned(fuses \union Data(n).fuses) /\ IS_DOT_ETH \notin fuses
      /\ UNCHANGED <<registryVars, registrarVars>>
  BY DEF SetChildFuses, FusesAreSettable, USER_SETTABLE_FUSES
<1>3. OnlyAt(n) /\ tokens'[n] = t
  BY <1>2, TokenOnly
<1>4. t \in Token /\ t.fuses = Data(n).fuses \union fuses /\ t.expiry = SubnameExpiry(n, expiry)
  <2>1. Data(n) \in Token
    BY DataType DEF WrapperInv, TypeOK
  <2> QED
    BY <2>1, <1>1, ComputedExpiry DEF Token
<1>5. CanFusesBeBurned(Data(n).fuses \union fuses)
  <2>1. fuses \union Data(n).fuses = Data(n).fuses \union fuses
    OBVIOUS
  <2> QED
    BY <2>1, <1>2
<1> HIDE DEF t
<1>6. TokenMove(n)
  BY <1>1, <1>2, <1>3, <1>4, <1>5, ComputedExpiry, Rewritten
<1>7. Held(n)'
  BY <1>1, <1>2, WrapperAssumption DEF IsWrapped, Owner, Held, registryVars
<1> QED
  BY <1>1, <1>3, <1>6, <1>7, OneName

\* Replacing or deleting a wrapped subname.
LEMMA UpdateNameSafe ==
    ASSUME WrapperInv, NEW n \in Subnodes, n \notin Names, NEW owner, NEW fuses \in SUBSET Fuses,
           NEW expiry \in ExpiryInputs, NEW resolver, NEW ttl, NEW recs,
           \/ recs = records /\ records[n].owner = WRAPPER
           \/ recs = WithRecord(records, n, WRAPPER, resolver, ttl),
           UpdateName(n, owner, fuses, SubnameExpiry(n, expiry), recs),
           ParentFusesAllow(n, fuses), IS_DOT_ETH \notin fuses,
           UNCHANGED <<operators, registrarVars>>
    PROVE  SafeStep
<1> DEFINE t == [owner |-> Data(n).owner, fuses |-> Data(n).fuses \union fuses,
                 expiry |-> SubnameExpiry(n, expiry)]
<1>1. n \in Nodes /\ records \in [Nodes -> Record]
  BY TreeFacts DEF WrapperInv, TypeOK, RegistryTypeOK
<1>2. /\ CanFusesBeBurned(Data(n).fuses \union fuses)
      /\ \/ UnwrapTo(n, t, NoAddr, recs)
         \/ TransferTo(n, t, t.owner, owner) /\ records' = recs
  BY DEF UpdateName
<1>3. /\ t \in Token /\ t.fuses = Data(n).fuses \union fuses
      /\ t.expiry = SubnameExpiry(n, expiry)
  <2>1. Data(n) \in Token
    BY <1>1, DataType DEF WrapperInv, TypeOK
  <2> QED
    BY <2>1, ComputedExpiry DEF Token
<1> HIDE DEF t
<1>4. Cleared(t).fuses = Data(n).fuses \union fuses \/ (t.expiry < now /\ Cleared(t).fuses = {})
  BY <1>3 DEF Cleared
<1>5. CASE UnwrapTo(n, t, NoAddr, recs)
  <2>1. OnlyAt(n)
    BY <1>1, <1>5, RecordAndToken DEF UnwrapTo, Burn
  <2> QED
    BY <1>2, <1>3, <1>4, <1>5, <2>1, ComputedExpiry, UnwrapSafe
<1>6. CASE TransferTo(n, t, t.owner, owner) /\ records' = recs
  <2> DEFINE u == IF t.owner = owner THEN t ELSE [Cleared(t) EXCEPT !.owner = owner]
  <2>1. SetToken(n, u)
    BY <1>6 DEF TransferTo
  <2>2. /\ u \in Token /\ u.expiry = SubnameExpiry(n, expiry)
        /\ u.fuses = Data(n).fuses \union fuses \/ (u.expiry < now /\ u.fuses = {})
    BY <1>3, <1>4, <1>6, ClearedType, RegistrarAssumption DEF TransferTo, Token
  <2> HIDE DEF u
  <2>3. OnlyAt(n) /\ tokens'[n] = u
    <3>1. CASE recs = records
      BY <1>1, <1>6, <2>1, <3>1, TokenOnly DEF registryVars
    <3>2. CASE recs = WithRecord(records, n, WRAPPER, resolver, ttl)
      BY <1>1, <1>6, <2>1, <3>2, RecordAndToken
    <3> QED
      BY <3>1, <3>2
  <2>4. TokenMove(n)
    BY <1>2, <2>2, <2>3, ComputedExpiry, Rewritten
  <2>5. records'[n].owner = WRAPPER
    BY <1>1, <1>6 DEF WithRecord
  <2> QED
    BY <2>3, <2>4, <2>5, OneName DEF Held
<1> QED
  BY <1>2, <1>5, <1>6

\* Creating a subname, or taking back one that is not emancipated.
LEMMA CreateSafe ==
    ASSUME WrapperInv, NEW n \in Subnodes, n \notin Names, NEW owner, NEW fuses \in SUBSET Fuses,
           NEW expiry \in ExpiryInputs, NEW resolver, NEW ttl,
           \/ records' = WithOwner(records, n, WRAPPER)
           \/ records' = WithRecord(records, n, WRAPPER, resolver, ttl),
           Mint(n, owner, fuses, SubnameExpiry(n, expiry)), CanCallSetSubnodeOwner(n),
           ParentFusesAllow(n, fuses), IS_DOT_ETH \notin fuses, UNCHANGED registrarVars
    PROVE  SafeStep
<1>1. n \in Nodes
  BY TreeFacts
<1>2. tokens[n].expiry >= now => tokens[n].fuses \subseteq PARENT_CONTROLLED_FUSES
  <2>1. CASE tokens[n].expiry < now
    BY <1>1, <2>1, Numbers
  <2>2. CASE PARENT_CANNOT_CONTROL \notin Data(n).fuses
    BY <1>1, <2>2, NothingToLose
  <2> QED
    BY <2>1, <2>2 DEF CanCallSetSubnodeOwner
<1>3. TokenMove(n)
  <2>1. SubnameExpiry(n, expiry) <= tokens[n].expiry
        \/ SubnameExpiry(n, expiry) <= tokens[Parent[n]].expiry
    BY <1>1, Numbers, ComputedExpiry
  <2> QED
    BY <1>2, <2>1, ComputedExpiry, Minted
<1>4. OnlyAt(n) /\ records'[n].owner = WRAPPER
  <2>1. PICK t : SetToken(n, t)
    BY DEF Mint
  <2> QED
    BY <1>1, <2>1, RecordAndToken
<1> QED
  BY <1>3, <1>4, OneName DEF Held

LEMMA SubnameSafe ==
    ASSUME WrapperInv, SubnameStep
    PROVE  SafeStep
<1> PICK sender \in Senders, n \in Nodes, fuses \in FuseInputs, expiry \in ExpiryInputs :
        \/ SetChildFuses(sender, n, fuses, expiry)
        \/ \E owner \in Targets :
            \/ SetSubnodeOwnerWrapped(sender, n, owner, fuses, expiry)
            \/ \E resolver \in Resolvers, ttl \in TTLs :
                SetSubnodeRecordWrapped(sender, n, owner, resolver, ttl, fuses, expiry)
  BY DEF SubnameStep
<1>a. fuses \in SUBSET Fuses
  BY WrapperAssumption
<1>b. ASSUME CanSetSubnode(sender, n, fuses)
      PROVE  /\ n \in Subnodes /\ n \notin Names
             /\ ParentFusesAllow(n, fuses) /\ CanCallSetSubnodeOwner(n)
             /\ IS_DOT_ETH \notin fuses
  BY <1>b, BelowAWrappedName DEF CanSetSubnode, FusesAreSettable, USER_SETTABLE_FUSES
<1>c. IsWrapped(n) => records[n].owner = WRAPPER
  BY WrapperAssumption DEF IsWrapped, Owner
<1>1. ASSUME NEW owner \in Targets, SetSubnodeOwnerWrapped(sender, n, owner, fuses, expiry)
      PROVE  SafeStep
  <2>1. CanSetSubnode(sender, n, fuses) /\ UNCHANGED <<operators, registrarVars>>
    BY <1>1 DEF SetSubnodeOwnerWrapped
  <2>2. CASE IsWrapped(n)
    <3>1. UpdateName(n, owner, fuses, SubnameExpiry(n, expiry), records)
      BY <1>1, <2>2 DEF SetSubnodeOwnerWrapped
    <3> QED
      BY <1>a, <1>b, <1>c, <2>1, <2>2, <3>1, UpdateNameSafe
  <2>3. CASE ~IsWrapped(n)
    <3>1. /\ Mint(n, owner, fuses, SubnameExpiry(n, expiry))
          /\ records' = WithOwner(records, n, WRAPPER)
      BY <1>1, <2>3 DEF SetSubnodeOwnerWrapped
    <3> QED
      BY <1>a, <1>b, <2>1, <3>1, CreateSafe
  <2> QED
    BY <2>2, <2>3
<1>2. ASSUME NEW owner \in Targets, NEW resolver \in Resolvers, NEW ttl \in TTLs,
             SetSubnodeRecordWrapped(sender, n, owner, resolver, ttl, fuses, expiry)
      PROVE  SafeStep
  <2>1. CanSetSubnode(sender, n, fuses) /\ UNCHANGED <<operators, registrarVars>>
    BY <1>2 DEF SetSubnodeRecordWrapped
  <2> DEFINE recs == WithRecord(records, n, WRAPPER, resolver, ttl)
  <2>2. CASE IsWrapped(n)
    <3>1. UpdateName(n, owner, fuses, SubnameExpiry(n, expiry), recs)
      BY <1>2, <2>2 DEF SetSubnodeRecordWrapped
    <3> QED
      BY <1>a, <1>b, <2>1, <3>1, UpdateNameSafe
  <2>3. CASE ~IsWrapped(n)
    <3>1. Mint(n, owner, fuses, SubnameExpiry(n, expiry)) /\ records' = recs
      BY <1>2, <2>3 DEF SetSubnodeRecordWrapped
    <3> QED
      BY <1>a, <1>b, <2>1, <3>1, CreateSafe
  <2> QED
    BY <2>2, <2>3
<1> QED
  BY <1>a, <1>1, <1>2, SetChildFusesSafe

(***************************************************************************)
(* Registry records, administration                                        *)
(***************************************************************************)
LEMMA RecordSafe ==
    ASSUME WrapperInv, RecordStep
    PROVE  SafeStep
<1>a. records \in [Nodes -> Record] /\ WrapperTypeOK
  BY DEF WrapperInv, TypeOK, RegistryTypeOK
<1>1. ASSUME NEW sender \in Senders, NEW n \in Nodes, NEW owner \in Targets,
             NEW resolver \in Resolvers, NEW ttl \in TTLs,
             SetRecordWrapped(sender, n, owner, resolver, ttl)
      PROVE  SafeStep
  <2> DEFINE recs == WithRecord(records, n, WRAPPER, resolver, ttl)
  <2>1. /\ n \in Subnodes /\ Data(n).owner # NoAddr
        /\ UNCHANGED registrarVars
        /\ \/ UnwrapTo(n, tokens[n], NoAddr, recs)
           \/ TransferTo(n, tokens[n], Data(n).owner, owner) /\ records' = recs
    BY <1>1, Control DEF SetRecordWrapped
  <2>2. CASE UnwrapTo(n, tokens[n], NoAddr, recs)
    <3>1. OnlyAt(n)
      BY <2>1, <2>2, RecordAndToken DEF UnwrapTo, Burn
    <3> QED
      BY <2>1, <2>2, <3>1, <1>a, DataType, AsItStands, UnwrapSafe
  <2>3. CASE TransferTo(n, tokens[n], Data(n).owner, owner) /\ records' = recs
    <3>1. OnlyAt(n) /\ records'[n].owner = WRAPPER
      BY <2>1, <2>3, RecordAndToken DEF TransferTo
    <3>2. tokenOwner' = tokenOwner
      BY <2>1 DEF registrarVars, tokenVars
    <3> QED
      BY <2>1, <2>3, <3>1, <3>2, TransferSafe
  <2> QED
    BY <2>1, <2>2, <2>3
<1>2. ASSUME NEW sender \in Senders, NEW n \in Nodes,
             \/ \E resolver \in Resolvers : SetResolverWrapped(sender, n, resolver)
             \/ \E ttl \in TTLs : SetTTLWrapped(sender, n, ttl)
      PROVE  SafeStep
  <2>1. \A m \in Nodes : records'[m].owner = records[m].owner
    BY <1>2, <1>a DEF SetResolverWrapped, SetTTLWrapped, WithResolver, WithTTL, Record
  <2>2. UNCHANGED <<now, expiries, tokens, tokenOwner>>
    BY <1>2 DEF SetResolverWrapped, SetTTLWrapped, registrarVars, tokenVars, wrapperVars
  <2> QED
    BY <2>1, <2>2, QuietStep
<1> QED
  BY <1>1, <1>2 DEF RecordStep

LEMMA AdminSafe ==
    ASSUME WrapperInv, WrapperAdminStep
    PROVE  SafeStep
<1>1. UNCHANGED <<now, expiries, tokens, tokenOwner, records>>
  BY DEF WrapperAdminStep, SetWrapperApprovalForAll, SetWrapperController, SetUpgradeContract,
         registryVars, registrarVars, tokenVars
<1> QED
  BY <1>1, QuietStep

LEMMA WrapperSafe ==
    ASSUME WrapperInv, WrapperNext
    PROVE  SafeStep
  BY NamesSafe, TokenSafe, SubnameSafe, RecordSafe, AdminSafe DEF WrapperNext

(***************************************************************************)
(* The invariant is inductive                                              *)
(***************************************************************************)
LEMMA WrapperInvInit ==
    ASSUME Init
    PROVE  WrapperInv
<1> USE RegistryAssumption, RegistrarAssumption, WrapperAssumption, DeploymentAssumption
<1>1. TypeOK
  BY TypeInit
<1>2. /\ now \in Nat /\ now <= MAX_EXPIRY
      /\ tokens[ROOT] = LockedForEver /\ tokens[ETN] = LockedForEver
      /\ \A n \in Subnodes : tokens[n] = [owner |-> NoAddr, fuses |-> {}, expiry |-> 0]
  BY DEF Init, RegistrarInit, WrapperInit, Subnodes
<1>3. TLDsHeld
  BY <1>2 DEF TLDsHeld, Init, RegistryInit
<1>4. DelegationsKnown
  BY DEF DelegationsKnown, Init, RegistryInit, RegistrarInit, WrapperInit
<1>c. \A n \in Names : tokens[n].fuses = {} /\ tokens[n].expiry = 0 /\ expiries[n] = 0
  <2>1. expiries = [id \in Names |-> 0]
    BY DEF Init, RegistrarInit
  <2>2. ASSUME NEW n \in Names
        PROVE  tokens[n] = [owner |-> NoAddr, fuses |-> {}, expiry |-> 0]
    <3>1. n \in Subnodes
      BY TreeFacts
    <3> QED
      BY <1>2, <3>1
  <2> QED
    BY <2>1, <2>2
<1>5. OnlyRenewed
  BY <1>c DEF OnlyRenewed
<1>6. FuseInvariant /\ DotEthIsEmancipated
  BY <1>2 DEF FuseInvariant, CanFusesBeBurned, DotEthIsEmancipated, LockedForEver, Subnodes
<1>7. RegistrationCoversToken
  BY <1>c DEF RegistrationCoversToken
<1>8. ExpiryHierarchy
  <2> SUFFICES ASSUME NEW n \in Nodes \ {ROOT}
               PROVE  tokens[n].expiry <= tokens[Parent[n]].expiry
    BY DEF ExpiryHierarchy
  <2>1. CASE n = ETN
    BY <1>2, <2>1 DEF LockedForEver
  <2>2. CASE n # ETN
    BY <1>2, <2>2, TreeFacts DEF LockedForEver, Subnodes
  <2> QED
    BY <2>1, <2>2
<1>9. ASSUME NEW n \in Subnodes
      PROVE  Data(n).fuses = {}
  BY <1>2, <1>9 DEF Data, Cleared
<1>10. EmancipatedUnderLocked
  <2> SUFFICES ASSUME NEW n \in Nodes \ {ROOT}, Emancipated(n)
               PROVE  Locked(Parent[n])
    BY DEF EmancipatedUnderLocked
  <2>1. n = ETN
    BY <1>9 DEF Emancipated, Burned, Subnodes
  <2> QED
    BY <1>2, <2>1 DEF Locked, Burned, Data, Cleared, LockedForEver
<1>11. ProtectedIsHeld
  BY <1>9 DEF ProtectedIsHeld, Protected, Locked, Emancipated, Burned
<1> QED
  BY <1>1, <1>3, <1>4, <1>5, <1>6, <1>7, <1>8, <1>10, <1>11 DEF WrapperInv

\* The approvals of the wrapper go to its upgrade contract, and none is left on a
\* token it takes.
LEMMA WrapperDelegates ==
    ASSUME WrapperInv, WrapperNext
    PROVE  DelegationsKnown'
<1> USE RegistryAssumption, RegistrarAssumption, WrapperAssumption
<1>a. tokenApproved \in [Names -> Addresses] /\ tokenOwner \in [Names -> Addresses]
  BY DEF WrapperInv, TypeOK, RegistrarTypeOK
<1>1. CASE WrapperAdminStep
  <2>1. UNCHANGED <<tokenOwner, tokenApproved>>
    BY <1>1 DEF WrapperAdminStep, SetWrapperApprovalForAll, SetWrapperController,
                SetUpgradeContract, registrarVars, tokenVars
  <2>2. /\ operators' \subseteq operators \union ({WRAPPER} \X (Addresses \ Senders))
        /\ tokenOperators' \subseteq tokenOperators \union ({WRAPPER} \X (Addresses \ Senders))
        /\ wrapperOperators' \subseteq wrapperOperators \union (Senders \X Addresses)
    BY <1>1 DEF WrapperAdminStep, SetWrapperApprovalForAll, SetWrapperController,
                SetUpgradeContract, registryVars, registrarVars, tokenVars
  <2> QED
    BY <2>1, <2>2 DEF WrapperInv, DelegationsKnown
<1>2. CASE Names2LDStep
  <2>1. /\ UNCHANGED <<operators, tokenOperators, wrapperOperators>>
        /\ \/ UNCHANGED <<tokenOwner, tokenApproved>>
           \/ \E n \in Names, to \in Addresses : MoveToken(n, to)
    BY <1>2 DEF Names2LDStep, WrapETH2LD, OnERC721Received, RegisterAndWrapETH2LD, RenewETH2LD,
                UnwrapETH2LD, wrapperAdminVars, registryVars, MoveToken
  <2> QED
    BY <2>1, <1>a DEF WrapperInv, DelegationsKnown, MoveToken
<1>3. CASE TokenStep \/ SubnameStep \/ RecordStep
  <2> DEFINE Same == UNCHANGED <<operators, tokenOwner, tokenApproved, tokenOperators,
                                 wrapperOperators>>
  <2>1. ASSUME TokenStep
        PROVE  Same
    <3>1. /\ UNCHANGED registrarVars /\ operators' = operators
          /\ wrapperOperators' = wrapperOperators
      BY <2>1 DEF TokenStep, Approve, SafeTransferFrom, Unwrap, Wrap, SafeBatchTransferFrom,
                  Upgrade, SetFuses, ExtendExpiry, wrapperAdminVars, registryVars
    <3> QED
      BY <3>1 DEF registrarVars, tokenVars
  <2>2. ASSUME SubnameStep
        PROVE  Same
    <3>1. /\ UNCHANGED registrarVars /\ operators' = operators
          /\ wrapperOperators' = wrapperOperators
      BY <2>2 DEF SubnameStep, SetChildFuses, SetSubnodeOwnerWrapped, SetSubnodeRecordWrapped,
                  wrapperAdminVars, registryVars
    <3> QED
      BY <3>1 DEF registrarVars, tokenVars
  <2>3. ASSUME RecordStep
        PROVE  Same
    <3>1. /\ UNCHANGED registrarVars /\ operators' = operators
          /\ wrapperOperators' = wrapperOperators
      BY <2>3 DEF RecordStep, SetRecordWrapped, SetResolverWrapped, SetTTLWrapped,
                  wrapperAdminVars, wrapperVars
    <3> QED
      BY <3>1 DEF registrarVars, tokenVars
  <2>4. Same
    BY <1>3, <2>1, <2>2, <2>3
  <2> QED
    BY <2>4 DEF WrapperInv, DelegationsKnown
<1> QED
  BY <1>1, <1>2, <1>3 DEF WrapperNext

LEMMA SafeStepKeepsInv ==
    ASSUME WrapperInv, SafeStep, TypeOK', DelegationsKnown'
    PROVE  WrapperInv'
<1>1. TLDsHeld'
  BY RegistryAssumption, RegistrarAssumption
     DEF SafeStep, TokenMove, WrapperInv, TLDsHeld, LockedForEver
<1>2. OnlyRenewed'
  BY TreeFacts DEF SafeStep, TokenMove, WrapperInv, OnlyRenewed
<1>3. FuseInvariant' /\ DotEthIsEmancipated'
  BY DEF SafeStep, TokenMove, FuseInvariant, DotEthIsEmancipated
<1>a. \A n \in Nodes : tokens'[n].expiry \in 0 .. MAX_EXPIRY /\ tokens'[n].fuses \subseteq Fuses
  BY DEF TypeOK, WrapperTypeOK, Token
<1>b. \A id \in Names : expiries'[id] \in Nat
  BY RegistrarAssumption DEF TypeOK, RegistrarTypeOK
<1>4. RegistrationCoversToken'
  <2> SUFFICES ASSUME NEW n \in Names
               PROVE  tokens'[n].expiry <= expiries'[n] + GRACE_PERIOD
    BY DEF RegistrationCoversToken
  <2>1. n \in Nodes /\ tokens[n].expiry <= expiries[n] + GRACE_PERIOD
    BY TreeFacts DEF WrapperInv, RegistrationCoversToken
  <2>2. \/ tokens'[n].expiry = tokens[n].expiry
        \/ tokens'[n].expiry = expiries'[n] + GRACE_PERIOD
    BY <2>1 DEF SafeStep, TokenMove
  <2>3. expiries'[n] >= expiries[n]
    BY DEF SafeStep
  <2> QED
    BY <1>a, <1>b, <2>1, <2>2, <2>3, Numbers
<1>5. ExpiryHierarchy'
  <2> SUFFICES ASSUME NEW n \in Nodes \ {ROOT}
               PROVE  tokens'[n].expiry <= tokens'[Parent[n]].expiry
    BY DEF ExpiryHierarchy
  <2>1. Parent[n] \in Nodes /\ tokens[n].expiry <= tokens[Parent[n]].expiry
    BY TreeFacts DEF WrapperInv, ExpiryHierarchy
  <2>2. tokens'[Parent[n]].expiry >= tokens[Parent[n]].expiry
    BY <2>1 DEF SafeStep, TokenMove
  <2>3. CASE n \in Names
    <3>1. Parent[n] = ETN /\ tokens'[ETN] = LockedForEver
      BY <1>1, <2>3, TreeFacts DEF TLDsHeld, LockedForEver
    <3> QED
      BY <1>a, <3>1 DEF LockedForEver
  <2>4. CASE n \notin Names
    <3>1. \/ tokens'[n].expiry = tokens[n].expiry
          \/ tokens'[n].expiry <= tokens[Parent[n]].expiry
      BY <2>4 DEF SafeStep, TokenMove
    <3> QED
      BY <1>a, <2>1, <2>2, <3>1, Numbers
  <2> QED
    BY <2>3, <2>4
<1>6. EmancipatedUnderLocked'
  <2> SUFFICES ASSUME NEW n \in Nodes \ {ROOT}, Emancipated(n)'
               PROVE  Locked(Parent[n])'
    BY DEF EmancipatedUnderLocked
  <2>1. Parent[n] \in Nodes /\ now' = now /\ now \in Nat
    BY TreeFacts, Numbers DEF SafeStep
  <2>2. tokens'[n].expiry >= now /\ PARENT_CANNOT_CONTROL \in tokens'[n].fuses
    BY <1>a, <2>1 DEF Emancipated, Burned, Data, Cleared
  <2>3. \/ tokens[n].expiry >= now /\ PARENT_CANNOT_CONTROL \in tokens[n].fuses
        \/ CANNOT_UNWRAP \in Data(Parent[n]).fuses
    BY <2>2 DEF SafeStep, TokenMove
  <2>4. CANNOT_UNWRAP \in Data(Parent[n]).fuses
    <3>1. ASSUME tokens[n].expiry >= now, PARENT_CANNOT_CONTROL \in tokens[n].fuses
          PROVE  Emancipated(n)
      BY <3>1, <2>1, Numbers DEF Emancipated, Burned, Data, Cleared
    <3> QED
      BY <2>3, <3>1 DEF WrapperInv, EmancipatedUnderLocked, Locked, Burned
  <2>5. tokens[Parent[n]].expiry >= now /\ CANNOT_UNWRAP \in tokens[Parent[n]].fuses
    BY <2>1, <2>4, Numbers DEF Data, Cleared
  <2>6. tokens'[Parent[n]].expiry >= now /\ CANNOT_UNWRAP \in tokens'[Parent[n]].fuses
    <3>1. /\ tokens'[Parent[n]].expiry >= tokens[Parent[n]].expiry
          /\ tokens[Parent[n]].fuses \subseteq tokens'[Parent[n]].fuses
      BY <2>1, <2>5 DEF SafeStep, TokenMove
    <3> QED
      BY <1>a, <2>1, <2>5, <3>1, Numbers
  <2> QED
    BY <1>a, <2>1, <2>6 DEF Locked, Burned, Data, Cleared
<1>7. ProtectedIsHeld'
  BY DEF SafeStep, ProtectedIsHeld
<1> QED
  BY <1>1, <1>2, <1>3, <1>4, <1>5, <1>6, <1>7 DEF WrapperInv

\* A protected name is emancipated, has not expired, and its parent is out of
\* everybody's reach.
LEMMA ProtectedFacts ==
    ASSUME WrapperInv, NEW n \in Subnodes, Protected(n)
    PROVE  /\ Emancipated(n) /\ Held(n) /\ tokens[n].expiry >= now
           /\ Parent[n] \in {ROOT, ETN} \/ records[Parent[n]].owner = WRAPPER
<1>1. n \in Nodes \ {ROOT} /\ Parent[n] \in Nodes
  BY TreeFacts DEF Subnodes
<1>2. Held(n)
  BY DEF WrapperInv, ProtectedIsHeld
<1>3. Emancipated(n)
  <2>1. CanFusesBeBurned(Data(n).fuses)
    BY <1>1 DEF Data, Cleared, WrapperInv, FuseInvariant, CanFusesBeBurned
  <2> QED
    BY <2>1, FuseFacts DEF Protected, Locked, Emancipated, Burned, CanFusesBeBurned
<1>4. tokens[n].expiry >= now
  BY <1>1, <1>3, Numbers DEF Emancipated, Burned, Data, Cleared
<1>5. Protected(Parent[n])
  BY <1>1, <1>3 DEF WrapperInv, EmancipatedUnderLocked, Protected
<1>6. Parent[n] \in {ROOT, ETN} \/ records[Parent[n]].owner = WRAPPER
  BY <1>1, <1>5 DEF WrapperInv, ProtectedIsHeld, Held, Subnodes
<1> QED
  BY <1>2, <1>3, <1>4, <1>6

\* Outside the wrapper nobody reaches a protected name.
LEMMA AroundProtected ==
    ASSUME WrapperInv, RegistrarNext, NEW n \in Subnodes, Protected(n)
    PROVE  Held(n)'
<1>a. RegistryTypeOK /\ RegistrarTypeOK
  BY DEF WrapperInv, TypeOK
<1>1. /\ Held(n) /\ tokens[n].expiry >= now
      /\ Parent[n] \in {ROOT, ETN} \/ records[Parent[n]].owner = WRAPPER
  BY ProtectedFacts
<1>2. n \in Nodes /\ Parent[n] \in Nodes
  BY TreeFacts DEF Subnodes
<1>3. n \in Names => ~Available(n)
  <2>1. n \in Names => tokens[n].expiry <= expiries[n] + GRACE_PERIOD
    BY DEF WrapperInv, RegistrationCoversToken
  <2> QED
    BY <1>1, <1>2, <2>1, Numbers DEF Available
<1>4. \A sender \in Senders : ~Authorised(n, sender) /\ ~Authorised(Parent[n], sender)
  BY <1>1, <1>2, NobodySpeaks DEF Held
<1>5. n \in Names => \A sender \in Senders : ~IsApprovedOrOwner(sender, n)
  BY <1>1, NobodySpeaks DEF Held
<1>6. records'[n].owner = records[n].owner
  BY <1>a, <1>2, <1>3, <1>4, <1>5, RecordMoves
<1>7. n \in Names => tokenOwner'[n] = tokenOwner[n]
  BY <1>a, <1>3, <1>5, TokenMoves
<1> QED
  BY <1>1, <1>6, <1>7 DEF Held

\* The steps of the registry and the registrar, and the passing of time.
LEMMA AroundStep ==
    ASSUME WrapperInv, RegistrarNext, UNCHANGED wrapperVars
    PROVE  WrapperInv'
<1> USE RegistryAssumption, RegistrarAssumption
<1>a. /\ RegistryTypeOK /\ RegistrarTypeOK /\ TypeOK'
      /\ tokens' = tokens /\ wrapperOperators' = wrapperOperators
  BY TypeStep DEF WrapperInv, TypeOK, Next, wrapperVars
<1>b. now \in Nat /\ now' \in Nat /\ now' >= now
  <2>1. now' = now \/ now' = now + 1
    BY DEF RegistrarNext, registrarVars, ControllerStep, Register, RegisterOnly, Renew,
           HolderStep, ApproveToken, TransferFrom, Reclaim, DelegationStep,
           SetTokenApprovalForAll, AdminStep, AddController, RemoveController,
           SetTLDResolver, Tick
  <2>2. now \in Nat
    BY Numbers
  <2> QED
    BY <2>1, <2>2
<1>c. \A n \in Nodes : tokens[n].expiry \in Nat
  BY Numbers
<1>d. ASSUME NEW n \in Nodes
      PROVE  /\ Data(n)'.fuses = IF tokens[n].expiry < now' THEN {} ELSE tokens[n].fuses
             /\ Data(n).fuses = IF tokens[n].expiry < now THEN {} ELSE tokens[n].fuses
  BY <1>a DEF Data, Cleared
<1>1. TLDsHeld'
  <2>1. \A sender \in Senders : ~Authorised(ROOT, sender) /\ ~Authorised(ETN, sender)
    BY NobodySpeaks
  <2>2. records'[ROOT].owner = records[ROOT].owner
    BY <1>a, <2>1, TreeFacts, RecordMoves
  <2>3. records'[ETN].owner = records[ETN].owner
    BY <1>a, <2>1, TreeFacts, RecordMoves
  <2> QED
    BY <1>a, <2>2, <2>3 DEF WrapperInv, TLDsHeld
<1>2. DelegationsKnown'
  <2>1. /\ operators' \subseteq operators \union (Senders \X Addresses)
        /\ tokenOperators' \subseteq tokenOperators \union (Senders \X Addresses)
    BY <1>a, OperatorMoves, ApprovalMoves
  <2>2. ASSUME NEW id \in Names, tokenOwner'[id] = WRAPPER
        PROVE  tokenApproved'[id] = NoAddr
    <3>1. CASE tokenOwner'[id] = tokenOwner[id]
      <4>1. \A sender \in Senders :
              sender # tokenOwner[id] /\ <<tokenOwner[id], sender>> \notin tokenOperators
        BY <2>2, <3>1, NobodySpeaks
      <4>2. tokenApproved[id] = NoAddr
        BY <2>2, <3>1 DEF WrapperInv, DelegationsKnown
      <4> QED
        BY <1>a, <4>1, <4>2, ApprovalMoves
    <3>2. CASE tokenOwner'[id] # tokenOwner[id]
      BY <1>a, <3>2, ApprovalMoves
    <3> QED
      BY <3>1, <3>2
  <2> QED
    BY <1>a, <2>1, <2>2 DEF WrapperInv, DelegationsKnown
<1>3. OnlyRenewed' /\ DotEthIsEmancipated' /\ FuseInvariant' /\ ExpiryHierarchy'
  BY <1>a DEF WrapperInv, OnlyRenewed, DotEthIsEmancipated, FuseInvariant, ExpiryHierarchy
<1>4. RegistrationCoversToken'
  <2> SUFFICES ASSUME NEW n \in Names
               PROVE  tokens'[n].expiry <= expiries'[n] + GRACE_PERIOD
    BY DEF RegistrationCoversToken
  <2>1. n \in Nodes /\ tokens[n].expiry <= expiries[n] + GRACE_PERIOD
    BY TreeFacts DEF WrapperInv, RegistrationCoversToken
  <2>2. expiries'[n] >= expiries[n] /\ expiries'[n] \in Nat /\ expiries[n] \in Nat
    BY <1>a, ExpiryMoves DEF TypeOK, RegistrarTypeOK
  <2> QED
    BY <1>a, <1>c, <2>1, <2>2
<1>5. EmancipatedUnderLocked'
  <2> SUFFICES ASSUME NEW n \in Nodes \ {ROOT}, Emancipated(n)'
               PROVE  Locked(Parent[n])'
    BY DEF EmancipatedUnderLocked
  <2>1. Parent[n] \in Nodes /\ tokens[n].expiry <= tokens[Parent[n]].expiry
    BY DEF WrapperInv, ExpiryHierarchy
  <2>2. tokens[n].expiry >= now' /\ Emancipated(n)
    BY <1>b, <1>c, <1>d DEF Emancipated, Burned
  <2>3. Locked(Parent[n])
    BY <2>2 DEF WrapperInv, EmancipatedUnderLocked
  <2>4. tokens[Parent[n]].expiry >= now'
    BY <1>b, <1>c, <2>1, <2>2
  <2> QED
    BY <1>b, <1>c, <1>d, <2>1, <2>3, <2>4 DEF Locked, Burned
<1>6. ProtectedIsHeld'
  <2> SUFFICES ASSUME NEW n \in Subnodes, Protected(n)'
               PROVE  Held(n)'
    BY DEF ProtectedIsHeld
  <2>1. n \in Nodes
    BY TreeFacts
  <2>2. tokens[n].expiry >= now' /\ Data(n)'.fuses = Data(n).fuses
    BY <1>b, <1>c, <1>d, <2>1 DEF Protected, Locked, Emancipated, Burned
  <2>3. Data(n)'.owner = Data(n).owner
    BY <1>a, <1>b, <1>c, <2>1, <2>2 DEF Data, Cleared
  <2>4. Protected(n)
    BY <2>2, <2>3 DEF Protected, Locked, Emancipated, Burned
  <2> QED
    BY <2>4, AroundProtected
<1> QED
  BY <1>a, <1>1, <1>2, <1>3, <1>4, <1>5, <1>6 DEF WrapperInv

LEMMA WrapperInvStep ==
    ASSUME WrapperInv, [Next]_vars
    PROVE  WrapperInv'
<1>1. CASE WrapperNext
  <2>1. TypeOK'
    BY <1>1, TypeStep DEF WrapperInv, Next
  <2> QED
    BY <1>1, <2>1, WrapperSafe, WrapperDelegates, SafeStepKeepsInv
<1>2. CASE RegistrarNext /\ UNCHANGED wrapperVars
  BY <1>2, AroundStep
<1>3. CASE UNCHANGED vars
  BY <1>3 DEF vars, registryVars, registrarVars, tokenVars, wrapperVars, WrapperInv, TypeOK,
              RegistryTypeOK, RegistrarTypeOK, WrapperTypeOK, TLDsHeld, DelegationsKnown,
              OnlyRenewed, DotEthIsEmancipated, FuseInvariant, RegistrationCoversToken,
              ExpiryHierarchy,
              EmancipatedUnderLocked, ProtectedIsHeld, Protected, Locked, Emancipated,
              Burned, Held, Data, Cleared
<1> QED
  BY <1>1, <1>2, <1>3 DEF Next

(***************************************************************************)
(* The theorems                                                            *)
(***************************************************************************)
\* The parts of the invariant hold together in every reachable state.
THEOREM WrapperInvariant == Spec => []WrapperInv
  BY WrapperInvInit, WrapperInvStep, PTL DEF Spec

\* No fuse of the owner is in a fuse word, current or expired, without
\* PARENT_CANNOT_CONTROL and CANNOT_UNWRAP.
THEOREM FusesNeedLock == Spec => []FuseInvariant
<1>1. WrapperInv => FuseInvariant
  BY DEF WrapperInv
<1> QED
  BY <1>1, WrapperInvariant, PTL

\* No name outlives its parent.
THEOREM NoNameOutlivesItsParent == Spec => []ExpiryHierarchy
<1>1. WrapperInv => ExpiryHierarchy
  BY DEF WrapperInv
<1> QED
  BY <1>1, WrapperInvariant, PTL

\* As long as a name is emancipated its parent is locked.
THEOREM ParentStaysLocked == Spec => []EmancipatedUnderLocked
<1>1. WrapperInv => EmancipatedUnderLocked
  BY DEF WrapperInv
<1> QED
  BY <1>1, WrapperInvariant, PTL

\* An emancipated name with an owner, and a locked name, is the wrapper's in the
\* registry and in the registrar.
THEOREM ProtectedNamesAreHeld == Spec => []ProtectedIsHeld
<1>1. WrapperInv => ProtectedIsHeld
  BY DEF WrapperInv
<1> QED
  BY <1>1, WrapperInvariant, PTL

\* No wrapped .etn name outlives its registration and grace period.
THEOREM NoTokenOutlivesItsName == Spec => []RegistrationCoversToken
<1>1. WrapperInv => RegistrationCoversToken
  BY DEF WrapperInv
<1> QED
  BY <1>1, WrapperInvariant, PTL

\* What a step of any of the contracts may do to a token.
LEMMA TokensMove ==
    ASSUME WrapperInv, [Next]_vars, NEW n \in Nodes
    PROVE  /\ tokens'[n].expiry >= tokens[n].expiry
           /\ tokens[n].expiry >= now => tokens[n].fuses \subseteq tokens'[n].fuses
<1>1. CASE WrapperNext
  BY <1>1, WrapperSafe DEF SafeStep, TokenMove
<1>2. CASE tokens' = tokens
  BY <1>2, Numbers
<1> QED
  BY <1>1, <1>2 DEF Next, vars, wrapperVars

\* A fuse is not unset before the name expires, by no operation.
THEOREM FusesHold == Spec => FusesStayBurned
<1>1. ASSUME WrapperInv, [Next]_vars
      PROVE  [\A n \in Nodes : tokens[n].expiry >= now
                               => tokens[n].fuses \subseteq tokens'[n].fuses]_vars
  BY <1>1, TokensMove
<1> QED
  BY <1>1, WrapperInvariant, PTL DEF FusesStayBurned, Spec

\* No operation brings an expiry forward.
THEOREM ExpiriesGrow == Spec => TokenExpiryNeverShortened
<1>1. ASSUME WrapperInv, [Next]_vars
      PROVE  [\A n \in Nodes : tokens'[n].expiry >= tokens[n].expiry]_vars
  BY <1>1, TokensMove
<1> QED
  BY <1>1, WrapperInvariant, PTL DEF TokenExpiryNeverShortened, Spec

(***************************************************************************)
(* Who touches a wrapped name                                              *)
(***************************************************************************)
\* A step changes the owner, the record or the registration of n, or burns a fuse.
Touched(n) ==
    ~ /\ tokens'[n].owner = tokens[n].owner
      /\ tokens'[n].fuses \in {tokens[n].fuses, Data(n).fuses}
      /\ records'[n] = records[n]
      /\ n \in Names => tokenOwner'[n] = tokenOwner[n]

\* Somebody speaks for n or for a parent that still controls it, or the wrapper does
\* not have n, or n is for sale.
MayBeTouched(n) ==
    \/ \E sender \in Senders :
          \/ CanModifyName(n, sender)
          \/ OwnerOrOperator(Data(n).owner, sender) /\ MayTransfer(Data(n))
          \/ /\ n \notin Names /\ CanModifyName(Parent[n], sender)
             /\ ~Emancipated(n)
    \/ records[n].owner # WRAPPER
    \/ n \in Names /\ (tokenOwner[n] # WRAPPER \/ Available(n))

\* An operation about one name touches no other.
LEMMA OthersUntouched ==
    ASSUME WrapperInv, NEW m \in Nodes, NEW t, SetToken(m, t),
           \A k \in Nodes \ {m} : records'[k] = records[k],
           \A k \in Names \ {m} : tokenOwner'[k] = tokenOwner[k],
           NEW n \in Subnodes, Touched(n)
    PROVE  n = m
<1>1. tokens \in [Nodes -> Token] /\ n \in Nodes
  BY TreeFacts DEF WrapperInv, TypeOK, WrapperTypeOK
<1> QED
  BY <1>1 DEF SetToken, Touched

\* The same for the operations that write a record.
LEMMA OneWritten ==
    ASSUME WrapperInv, NEW m \in Nodes, NEW t, SetToken(m, t), UNCHANGED registrarVars,
           NEW owner, NEW resolver, NEW ttl,
           \/ records' = records
           \/ records' = WithOwner(records, m, owner)
           \/ records' = WithRecord(records, m, owner, resolver, ttl)
           \/ records' = WithOwner(WithResolver(records, m, resolver), m, owner)
           \/ records' = WithOwner(WithRecord(records, m, WRAPPER, resolver, ttl), m, owner),
           NEW n \in Subnodes, Touched(n)
    PROVE  n = m
<1>1. records \in [Nodes -> Record]
  BY DEF WrapperInv, TypeOK, RegistryTypeOK
<1>2. \A k \in Nodes \ {m} : records'[k] = records[k]
  BY <1>1 DEF WithOwner, WithRecord, WithResolver
<1>3. \A k \in Names \ {m} : tokenOwner'[k] = tokenOwner[k]
  BY DEF registrarVars, tokenVars
<1> QED
  BY <1>2, <1>3, OthersUntouched

LEMMA NamesTouched ==
    ASSUME WrapperInv, Names2LDStep, NEW n \in Subnodes, Touched(n)
    PROVE  MayBeTouched(n)
<1>a. /\ records \in [Nodes -> Record] /\ tokens \in [Nodes -> Token]
      /\ tokenOwner \in [Names -> Addresses] /\ Names \subseteq Nodes /\ n \in Nodes
  BY TreeFacts DEF WrapperInv, TypeOK, RegistryTypeOK, RegistrarTypeOK, WrapperTypeOK
<1>b. ASSUME NEW m \in Names, NEW owner, NEW fuses, NEW e, NEW resolver,
             WrapName(m, owner, fuses, e, resolver, WithOwner(records, m, WRAPPER)),
             MoveToken(m, WRAPPER)
      PROVE  n = m
  <2>1. PICK t : SetToken(m, t)
    BY <1>b DEF WrapName, Mint
  <2>2. \A k \in Nodes \ {m} : records'[k] = records[k]
    BY <1>a, <1>b DEF WrapName, WithOwner, WithResolver
  <2>3. \A k \in Names \ {m} : tokenOwner'[k] = tokenOwner[k]
    BY <1>a, <1>b DEF MoveToken
  <2> QED
    BY <1>a, <2>1, <2>2, <2>3, OthersUntouched
<1>1. ASSUME NEW sender \in Senders, NEW m \in Names, NEW owner, NEW fuses, NEW resolver,
             \/ WrapETH2LD(sender, m, owner, fuses, resolver)
             \/ OnERC721Received(sender, m, owner, fuses, resolver)
      PROVE  MayBeTouched(n)
  <2>1. n = m
    BY <1>1, <1>b DEF WrapETH2LD, OnERC721Received
  <2>2. tokenOwner[m] # WRAPPER
    BY <1>1, NobodySpeaks DEF WrapETH2LD, OnERC721Received
  <2> QED
    BY <2>1, <2>2 DEF MayBeTouched
<1>2. ASSUME NEW caller, NEW m \in Names, NEW owner, NEW duration, NEW fuses, NEW resolver,
             RegisterAndWrapETH2LD(caller, m, owner, duration, resolver, fuses)
      PROVE  MayBeTouched(n)
  <2>1. n = m
    BY <1>2, <1>b DEF RegisterAndWrapETH2LD
  <2> QED
    BY <1>2, <2>1 DEF MayBeTouched, RegisterAndWrapETH2LD, CanRegister
<1>3. ASSUME NEW caller, NEW m \in Names, NEW duration, RenewETH2LD(caller, m, duration)
      PROVE  ~Touched(n)
  <2>1. /\ \/ tokens' = tokens
           \/ \E e : tokens' = [tokens EXCEPT ![m] = [tokens[m] EXCEPT !.expiry = e]]
        /\ UNCHANGED <<registryVars, tokenOwner>>
    BY <1>3 DEF RenewETH2LD, SetToken
  <2>2. tokens'[n].owner = tokens[n].owner /\ tokens'[n].fuses = tokens[n].fuses
    BY <2>1, <1>a DEF Token
  <2> QED
    BY <2>1, <2>2 DEF Touched, registryVars
<1>4. ASSUME NEW sender \in Senders, NEW m \in Names, NEW registrant, NEW controller,
             UnwrapETH2LD(sender, m, registrant, controller)
      PROVE  MayBeTouched(n)
  <2>1. PICK t : SetToken(m, t)
    BY <1>4 DEF UnwrapETH2LD, UnwrapTo, Burn
  <2>2. \A k \in Nodes \ {m} : records'[k] = records[k]
    BY <1>a, <1>4 DEF UnwrapETH2LD, UnwrapTo, WithOwner
  <2>3. \A k \in Names \ {m} : tokenOwner'[k] = tokenOwner[k]
    BY <1>a, <1>4 DEF UnwrapETH2LD, MoveToken
  <2>4. n = m
    BY <1>a, <2>1, <2>2, <2>3, OthersUntouched
  <2> QED
    BY <1>4, <2>4 DEF UnwrapETH2LD, MayBeTouched
<1> QED
  BY <1>1, <1>2, <1>3, <1>4 DEF Names2LDStep

LEMMA TokenTouched ==
    ASSUME WrapperInv, TokenStep, NEW n \in Subnodes, Touched(n)
    PROVE  MayBeTouched(n)
<1>a. tokens \in [Nodes -> Token] /\ n \in Nodes
  BY TreeFacts DEF WrapperInv, TypeOK, WrapperTypeOK
<1>b. UNCHANGED <<registryVars, registrarVars>> => UNCHANGED <<records, tokenOwner>>
  BY DEF registryVars, registrarVars, tokenVars
<1> PICK sender \in Senders :
        \/ \E m \in Nodes, owner \in Targets :
            \/ Approve(sender, m, owner)
            \/ SafeTransferFrom(sender, m, Data(m).owner, owner)
            \/ Unwrap(sender, m, owner)
            \/ \E resolver \in Resolvers : Wrap(sender, m, owner, resolver)
        \/ \E batch \in Batches, from \in Senders, to \in Targets :
            SafeBatchTransferFrom(sender, batch, from, to)
        \/ \E m \in Nodes : Upgrade(sender, m)
        \/ \E m \in Nodes, fuses \in OwnerFuseInputs : SetFuses(sender, m, fuses)
        \/ \E m \in Nodes, expiry \in ExpiryInputs : ExtendExpiry(sender, m, expiry)
  BY DEF TokenStep
<1>1. ASSUME NEW m \in Nodes, NEW owner, Approve(sender, m, owner)
      PROVE  ~Touched(n)
  BY <1>1, <1>b DEF Approve, Touched
<1>2. ASSUME NEW m \in Nodes, NEW owner, SafeTransferFrom(sender, m, Data(m).owner, owner)
      PROVE  MayBeTouched(n)
  <2>1. PICK t : SetToken(m, t)
    BY <1>2 DEF SafeTransferFrom, TransferTo
  <2>2. n = m
    BY <1>2, <1>b, <2>1, OthersUntouched DEF SafeTransferFrom
  <2> QED
    BY <1>2, <2>2 DEF SafeTransferFrom, TransferTo, Data, MayBeTouched
<1>3. ASSUME NEW m \in Nodes, NEW owner, Unwrap(sender, m, owner)
      PROVE  MayBeTouched(n)
  <2>1. PICK t : SetToken(m, t)
    BY <1>3 DEF Unwrap, UnwrapTo, Burn
  <2>2. n = m
    BY <1>3, <2>1, OneWritten DEF Unwrap, UnwrapTo
  <2> QED
    BY <1>3, <2>2 DEF Unwrap, MayBeTouched
<1>4. ASSUME NEW m \in Nodes, NEW owner, NEW resolver, Wrap(sender, m, owner, resolver)
      PROVE  MayBeTouched(n)
  <2>1. PICK t : SetToken(m, t)
    BY <1>4 DEF Wrap, Mint
  <2>2. \/ records' = WithOwner(records, m, WRAPPER)
        \/ records' = WithOwner(WithResolver(records, m, resolver), m, WRAPPER)
    BY <1>4 DEF Wrap
  <2>3. n = m
    BY <1>4, <2>1, <2>2, OneWritten DEF Wrap
  <2>4. records[m].owner # WRAPPER
    BY <1>4, NobodySpeaks, WrapperAssumption DEF Wrap, Owner
  <2> QED
    BY <2>3, <2>4 DEF MayBeTouched
<1>5. ASSUME NEW batch \in Batches, NEW from, NEW to,
             SafeBatchTransferFrom(sender, batch, from, to)
      PROVE  MayBeTouched(n)
  <2>1. n \in batch
    BY <1>5, <1>a, <1>b DEF SafeBatchTransferFrom, Touched
  <2> QED
    BY <1>5, <2>1 DEF SafeBatchTransferFrom, MayBeTouched
<1>6. ASSUME NEW m \in Nodes, Upgrade(sender, m)
      PROVE  MayBeTouched(n)
  <2>1. PICK t : SetToken(m, t)
    BY <1>6 DEF Upgrade, Burn
  <2>2. n = m
    BY <1>6, <1>b, <2>1, OthersUntouched DEF Upgrade
  <2> QED
    BY <1>6, <2>2 DEF Upgrade, MayBeTouched
<1>7. ASSUME NEW m \in Nodes, NEW fuses, SetFuses(sender, m, fuses)
      PROVE  MayBeTouched(n)
  <2>1. PICK t : SetToken(m, t)
    BY <1>7 DEF SetFuses
  <2>2. n = m
    BY <1>7, <1>b, <2>1, OthersUntouched DEF SetFuses
  <2> QED
    BY <1>7, <2>2 DEF SetFuses, MayBeTouched
<1>8. ASSUME NEW m \in Nodes, NEW expiry, ExtendExpiry(sender, m, expiry)
      PROVE  ~Touched(n)
  <2> DEFINE t == [Data(m) EXCEPT !.expiry = SubnameExpiry(m, expiry)]
  <2>1. SetToken(m, t) /\ Data(m).owner # NoAddr /\ UNCHANGED <<records, tokenOwner>>
    BY <1>8, <1>b DEF ExtendExpiry, IsWrapped
  <2>2. CASE n # m
    BY <1>b, <2>1, <2>2, OthersUntouched
  <2>3. CASE n = m
    <3>1. tokens'[n].owner = Data(n).owner /\ tokens'[n].fuses = Data(n).fuses
      BY <1>a, <2>1, <2>3, DataType DEF SetToken, Token, WrapperTypeOK, Data, Cleared
    <3>2. Data(n).owner = tokens[n].owner
      BY <2>1, <2>3 DEF Data, Cleared
    <3> QED
      BY <2>1, <3>1, <3>2 DEF Touched
  <2> QED
    BY <2>2, <2>3
<1> QED
  BY <1>1, <1>2, <1>3, <1>4, <1>5, <1>6, <1>7, <1>8

LEMMA SubnameTouched ==
    ASSUME WrapperInv, SubnameStep, NEW n \in Subnodes, Touched(n)
    PROVE  MayBeTouched(n)
<1>a. tokens \in [Nodes -> Token] /\ n \in Nodes
  BY TreeFacts DEF WrapperInv, TypeOK, WrapperTypeOK
<1> PICK sender \in Senders, m \in Nodes, fuses \in FuseInputs, expiry \in ExpiryInputs :
        \/ SetChildFuses(sender, m, fuses, expiry)
        \/ \E owner \in Targets :
            \/ SetSubnodeOwnerWrapped(sender, m, owner, fuses, expiry)
            \/ \E resolver \in Resolvers, ttl \in TTLs :
                SetSubnodeRecordWrapped(sender, m, owner, resolver, ttl, fuses, expiry)
  BY DEF SubnameStep
<1>1. CASE SetChildFuses(sender, m, fuses, expiry)
  <2> DEFINE t == [owner |-> Data(m).owner, fuses |-> fuses \union Data(m).fuses,
                   expiry |-> SubnameExpiry(m, expiry)]
  <2>1. SetToken(m, t) /\ Data(m).owner # NoAddr /\ UNCHANGED <<registryVars, registrarVars>>
    BY <1>1 DEF SetChildFuses, IsWrapped
  <2>2. UNCHANGED <<records, tokenOwner>>
    BY <2>1 DEF registryVars, registrarVars, tokenVars
  <2>3. n = m
    BY <2>1, <2>2, OthersUntouched
  <2>4. tokens'[n] = t
    BY <1>a, <2>1, <2>3 DEF SetToken
  <2>5. ~Emancipated(n)
    <3>1. CASE fuses \union Data(m).fuses = Data(m).fuses
      <4>1. tokens'[n].owner = tokens[n].owner
        BY <2>1, <2>3, <2>4 DEF Data, Cleared
      <4> QED
        BY <2>2, <2>3, <2>4, <3>1, <4>1 DEF Touched
    <3>2. CASE PARENT_CANNOT_CONTROL \notin Data(m).fuses
      BY <2>3, <3>2 DEF Emancipated, Burned
    <3> QED
      BY <1>1, <3>1, <3>2 DEF SetChildFuses
  <2>6. CASE Parent[m] = ROOT
    BY <1>1, <2>3, <2>6 DEF SetChildFuses, MayBeTouched
  <2>7. CASE Parent[m] # ROOT
    <3>1. CanModifyName(Parent[m], sender) /\ m \in Nodes \ {ROOT}
      BY <1>1, <2>7 DEF SetChildFuses
    <3> QED
      BY <2>3, <2>5, <3>1, BelowAWrappedName DEF MayBeTouched
  <2> QED
    BY <2>6, <2>7
<1>2. ASSUME NEW owner, NEW resolver, NEW ttl,
             \/ SetSubnodeOwnerWrapped(sender, m, owner, fuses, expiry)
             \/ SetSubnodeRecordWrapped(sender, m, owner, resolver, ttl, fuses, expiry)
      PROVE  MayBeTouched(n)
  <2>1. CanSetSubnode(sender, m, fuses) /\ UNCHANGED registrarVars
    BY <1>2 DEF SetSubnodeOwnerWrapped, SetSubnodeRecordWrapped
  <2>2. PICK t : SetToken(m, t)
    BY <1>2 DEF SetSubnodeOwnerWrapped, SetSubnodeRecordWrapped, UpdateName, UnwrapTo, Burn,
                TransferTo, Mint
  <2>3. \/ records' = records
        \/ records' = WithOwner(records, m, NoAddr)
        \/ records' = WithOwner(records, m, WRAPPER)
        \/ records' = WithRecord(records, m, WRAPPER, resolver, ttl)
        \/ records' = WithOwner(WithRecord(records, m, WRAPPER, resolver, ttl), m, NoAddr)
    BY <1>2 DEF SetSubnodeOwnerWrapped, SetSubnodeRecordWrapped, UpdateName, UnwrapTo
  <2>4. n = m
    BY <2>1, <2>2, <2>3, OneWritten
  <2>5. ~Emancipated(n)
    BY <2>1, <2>4 DEF CanSetSubnode, CanCallSetSubnodeOwner, Emancipated, Burned, Data, Cleared
  <2>6. CanModifyName(Parent[m], sender) /\ m \in Nodes \ {ROOT}
    BY <2>1 DEF CanSetSubnode
  <2> QED
    BY <2>4, <2>5, <2>6, BelowAWrappedName DEF MayBeTouched
<1> QED
  BY <1>1, <1>2

LEMMA WrapperTouched ==
    ASSUME WrapperInv, WrapperNext, NEW n \in Subnodes, Touched(n)
    PROVE  MayBeTouched(n)
<1>a. records \in [Nodes -> Record] /\ n \in Nodes
  BY TreeFacts DEF WrapperInv, TypeOK, RegistryTypeOK
<1>1. CASE RecordStep
  <2>1. PICK sender \in Senders, m \in Nodes :
          \/ \E owner \in Targets, resolver \in Resolvers, ttl \in TTLs :
              SetRecordWrapped(sender, m, owner, resolver, ttl)
          \/ \E resolver \in Resolvers : SetResolverWrapped(sender, m, resolver)
          \/ \E ttl \in TTLs : SetTTLWrapped(sender, m, ttl)
    BY <1>1 DEF RecordStep
  <2>2. CanModifyName(m, sender)
    BY <2>1 DEF SetRecordWrapped, SetResolverWrapped, SetTTLWrapped
  <2>3. n = m
    <3>1. ASSUME NEW owner, NEW resolver, NEW ttl,
                 SetRecordWrapped(sender, m, owner, resolver, ttl)
          PROVE  n = m
      <4>1. PICK t : SetToken(m, t)
        BY <3>1 DEF SetRecordWrapped, UnwrapTo, Burn, TransferTo
      <4>2. \/ records' = WithRecord(records, m, WRAPPER, resolver, ttl)
            \/ records' = WithOwner(WithRecord(records, m, WRAPPER, resolver, ttl), m, NoAddr)
        BY <3>1 DEF SetRecordWrapped, UnwrapTo
      <4> QED
        BY <3>1, <4>1, <4>2, OneWritten DEF SetRecordWrapped
    <3>2. ASSUME NEW resolver, NEW ttl,
                 \/ SetResolverWrapped(sender, m, resolver)
                 \/ SetTTLWrapped(sender, m, ttl)
          PROVE  n = m
      <4>1. UNCHANGED <<registrarVars, wrapperVars>>
            /\ \/ records' = WithResolver(records, m, resolver)
               \/ records' = WithTTL(records, m, ttl)
        BY <3>2 DEF SetResolverWrapped, SetTTLWrapped
      <4>2. UNCHANGED <<tokens, tokenOwner>>
        BY <4>1 DEF registrarVars, tokenVars, wrapperVars
      <4>3. \A k \in Nodes \ {m} : records'[k] = records[k]
        BY <1>a, <4>1 DEF WithResolver, WithTTL
      <4> QED
        BY <1>a, <4>2, <4>3 DEF Touched
    <3> QED
      BY <2>1, <3>1, <3>2
  <2> QED
    BY <2>2, <2>3 DEF MayBeTouched
<1>2. CASE WrapperAdminStep
  <2>1. UNCHANGED <<tokens, tokenOwner, records>>
    BY <1>2 DEF WrapperAdminStep, SetWrapperApprovalForAll, SetWrapperController,
                SetUpgradeContract, registryVars, registrarVars, tokenVars
  <2> QED
    BY <2>1 DEF Touched
<1> QED
  BY <1>1, <1>2, NamesTouched, TokenTouched, SubnameTouched DEF WrapperNext

\* Outside the wrapper nobody touches a name it holds, if the parent is out of reach
\* too and the name is not for sale.
LEMMA AroundTouched ==
    ASSUME WrapperInv, RegistrarNext, UNCHANGED wrapperVars, NEW n \in Subnodes, Held(n),
           Parent[n] \in {ROOT, ETN} \/ records[Parent[n]].owner = WRAPPER,
           n \in Names => ~Available(n)
    PROVE  ~Touched(n)
<1>a. RegistryTypeOK /\ RegistrarTypeOK /\ n \in Nodes /\ Parent[n] \in Nodes /\ n # ETN
  BY TreeFacts DEF WrapperInv, TypeOK, Subnodes
<1>1. \A sender \in Senders : ~Authorised(n, sender) /\ ~Authorised(Parent[n], sender)
  BY <1>a, NobodySpeaks DEF Held
<1>2. n \in Names => \A sender \in Senders : ~IsApprovedOrOwner(sender, n)
  BY NobodySpeaks DEF Held
<1>3. records'[n] = records[n]
  BY <1>a, <1>1, <1>2, OneRecordMoves
<1>4. n \in Names => tokenOwner'[n] = tokenOwner[n]
  BY <1>a, <1>2, TokenMoves
<1> QED
  BY <1>3, <1>4 DEF Touched, wrapperVars

\* Nobody touches a name that nobody speaks for.
LEMMA NobodyTouches ==
    ASSUME WrapperInv, [Next]_vars, NEW n \in Subnodes, Held(n),
           Parent[n] \in {ROOT, ETN} \/ records[Parent[n]].owner = WRAPPER,
           n \in Names => ~Available(n),
           \A sender \in Senders :
              /\ ~CanModifyName(n, sender)
              /\ ~(OwnerOrOperator(Data(n).owner, sender) /\ MayTransfer(Data(n)))
              /\ Emancipated(n) \/ ~CanModifyName(Parent[n], sender)
    PROVE  ~Touched(n)
<1>1. CASE WrapperNext
  BY <1>1, WrapperTouched DEF MayBeTouched, Held
<1>2. CASE RegistrarNext /\ UNCHANGED wrapperVars
  BY <1>2, AroundTouched
<1>3. CASE UNCHANGED vars
  BY <1>3 DEF Touched, vars, registryVars, registrarVars, tokenVars, wrapperVars
<1> QED
  BY <1>1, <1>2, <1>3 DEF Next

\* A name that is emancipated, or whose parent is, in the hands of bystanders: its
\* token, its fuses and its registry record stay as they are, whatever others do.
THEOREM BystandersAreSafe == Spec => BystanderIsSafe
<1>1. ASSUME WrapperInv, [Next]_vars
      PROVE  [\A n \in Subnodes :
                OutOfReach(n) => /\ tokens'[n].owner = tokens[n].owner
                                 /\ tokens'[n].fuses \in {tokens[n].fuses, Data(n).fuses}
                                 /\ records'[n] = records[n]]_vars
  <2> SUFFICES ASSUME NEW n \in Subnodes, OutOfReach(n)
               PROVE  ~Touched(n)
    BY DEF Touched
  <2>a. n \in Nodes \ {ROOT} /\ Parent[n] \in Nodes /\ IsWrapped(n)
        /\ Data(n).owner \in Bystanders
    BY TreeFacts DEF Subnodes, OutOfReach
  <2>b. \A m \in Nodes, sender \in Senders :
          Data(m).owner \in Bystanders => ~OwnerOrOperator(Data(m).owner, sender)
    BY <1>1 DEF Bystanders, OwnerOrOperator, WrapperInv, DelegationsKnown
  <2>1. CASE Emancipated(n)
    <3>1. Protected(n)
      BY <2>1, <2>a DEF Protected, IsWrapped
    <3>2. /\ Held(n) /\ tokens[n].expiry >= now
          /\ Parent[n] \in {ROOT, ETN} \/ records[Parent[n]].owner = WRAPPER
      BY <1>1, <3>1, ProtectedFacts
    <3>3. n \in Names => ~Available(n)
      BY <1>1, <2>a, <3>2, Numbers DEF WrapperInv, RegistrationCoversToken, Available
    <3> QED
      BY <1>1, <2>1, <2>a, <2>b, <3>2, <3>3, NobodyTouches DEF CanModifyName
  <2>2. CASE /\ Parent[n] \in Subnodes /\ Emancipated(Parent[n])
             /\ Data(Parent[n]).owner \in Bystanders
    <3>1. n \notin Names /\ records[n].owner = WRAPPER
      BY <2>2, <2>a, TreeFacts, WrapperAssumption DEF Subnodes, IsWrapped, Owner
    <3>2. Protected(Parent[n])
      BY <2>2, RegistrarAssumption DEF Protected, Bystanders
    <3>3. records[Parent[n]].owner = WRAPPER
      BY <1>1, <2>2, <3>2 DEF WrapperInv, ProtectedIsHeld, Held
    <3> QED
      BY <1>1, <2>2, <2>a, <2>b, <3>1, <3>3, NobodyTouches DEF CanModifyName, Held
  <2> QED
    BY <2>1, <2>2 DEF OutOfReach
<1> QED
  BY <1>1, WrapperInvariant, PTL DEF BystanderIsSafe, Spec

\* A wrapped .etn name is frozen between the end of its registration and the end of
\* the grace period.
THEOREM GraceFreezes2LD == Spec => GraceFreezesName
<1>1. ASSUME WrapperInv, [Next]_vars
      PROVE  [\A n \in Names :
                Data(n).owner # NoAddr /\ InGracePeriod(Data(n))
                => /\ tokens'[n].owner = tokens[n].owner
                   /\ tokens'[n].fuses = tokens[n].fuses
                   /\ records'[n] = records[n]
                   /\ tokenOwner'[n] = tokenOwner[n]]_vars
  <2> SUFFICES ASSUME NEW n \in Names, Data(n).owner # NoAddr, InGracePeriod(Data(n))
               PROVE  ~Touched(n) /\ Data(n).fuses = tokens[n].fuses
    BY DEF Touched
  <2>1. n \in Subnodes /\ n \in Nodes /\ Parent[n] = ETN /\ Parent[n] \in Nodes
    BY TreeFacts
  <2>2. IS_DOT_ETH \in Data(n).fuses /\ Data(n).fuses = tokens[n].fuses
    BY DEF InGracePeriod, Data, Cleared
  <2>3. Emancipated(n)
    BY <1>1, <2>1, <2>2 DEF WrapperInv, DotEthIsEmancipated, Emancipated, Burned
  <2>4. Protected(n)
    BY <2>3 DEF Protected
  <2>5. Held(n) /\ tokens[n].expiry >= now
    BY <1>1, <2>1, <2>4, ProtectedFacts
  <2>6. ~Available(n)
    BY <1>1, <2>1, <2>5, Numbers DEF WrapperInv, RegistrationCoversToken, Available
  <2>7. ~MayTransfer(Data(n))
    BY <2>3 DEF MayTransfer, Emancipated, Burned
  <2> QED
    BY <1>1, <2>1, <2>2, <2>3, <2>5, <2>6, <2>7, NobodyTouches DEF CanModifyName
<1> QED
  BY <1>1, WrapperInvariant, PTL DEF GraceFreezesName, Spec

(***************************************************************************)
(* The wrapper implements the documented lifecycle                         *)
(***************************************************************************)
LifecycleStep == [Lifecycle!Next]_[n \in Nodes |-> StateOf(n)]

\* What the state of a name says about its token.
LEMMA StateFacts ==
    ASSUME NEW n \in Nodes
    PROVE  /\ StateOf(n) \in {"Unregistered", "Unwrapped", "Wrapped", "Emancipated", "Locked"}
           /\ StateOf(n) = "Locked" <=> Locked(n)
           /\ StateOf(n) = "Emancipated" <=> ~Locked(n) /\ IsWrapped(n) /\ Emancipated(n)
           /\ StateOf(n) = "Wrapped" <=> ~Locked(n) /\ IsWrapped(n) /\ ~Emancipated(n)
           /\ StateOf(n) = "Unregistered" <=>
                ~Locked(n) /\ ~IsWrapped(n) /\ Owner(n) \in {NoAddr, WRAPPER}
  BY DEF StateOf

\* A step that moves the token of one name, in the way the operations do, is a step
\* of the lifecycle.
LEMMA OneNameLifecycle ==
    ASSUME WrapperInv, WrapperInv', now' = now, NEW n \in Subnodes, TokenMove(n),
           \A m \in Nodes \ {n} :
              tokens'[m] = tokens[m] /\ records'[m].owner = records[m].owner
    PROVE  LifecycleStep
<1> DEFINE S == [m \in Nodes |-> StateOf(m)]
           to == StateOf(n)'
<1>a. n \in Nodes /\ n # ROOT /\ n # ETN /\ Parent[n] \in Nodes
  BY TreeFacts DEF Subnodes
<1>b. /\ tokens[n].expiry \in Nat /\ tokens'[n].expiry \in Nat /\ now \in Nat
      /\ now' = now
  <2>1. (\A m \in Nodes : tokens[m].expiry \in 0 .. MAX_EXPIRY)'
    BY DEF WrapperInv, TypeOK, WrapperTypeOK, Token
  <2> QED
    BY <1>a, <2>1, Numbers
<1>1. \A m \in Nodes \ {n} : StateOf(m)' = StateOf(m)
  BY DEF StateOf, IsWrapped, Owner, Locked, Emancipated, Burned, Data, Cleared
<1>2. S' = [S EXCEPT ![n] = to]
  BY <1>a, <1>1
<1>3. to \in {"Unregistered", "Unwrapped", "Wrapped", "Emancipated", "Locked"}
  BY DEF StateOf
<1>4. /\ S[n] = StateOf(n) /\ S[Parent[n]] = StateOf(Parent[n])
      /\ n \in Nodes \ {ROOT, ETN}
  BY <1>a
<1>5. CASE StateOf(n) \notin {"Emancipated", "Locked"}
  <2>1. to \in {"Emancipated", "Locked"} => Emancipated(n)'
    BY <1>a, FuseFacts
       DEF WrapperInv, FuseInvariant, CanFusesBeBurned, StateOf, Locked, Emancipated, Burned,
           Data, Cleared
  <2>2. Emancipated(n)' => tokens'[n].expiry >= now /\ PARENT_CANNOT_CONTROL \in tokens'[n].fuses
    BY <1>b DEF Emancipated, Burned, Data, Cleared
  <2>3. tokens[n].expiry >= now /\ PARENT_CANNOT_CONTROL \in tokens[n].fuses => Emancipated(n)
    BY <1>b DEF Emancipated, Burned, Data, Cleared
  <2>4. Emancipated(n)' => Locked(Parent[n])
    BY <1>a, <2>2, <2>3 DEF TokenMove, WrapperInv, EmancipatedUnderLocked, Locked, Burned
  <2>5. to \in {"Emancipated", "Locked"} => S[Parent[n]] = "Locked"
    BY <1>a, <1>4, <2>1, <2>4, StateFacts
  <2>6. Lifecycle!Control(n, to)
    BY <1>2, <1>4, <1>5, <2>5 DEF Lifecycle!Control, Lifecycle!Protected
  <2> QED
    BY <1>3, <1>4, <2>6 DEF LifecycleStep, Lifecycle!Next, Lifecycle!States
<1>6. CASE StateOf(n) \in {"Emancipated", "Locked"}
  <2>1. Emancipated(n)
    BY <1>6, <1>a, FuseFacts
       DEF WrapperInv, FuseInvariant, CanFusesBeBurned, StateOf, Locked, Emancipated, Burned,
           Data, Cleared
  <2>2. tokens[n].expiry >= now
    BY <1>b, <2>1 DEF Emancipated, Burned, Data, Cleared
  <2>3. Data(n)'.fuses = tokens'[n].fuses /\ Data(n).fuses = tokens[n].fuses
    BY <1>b, <2>2 DEF TokenMove, Data, Cleared
  <2>4. tokens[n].fuses \subseteq tokens'[n].fuses
    BY <2>2 DEF TokenMove
  <2>5. Emancipated(n)' /\ (Locked(n) => Locked(n)')
    BY <2>1, <2>3, <2>4 DEF Emancipated, Locked, Burned
  <2>6. CASE StateOf(n) = "Locked"
    <3>1. to = "Locked"
      BY <2>5, <2>6 DEF StateOf
    <3>2. S' = S
      BY <1>a, <1>1, <2>6, <3>1
    <3> QED
      BY <3>2 DEF LifecycleStep
  <2>7. CASE StateOf(n) = "Emancipated"
    <3>1. to # "Wrapped"
      BY <2>5 DEF StateOf
    <3>2. CASE to = "Emancipated"
      <4>1. S' = S
        BY <1>a, <1>1, <2>7, <3>2
      <4> QED
        BY <4>1 DEF LifecycleStep
    <3>3. CASE to = "Locked"
      <4>1. Lifecycle!Lock(n)
        BY <1>2, <1>4, <2>7, <3>3 DEF Lifecycle!Lock
      <4> QED
        BY <1>4, <4>1 DEF LifecycleStep, Lifecycle!Next
    <3>4. CASE to \in {"Unwrapped", "Unregistered"}
      <4>1. Lifecycle!Release(n, to)
        BY <1>2, <1>4, <2>7, <3>4 DEF Lifecycle!Release
      <4> QED
        BY <1>3, <1>4, <4>1 DEF LifecycleStep, Lifecycle!Next, Lifecycle!States
    <3> QED
      BY <1>3, <3>1, <3>2, <3>3, <3>4
  <2> QED
    BY <1>6, <2>6, <2>7
<1> QED
  BY <1>5, <1>6

\* A block ends the protection of the names that have expired, and with a name's the
\* protection of every protected name below it.
LEMMA TickLifecycle ==
    ASSUME WrapperInv, WrapperInv', Tick, UNCHANGED wrapperVars
    PROVE  LifecycleStep
<1> DEFINE S == [m \in Nodes |-> StateOf(m)]
           names == {m \in Nodes : StateOf(m) \in {"Emancipated", "Locked"} /\ tokens[m].expiry < now'}
<1>a. /\ tokens' = tokens /\ records' = records /\ now \in Nat /\ now' = now + 1
      /\ \A m \in Nodes : tokens[m].expiry \in Nat
  BY Numbers DEF Tick, wrapperVars, registryVars
<1>b. ASSUME NEW m \in Nodes
      PROVE  /\ Data(m) = [owner |-> IF tokens[m].expiry < now
                                       /\ PARENT_CANNOT_CONTROL \in tokens[m].fuses
                                    THEN NoAddr ELSE tokens[m].owner,
                           fuses |-> IF tokens[m].expiry < now THEN {} ELSE tokens[m].fuses,
                           expiry |-> tokens[m].expiry]
             /\ Data(m)' = [owner |-> IF tokens[m].expiry < now'
                                        /\ PARENT_CANNOT_CONTROL \in tokens[m].fuses
                                     THEN NoAddr ELSE tokens[m].owner,
                            fuses |-> IF tokens[m].expiry < now' THEN {} ELSE tokens[m].fuses,
                            expiry |-> tokens[m].expiry]
             /\ Owner(m)' = Owner(m)
  BY <1>a DEF Data, Cleared, Owner
<1>1. ASSUME NEW m \in names
      PROVE  m \in Nodes \ {ROOT, ETN} /\ StateOf(m)' = "Unregistered"
  <2>1. m \notin {ROOT, ETN}
    <3>1. now' <= MAX_EXPIRY /\ now' \in Nat /\ MAX_EXPIRY \in Nat
      BY RegistrarAssumption, WrapperAssumption DEF WrapperInv, TypeOK, RegistrarTypeOK
    <3>2. tokens[ROOT].expiry = MAX_EXPIRY /\ tokens[ETN].expiry = MAX_EXPIRY
      BY DEF WrapperInv, TLDsHeld, LockedForEver
    <3> QED
      BY <1>1, <3>1, <3>2
  <2>2. m \in Subnodes /\ Protected(m)
    BY <2>1, StateFacts DEF Subnodes, Protected, IsWrapped
  <2>3. Emancipated(m) /\ records[m].owner = WRAPPER
    BY <2>2, ProtectedFacts DEF Held
  <2>4. PARENT_CANNOT_CONTROL \in tokens[m].fuses
    BY <1>b, <2>3 DEF Emancipated, Burned
  <2>5. Data(m)'.owner = NoAddr /\ Data(m)'.fuses = {} /\ Owner(m)' = WRAPPER
    BY <1>b, <2>3, <2>4, WrapperAssumption DEF Owner
  <2> QED
    BY <2>1, <2>5 DEF StateOf, Locked, IsWrapped, Burned
<1>2. ASSUME NEW m \in Nodes, m \notin names
      PROVE  StateOf(m)' = StateOf(m)
  <2>1. CASE tokens[m].expiry < now'
    <3>1. StateOf(m) \notin {"Emancipated", "Locked"}
      BY <1>2, <2>1
    <3>2. ~Locked(m) /\ ~(IsWrapped(m) /\ Emancipated(m))
      BY <3>1, StateFacts
    <3>3. ~Locked(m)' /\ ~Emancipated(m)' /\ (IsWrapped(m)' <=> IsWrapped(m))
      BY <1>a, <1>b, <2>1, <3>2 DEF Locked, Emancipated, Burned, IsWrapped
    <3>4. Owner(m)' = Owner(m)
      BY <1>b
    <3> QED
      BY <3>2, <3>3, <3>4 DEF StateOf
  <2>2. CASE ~(tokens[m].expiry < now')
    <3>1. Data(m)' = Data(m) /\ Owner(m)' = Owner(m)
      BY <1>a, <1>b, <2>2
    <3> QED
      BY <3>1 DEF StateOf, Locked, Emancipated, Burned, IsWrapped
  <2> QED
    BY <2>1, <2>2
<1>3. ASSUME NEW n \in Nodes \ {ROOT}, Parent[n] \in names, S[n] \in {"Emancipated", "Locked"}
      PROVE  n \in names
  <2>1. tokens[n].expiry <= tokens[Parent[n]].expiry
    BY DEF WrapperInv, ExpiryHierarchy
  <2> QED
    BY <1>3, <1>a, <2>1
<1>4. S' = [m \in Nodes |-> IF m \in names THEN "Unregistered" ELSE S[m]]
  BY <1>1, <1>2
<1>5. names \subseteq Nodes \ {ROOT, ETN} /\ \A m \in names : S[m] \in {"Emancipated", "Locked"}
  BY <1>1
<1> HIDE DEF names
<1>6. Lifecycle!Expire(names)
  BY <1>3, <1>4, <1>5 DEF Lifecycle!Expire, Lifecycle!Protected
<1> QED
  BY <1>5, <1>6 DEF LifecycleStep, Lifecycle!Next

LEMMA EveryStepLifecycle ==
    ASSUME WrapperInv, WrapperInv', [Next]_vars
    PROVE  LifecycleStep
<1> DEFINE S == [m \in Nodes |-> StateOf(m)]
<1>1. ASSUME now' = now, \A n \in Nodes : TokenMove(n), OneStateMoves
      PROVE  LifecycleStep
  <2>1. CASE \A m \in Nodes : StateOf(m)' = StateOf(m)
    <3>1. S' = S
      BY <2>1
    <3> QED
      BY <3>1 DEF LifecycleStep
  <2> QED
    BY <1>1, <2>1, OneNameLifecycle, TreeFacts DEF OneStateMoves
<1>2. CASE WrapperNext
  BY <1>1, <1>2, WrapperSafe DEF SafeStep
<1>3. CASE RegistrarNext /\ UNCHANGED wrapperVars
  <2>1. CASE Tick
    BY <1>3, <2>1, TickLifecycle
  <2>2. CASE now' = now
    <3>1. tokens' = tokens
      BY <1>3 DEF wrapperVars
    <3>2. \A n \in Nodes : TokenMove(n)
      BY <3>1, Unmoved
    <3>3. PICK n \in Nodes : \A m \in Nodes \ {n} : records'[m] = records[m]
      BY <1>3, OneRecordMoves DEF WrapperInv, TypeOK
    <3>4. CASE n \in Subnodes
      BY <1>1, <2>2, <3>1, <3>2, <3>3, <3>4 DEF OneStateMoves
    <3>5. CASE n \in {ROOT, ETN}
      <4>1. \A m \in Nodes : records'[m].owner = records[m].owner
        BY <3>3, <3>5 DEF WrapperInv, TLDsHeld
      <4>2. OneStateMoves
        BY <2>2, <3>1, <4>1
           DEF OneStateMoves, StateOf, IsWrapped, Owner, Locked, Emancipated, Burned, Data, Cleared
      <4> QED
        BY <1>1, <2>2, <3>2, <4>2
    <3> QED
      BY <3>4, <3>5 DEF Subnodes
  <2>3. Tick \/ now' = now
    BY <1>3 DEF RegistrarNext, registrarVars, ControllerStep, Register, RegisterOnly, Renew,
                HolderStep, ApproveToken, TransferFrom, Reclaim, DelegationStep,
                SetTokenApprovalForAll, AdminStep, AddController, RemoveController,
                SetTLDResolver
  <2> QED
    BY <2>1, <2>2, <2>3
<1>4. CASE UNCHANGED vars
  <2>1. \A m \in Nodes : StateOf(m)' = StateOf(m)
    BY <1>4 DEF vars, registryVars, registrarVars, tokenVars, wrapperVars, StateOf, IsWrapped,
                Owner, Locked, Emancipated, Burned, Data, Cleared
  <2>2. S' = S
    BY <2>1
  <2> QED
    BY <2>2 DEF LifecycleStep
<1> QED
  BY <1>2, <1>3, <1>4 DEF Next

LEMMA LifecycleInit ==
    ASSUME Init
    PROVE  Lifecycle!Init
<1>1. WrapperInv
  BY WrapperInvInit
<1>2. \A n \in Subnodes : ~Locked(n) /\ ~IsWrapped(n)
  BY TreeFacts DEF Init, WrapperInit, Locked, Burned, IsWrapped, Data, Cleared, Subnodes
<1>3. ASSUME NEW n \in {ROOT, ETN}
      PROVE  n \in Nodes /\ Locked(n)
  <2>1. n \in Nodes /\ tokens[n] = LockedForEver
    BY <1>1, RegistryAssumption, RegistrarAssumption DEF WrapperInv, TLDsHeld
  <2>2. now \in Nat /\ MAX_EXPIRY \in Nat /\ ~(MAX_EXPIRY < now)
    BY <1>1, Numbers
  <2> QED
    BY <2>1, <2>2 DEF LockedForEver, Locked, Burned, Data, Cleared
<1>4. ASSUME NEW n \in Nodes
      PROVE  /\ StateOf(n) \in {"Unregistered", "Unwrapped", "Locked"}
             /\ StateOf(n) = "Locked" <=> n \in {ROOT, ETN}
  BY <1>2, <1>3 DEF StateOf, Subnodes
<1> QED
  BY <1>4 DEF Lifecycle!Init

\* Every behaviour of the three contracts is one of the documented state machine: a
\* name is protected only under a locked parent, an emancipated name never falls back
\* to its parent, and a locked name leaves that state only by expiring.
THEOREM ImplementsLifecycle == Spec => LifecycleSpec
<1>1. Init => Lifecycle!Init
  BY LifecycleInit
<1>2. WrapperInv /\ WrapperInv' /\ [Next]_vars => [Lifecycle!Next]_[n \in Nodes |-> StateOf(n)]
  BY EveryStepLifecycle DEF LifecycleStep
<1> QED
  BY <1>1, <1>2, WrapperInvariant, PTL DEF LifecycleSpec, Spec, Lifecycle!Spec

-----------------------------------------------------------------------------
(***************************************************************************)
(* The resolver.  A transaction is a fold over its calls, and              *)
(* setDNSRecords a fold over its records, so these proofs need induction.  *)
(* The induction theorems of the library take a predicate, which no prover *)
(* here can instantiate; the least element of a set of naturals takes      *)
(* none, and everything below rests on it.                                 *)
(***************************************************************************)

(***************************************************************************)
(* Induction over the naturals, the predicate being a set                  *)
(***************************************************************************)
Below == {pair \in Nat \X Nat : pair[1] < pair[2]}

LEMMA BelowIsWellFounded == IsWellFoundedOn(Below, Nat)
  BY NatLessThanWellFounded, Zenon DEF OpToRel, Below

LEMMA Least ==
    ASSUME NEW S, S \subseteq Nat, S # {}
    PROVE  \E m \in S : \A k \in S : m <= k
<1>1. PICK m \in S : \A k \in S : ~ (<<k, m>> \in Below)
  BY BelowIsWellFounded, WFMin, Zenon
<1>2. ASSUME NEW k \in S PROVE m <= k
  <2>1. k \in Nat /\ m \in Nat
    BY <1>2
  <2>2. ~ (k < m)
    BY <2>1, <1>1, <1>2 DEF Below
  <2> QED
    BY <2>1, <2>2
<1> QED
  BY <1>2

LEMMA Induction ==
    ASSUME NEW S, 0 \in S, \A n \in Nat : n \in S => (n + 1) \in S
    PROVE  Nat \subseteq S
<1> SUFFICES ASSUME ~(Nat \subseteq S) PROVE FALSE
  OBVIOUS
<1>1. PICK m \in Nat \ S : \A k \in Nat \ S : m <= k
  <2>1. Nat \ S \subseteq Nat /\ Nat \ S # {}
    OBVIOUS
  <2> QED
    BY <2>1, Least
<1>2. m # 0 /\ (m - 1) \in Nat
  BY <1>1
<1>3. (m - 1) \in S
  BY <1>1, <1>2
<1>4. ((m - 1) + 1) \in S
  BY <1>2, <1>3
<1> QED
  BY <1>1, <1>4

(***************************************************************************)
(* Folds from the left take the elements of the domain by their maximum    *)
(***************************************************************************)
LEMMA MaxIs ==
    ASSUME NEW n \in Nat, NEW s \in SUBSET (1 .. n), n \in s
    PROVE  Max(s) = n
<1>1. s \subseteq 1 .. n
  OBVIOUS
<1>2. \A y \in s : n >= y
  BY <1>1
<1>3. \A x \in s : (\A y \in s : x >= y) => x = n
  BY <1>1, <1>2
<1> QED
  BY <1>2, <1>3 DEF Max

LEMMA MaxIsIn ==
    ASSUME NEW n \in Nat, NEW s \in SUBSET (1 .. n), s # {}
    PROVE  Max(s) \in s
<1> DEFINE S == {n - y : y \in s}
<1>1. S \subseteq Nat /\ S # {}
  <2>1. \A y \in s : y \in 1 .. n
    OBVIOUS
  <2>2. \A y \in s : n - y \in Nat
    BY <2>1
  <2>3. PICK y \in s : TRUE
    OBVIOUS
  <2>4. (n - y) \in S
    BY <2>3
  <2> QED
    BY <2>2, <2>4
<1>2. PICK m \in S : \A k \in S : m <= k
  BY <1>1, Least
<1>3. PICK x \in s : m = n - x
  BY <1>2
<1>4. \A y \in s : x >= y
  <2> TAKE y \in s
  <2>1. (n - y) \in S
    OBVIOUS
  <2>2. m <= (n - y)
    BY <2>1, <1>2
  <2> QED
    BY <2>2, <1>3
<1> QED
  BY <1>3, <1>4 DEF Max

\* h does what a fold of n elements does, with step as the folded operation.
Iterates(h, n, base, step) ==
    \A s \in SUBSET (1 .. n) :
        h[s] = IF s = {} THEN base ELSE step[<<h[s \ {Max(s)}], Max(s)>>]

\* The recursion of a fold has a solution.
LEMMA Recursion ==
    ASSUME NEW n \in Nat, NEW V, NEW base \in V, NEW step \in [V \X (1 .. n) -> V]
    PROVE  \E h \in [SUBSET (1 .. n) -> V] : Iterates(h, n, base, step)
<1> DEFINE Upto(m) == SUBSET (1 .. m)
           Solves(m, h) == \A s \in Upto(m) :
               h[s] = IF s = {} THEN base ELSE step[<<h[s \ {Max(s)}], Max(s)>>]
           Has(m) == \E h \in [Upto(m) -> V] : Solves(m, h)
           K == {m \in Nat : m <= n => Has(m)}
<1>1. 0 \in K
  <2>1. Upto(0) = {{}}
    OBVIOUS
  <2>2. Solves(0, [s \in Upto(0) |-> base])
    BY <2>1
  <2>3. Has(0)
    BY <2>2
  <2> HIDE DEF Has
  <2> QED
    BY <2>3
<1>2. ASSUME NEW m \in Nat, m + 1 <= n, Has(m) PROVE Has(m + 1)
  <2>1. PICK h \in [Upto(m) -> V] : Solves(m, h)
    <3> HIDE DEF Upto, Solves
    <3> QED
      BY <1>2
  <2> DEFINE g == [s \in Upto(m + 1) |->
                     IF (m + 1) \in s THEN step[<<h[s \ {m + 1}], m + 1>>] ELSE h[s]]
  <2>2. \A s \in Upto(m + 1) : (m + 1) \in s => s \ {m + 1} \in Upto(m)
    OBVIOUS
  <2>3. \A s \in Upto(m + 1) : (m + 1) \notin s => s \in Upto(m)
    OBVIOUS
  <2>4. g \in [Upto(m + 1) -> V]
    <3> SUFFICES ASSUME NEW s \in Upto(m + 1) PROVE g[s] \in V
      OBVIOUS
    <3>1. CASE (m + 1) \in s
      <4>1. h[s \ {m + 1}] \in V
        BY <3>1, <2>2
      <4>2. m + 1 \in 1 .. n
        BY <1>2
      <4> QED
        BY <3>1, <4>1, <4>2
    <3>2. CASE (m + 1) \notin s
      BY <3>2, <2>3
    <3> QED
      BY <3>1, <3>2
  <2>5. Solves(m + 1, g)
    <3> SUFFICES ASSUME NEW s \in Upto(m + 1)
                 PROVE  g[s] = IF s = {} THEN base
                               ELSE step[<<g[s \ {Max(s)}], Max(s)>>]
      OBVIOUS
    <3>1. CASE (m + 1) \in s
      <4>1. Max(s) = m + 1
        BY <3>1, MaxIs
      <4>2. s \ {m + 1} \in Upto(m) /\ s \ {m + 1} \in Upto(m + 1)
        BY <3>1, <2>2
      <4>3. g[s \ {m + 1}] = h[s \ {m + 1}]
        BY <4>2
      <4> QED
        BY <3>1, <4>1, <4>3
    <3>2. CASE (m + 1) \notin s
      <4>1. s \in Upto(m)
        BY <3>2, <2>3
      <4>2. g[s] = h[s]
        BY <3>2
      <4>3. CASE s = {}
        BY <4>1, <4>2, <4>3, <2>1
      <4>4. CASE s # {}
        <5>1. Max(s) \in s
          BY <4>1, <4>4, MaxIsIn
        <5>2. /\ s \ {Max(s)} \in Upto(m) /\ s \ {Max(s)} \in Upto(m + 1)
              /\ (m + 1) \notin s \ {Max(s)}
          BY <3>2, <4>1
        <5>3. g[s \ {Max(s)}] = h[s \ {Max(s)}]
          BY <5>2
        <5>4. h[s] = step[<<h[s \ {Max(s)}], Max(s)>>]
          BY <4>1, <4>4, <2>1
        <5> QED
          BY <4>2, <4>4, <5>3, <5>4
      <4> QED
        BY <4>3, <4>4
    <3> QED
      BY <3>1, <3>2
  <2> QED
    BY <2>4, <2>5
<1>3. Nat \subseteq K
  <2> HIDE DEF Has
  <2>1. \A m \in Nat : m \in K => (m + 1) \in K
    BY <1>2
  <2> HIDE DEF K
  <2> QED
    BY <1>1, <2>1, Induction
<1>4. Has(n)
  <2> HIDE DEF Has
  <2> QED
    BY <1>3
<1> QED
  BY <1>4 DEF Iterates

\* What each element keeps, the fold keeps.
LEMMA Chain ==
    ASSUME NEW n \in Nat, NEW it, NEW G, it[{}] \in G[0],
           \A m \in 0 .. (n - 1) : it[1 .. m] \in G[m] => it[1 .. (m + 1)] \in G[m + 1]
    PROVE  it[1 .. n] \in G[n]
<1> DEFINE K == {m \in Nat : m <= n => it[1 .. m] \in G[m]}
<1>1. 0 \in K
  <2>1. 1 .. 0 = {}
    OBVIOUS
  <2> QED
    BY <2>1
<1>2. \A m \in Nat : m \in K => (m + 1) \in K
  OBVIOUS
<1>3. Nat \subseteq K
  <2> HIDE DEF K
  <2> QED
    BY <1>1, <1>2, Induction
<1> QED
  BY <1>3

\* The elements a fold over 1 .. n takes off: one of them, the last of each prefix.
LEMMA MaxTaken ==
    ASSUME NEW n \in Nat, NEW s \in SUBSET (1 .. n), s # {}
    PROVE  Max(s) \in 1 .. n /\ s \ {Max(s)} \in SUBSET (1 .. n)
<1>1. Max(s) \in s
  BY MaxIsIn
<1> QED
  BY <1>1

LEMMA LastTaken ==
    ASSUME NEW n \in Nat, NEW m \in 0 .. (n - 1)
    PROVE  /\ 1 .. (m + 1) \in SUBSET (1 .. n) /\ 1 .. (m + 1) # {}
           /\ Max(1 .. (m + 1)) = m + 1
           /\ (1 .. (m + 1)) \ {m + 1} = 1 .. m
<1>1. m + 1 \in Nat /\ m + 1 \in 1 .. (m + 1)
  OBVIOUS
<1>2. Max(1 .. (m + 1)) = m + 1
  BY <1>1, MaxIs
<1>3. 1 .. (m + 1) \in SUBSET (1 .. n) /\ (1 .. (m + 1)) \ {m + 1} = 1 .. m
  OBVIOUS
<1> QED
  BY <1>1, <1>2, <1>3

(***************************************************************************)
(* The calls of a transaction                                              *)
(***************************************************************************)
LEMMA CallsKeep ==
    ASSUME NEW batch \in Seq(Calls), NEW G, NEW base \in G,
           \A db \in G, i \in 1 .. Len(batch) : Apply(db, batch[i]) \in G
    PROVE  FoldLeft(Apply, base, batch) \in G
<1> DEFINE n == Len(batch)
           Step(it, s) == IF s = {} THEN base
                          ELSE Apply(it[s \ {Max(s)}], batch[Max(s)])
           step == [pair \in G \X (1 .. n) |-> Apply(pair[1], batch[pair[2]])]
           iter == CHOOSE it : it = [s \in SUBSET (1 .. n) |-> Step(it, s)]
<1>1. n \in Nat /\ DOMAIN batch = 1 .. n
  OBVIOUS
<1>2. FoldLeft(Apply, base, batch) = iter[1 .. n]
  BY <1>1 DEF FoldLeft, MapThenFoldSet
<1>3. PICK h \in [SUBSET (1 .. n) -> G] : Iterates(h, n, base, step)
  <2>1. step \in [G \X (1 .. n) -> G]
    OBVIOUS
  <2> HIDE DEF step, n
  <2> QED
    BY <1>1, <2>1, Recursion
<1>4. h = [s \in SUBSET (1 .. n) |-> Step(h, s)]
  <2> SUFFICES ASSUME NEW s \in SUBSET (1 .. n) PROVE h[s] = Step(h, s)
    OBVIOUS
  <2>1. CASE s = {}
    BY <2>1, <1>3 DEF Iterates
  <2>2. CASE s # {}
    <3>1. Max(s) \in 1 .. n /\ s \ {Max(s)} \in SUBSET (1 .. n)
      <4> HIDE DEF n
      <4> QED
        BY <2>2, <1>1, MaxTaken
    <3>2. h[s \ {Max(s)}] \in G
      BY <3>1
    <3>3. step[<<h[s \ {Max(s)}], Max(s)>>] = Apply(h[s \ {Max(s)}], batch[Max(s)])
      BY <3>1, <3>2
    <3> HIDE DEF step
    <3> QED
      BY <2>2, <3>3, <1>3 DEF Iterates
  <2> QED
    BY <2>1, <2>2
<1>5. iter = [s \in SUBSET (1 .. n) |-> Step(iter, s)]
  <2> HIDE DEF Step
  <2> QED
    BY <1>4
<1> HIDE DEF iter, step
<1>6. iter[{}] = base
  BY <1>5
<1>7. ASSUME NEW m \in 0 .. (n - 1), iter[1 .. m] \in G
      PROVE  iter[1 .. (m + 1)] \in G
  <2>1. m + 1 \in 1 .. n
    BY <1>1
  <2>2. /\ 1 .. (m + 1) \in SUBSET (1 .. n) /\ 1 .. (m + 1) # {}
        /\ Max(1 .. (m + 1)) = m + 1
        /\ (1 .. (m + 1)) \ {m + 1} = 1 .. m
    <3> HIDE DEF n
    <3> QED
      BY <1>1, LastTaken
  <2>3. iter[1 .. (m + 1)] = Apply(iter[1 .. m], batch[m + 1])
    BY <2>2, <1>5
  <2> QED
    BY <1>7, <2>1, <2>3
<1> DEFINE Good == [m \in 0 .. n |-> G]
<1>8. iter[1 .. n] \in Good[n]
  <2>1. iter[{}] \in Good[0]
    BY <1>1, <1>6
  <2>2. \A m \in 0 .. (n - 1) : iter[1 .. m] \in Good[m] => iter[1 .. (m + 1)] \in Good[m + 1]
    BY <1>1, <1>7
  <2> HIDE DEF Good, n
  <2> QED
    BY <1>1, <2>1, <2>2, Chain
<1> QED
  BY <1>1, <1>2, <1>8

(***************************************************************************)
(* The records of a call of setDNSRecords                                  *)
(***************************************************************************)
RR == [name : DNSNames, type : RRTypes, empty : BOOLEAN]

LEMMA ReadsKeep ==
    ASSUME NEW db, NEW n, NEW rrs \in Seq(RR), rrs # <<>>,
           NEW V, [rr |-> rrs[1], first |-> 1, db |-> db] \in V,
           \A set \in V, i \in 1 .. Len(rrs) : ReadRR(n, rrs, set, i) \in V,
           NEW G, [rr |-> rrs[1], first |-> 1, db |-> db] \in G[0],
           \A m \in 0 .. (Len(rrs) - 1) : \A set \in G[m] :
                ReadRR(n, rrs, set, m + 1) \in G[m + 1]
    PROVE  \E set \in G[Len(rrs)] : WriteRRs(db, n, rrs) = WriteSet(n, rrs, set, Len(rrs))
<1> DEFINE len == Len(rrs)
           start == [rr |-> rrs[1], first |-> 1, db |-> db]
           ids == [i \in DOMAIN rrs |-> i]
           Step(it, s) == IF s = {} THEN start
                          ELSE ReadRR(n, rrs, it[s \ {Max(s)}], ids[Max(s)])
           step == [pair \in V \X (1 .. len) |-> ReadRR(n, rrs, pair[1], pair[2])]
           iter == CHOOSE it : it = [s \in SUBSET (DOMAIN ids) |-> Step(it, s)]
<1>1. len \in Nat /\ DOMAIN rrs = 1 .. len /\ DOMAIN ids = 1 .. len
  OBVIOUS
<1>2. WriteRRs(db, n, rrs) = WriteSet(n, rrs, iter[DOMAIN ids], len)
  BY DEF WriteRRs, FoldLeftDomain, FoldLeft, MapThenFoldSet
<1>3. PICK h \in [SUBSET (1 .. len) -> V] : Iterates(h, len, start, step)
  <2>1. step \in [V \X (1 .. len) -> V]
    OBVIOUS
  <2> HIDE DEF step, len
  <2> QED
    BY <1>1, <2>1, Recursion
<1>4. h = [s \in SUBSET (DOMAIN ids) |-> Step(h, s)]
  <2> SUFFICES ASSUME NEW s \in SUBSET (1 .. len) PROVE h[s] = Step(h, s)
    BY <1>1
  <2>1. CASE s = {}
    BY <2>1, <1>3 DEF Iterates
  <2>2. CASE s # {}
    <3>1. Max(s) \in 1 .. len /\ s \ {Max(s)} \in SUBSET (1 .. len)
      <4> HIDE DEF len
      <4> QED
        BY <2>2, <1>1, MaxTaken
    <3>2. h[s \ {Max(s)}] \in V
      BY <3>1
    <3>3. step[<<h[s \ {Max(s)}], Max(s)>>] = ReadRR(n, rrs, h[s \ {Max(s)}], ids[Max(s)])
      BY <1>1, <3>1, <3>2
    <3> HIDE DEF step, ids
    <3> QED
      BY <2>2, <3>3, <1>3 DEF Iterates
  <2> QED
    BY <2>1, <2>2
<1>5. iter = [s \in SUBSET (1 .. len) |-> Step(iter, s)]
  <2>1. iter = [s \in SUBSET (DOMAIN ids) |-> Step(iter, s)]
    <3> HIDE DEF Step
    <3> QED
      BY <1>4
  <2> QED
    BY <1>1, <2>1
<1> HIDE DEF iter, step
<1>6. iter[{}] = start
  BY <1>5
<1>7. ASSUME NEW m \in 0 .. (len - 1), iter[1 .. m] \in G[m]
      PROVE  iter[1 .. (m + 1)] \in G[m + 1]
  <2>1. m + 1 \in 1 .. len /\ ids[m + 1] = m + 1
    BY <1>1
  <2>2. /\ 1 .. (m + 1) \in SUBSET (1 .. len) /\ 1 .. (m + 1) # {}
        /\ Max(1 .. (m + 1)) = m + 1
        /\ (1 .. (m + 1)) \ {m + 1} = 1 .. m
    <3> HIDE DEF len
    <3> QED
      BY <1>1, LastTaken
  <2>3. iter[1 .. (m + 1)] = ReadRR(n, rrs, iter[1 .. m], m + 1)
    <3> HIDE DEF ids
    <3> QED
      BY <2>1, <2>2, <1>5
  <2> QED
    BY <1>7, <2>3
<1>8. iter[1 .. len] \in G[len]
  <2>1. iter[{}] \in G[0]
    BY <1>6
  <2>2. \A m \in 0 .. (len - 1) : iter[1 .. m] \in G[m] => iter[1 .. (m + 1)] \in G[m + 1]
    BY <1>7
  <2> HIDE DEF len
  <2> QED
    BY <1>1, <2>1, <2>2, Chain
<1> QED
  BY <1>1, <1>2, <1>8

(***************************************************************************)
(* Calls and keys                                                          *)
(***************************************************************************)
DNSKeys == {"dns"} \X DNSNames \X RRTypes

ValueKeys ==
    ({"addr"} \X CoinTypes) \union ({"text"} \X TextKeys) \union ({"data"} \X DataKeys)
    \union ({"abi"} \X ContentTypes) \union ({"interface"} \X InterfaceIDs)
    \union {<<"name">>, <<"contenthash">>, <<"pubkey">>, <<"zonehash">>}

LEMMA KeysDiffer ==
    /\ \A key \in ValueKeys : key # <<"dns">> /\ key # <<"clear">>
    /\ \A key \in ValueKeys, dnsName \in DNSNames, type \in RRTypes :
          key # <<"dns", dnsName, type>>
    /\ <<"dns">> # <<"clear">>
<1>1. ASSUME NEW key \in ValueKeys PROVE key # <<"dns">> /\ key # <<"clear">>
  BY <1>1 DEF ValueKeys
<1>2. ASSUME NEW key \in ValueKeys, NEW dnsName \in DNSNames, NEW type \in RRTypes
      PROVE  key # <<"dns", dnsName, type>>
  BY <1>2 DEF ValueKeys
<1> QED
  BY <1>1, <1>2

LEMMA CallKinds ==
    ASSUME NEW call \in Calls
    PROVE  /\ call.node \in Nodes
           /\ \/ call.key = <<"dns">> /\ call.value \in RRLists
              \/ call.key = <<"clear">>
              \/ call.key \in ValueKeys /\ call.value \in Values
<1>1. PICK n \in Nodes : call \in CallsOn(n)
  BY DEF Calls
<1>2. CASE \E v \in Values : call \in ValueCalls(n, v)
  <2>1. PICK v \in Values : call \in ValueCalls(n, v)
    BY <1>2
  <2>2. \E key \in ValueKeys : call = Call(n, key, v)
    BY <2>1 DEF ValueCalls, ValueKeys, SetAddr, SetText, SetData, SetABI, SetInterface,
                SetName, SetContenthash, SetPubkey, SetZonehash
  <2> QED
    BY <2>2 DEF Call
<1>3. CASE \E rrs \in RRLists : call = SetDNSRecords(n, rrs)
  BY <1>3 DEF SetDNSRecords, Call
<1>4. CASE call = ClearRecords(n)
  BY <1>4 DEF ClearRecords, Call
<1>5. \/ \E v \in Values : call \in ValueCalls(n, v)
      \/ \E rrs \in RRLists : call = SetDNSRecords(n, rrs)
      \/ call = ClearRecords(n)
  BY <1>1, Zenon DEF CallsOn
<1> QED
  BY <1>2, <1>3, <1>4, <1>5

(***************************************************************************)
(* What holds of the storage after every call                              *)
(***************************************************************************)
Item == [version : Nat, node : Nodes, key : ValueKeys \union DNSKeys,
         value : Values \union Seq(RR)]

Database == [versions : [Nodes -> Nat], stored : SUBSET Item,
             entries : [Nodes -> [0 .. MaxVersion -> [DNSNames -> Int]]]]

\* What setDNSRecords takes for "no record yet" is not passed to it.
NoZeroType == \A rrs \in RRLists : \A i \in 1 .. Len(rrs) : rrs[i].type # ZeroType

OneValuePerKey(db) ==
    \A s, t \in db.stored :
        s.version = t.version /\ s.node = t.node /\ s.key = t.key => s = t

NothingAhead(db) == \A s \in db.stored : s.version <= db.versions[s.node]

SetsOf(db, n, v, dnsName) ==
    {s \in db.stored : /\ s.node = n /\ s.version = v
                       /\ \E type \in RRTypes : s.key = <<"dns", dnsName, type>>}

Counted(db) ==
    \A n \in Nodes, v \in 0 .. MaxVersion, dnsName \in DNSNames :
        db.entries[n][v][dnsName] = Cardinality(SetsOf(db, n, v, dnsName))

\* The records of a list are all of this name and type.
All(rrs, dnsName, type) ==
    \A i \in 1 .. Len(rrs) : rrs[i].name = dnsName /\ rrs[i].type = type

SetsAreOwn(db) ==
    \A s \in db.stored, dnsName \in DNSNames, type \in RRTypes :
        s.key = <<"dns", dnsName, type>> => All(s.value, dnsName, type)

Consistent(db) ==
    /\ db \in Database /\ IsFiniteSet(db.stored)
    /\ OneValuePerKey(db)
    /\ NothingAhead(db)
    /\ Counted(db)
    /\ NoZeroType => SetsAreOwn(db)

\* db comes after old, with calls about the nodes of M.
Since(db, old, M) ==
    /\ \A n \in Nodes : db.versions[n] >= old.versions[n]
    /\ \A n \in Nodes \ M : db.versions[n] = old.versions[n]
    /\ \A s \in db.stored \union old.stored :
          s.node \notin M => s \in db.stored /\ s \in old.stored

LEMMA SinceThen ==
    ASSUME NEW old \in Database, NEW mid \in Database, NEW db \in Database, NEW M,
           Since(mid, old, M), Since(db, mid, M)
    PROVE  Since(db, old, M)
<1>1. \A n \in Nodes : /\ db.versions[n] \in Nat /\ mid.versions[n] \in Nat
                       /\ old.versions[n] \in Nat
  BY DEF Database
<1> QED
  BY <1>1 DEF Since

(***************************************************************************)
(* A value is written or erased                                            *)
(***************************************************************************)
LEMMA PutInDatabase ==
    ASSUME NEW db \in Database, NEW n \in Nodes, NEW key \in ValueKeys \union DNSKeys,
           NEW value \in Values \union Seq(RR), NEW new, new = Put(db, n, key, value)
    PROVE  /\ new \in Database /\ new.versions = db.versions /\ new.entries = db.entries
           /\ new = [versions |-> db.versions, stored |-> new.stored, entries |-> db.entries]
           /\ new.stored = (db.stored \ At(db, n, key)) \union
                  IF value = NoValue THEN {}
                  ELSE {[version |-> db.versions[n], node |-> n, key |-> key, value |-> value]}
<1> DEFINE item == [version |-> db.versions[n], node |-> n, key |-> key, value |-> value]
           added == IF value = NoValue THEN {} ELSE {item}
<1>1. /\ db = [versions |-> db.versions, stored |-> db.stored, entries |-> db.entries]
      /\ db.versions \in [Nodes -> Nat] /\ db.stored \subseteq Item
      /\ db.entries \in [Nodes -> [0 .. MaxVersion -> [DNSNames -> Int]]]
  BY DEF Database
<1>2. new = [versions |-> db.versions, stored |-> (db.stored \ At(db, n, key)) \union added,
             entries |-> db.entries]
  BY <1>1 DEF Put
<1>3. item \in Item
  BY <1>1 DEF Item
<1>4. new \in Database
  BY <1>1, <1>2, <1>3 DEF Database
<1> QED
  BY <1>2, <1>4

LEMMA PutKeeps ==
    ASSUME NEW db \in Database, IsFiniteSet(db.stored), OneValuePerKey(db), NothingAhead(db),
           NEW n \in Nodes, NEW key \in ValueKeys \union DNSKeys,
           NEW value \in Values \union Seq(RR),
           NEW new, new = Put(db, n, key, value)
    PROVE  /\ new \in Database /\ IsFiniteSet(new.stored)
           /\ new.versions = db.versions /\ new.entries = db.entries
           /\ OneValuePerKey(new) /\ NothingAhead(new)
           /\ Since(new, db, {n})
<1> DEFINE item == [version |-> db.versions[n], node |-> n, key |-> key, value |-> value]
           added == IF value = NoValue THEN {} ELSE {item}
<1>1. db.versions \in [Nodes -> Nat]
  BY DEF Database
<1>2. /\ new \in Database /\ new.versions = db.versions /\ new.entries = db.entries
      /\ new.stored = (db.stored \ At(db, n, key)) \union added
  BY PutInDatabase
<1>5. IsFiniteSet(new.stored)
  <2>1. IsFiniteSet(db.stored \ At(db, n, key))
    BY FS_Subset
  <2>2. IsFiniteSet((db.stored \ At(db, n, key)) \union {item})
    BY <2>1, FS_AddElement
  <2>3. CASE value = NoValue
    <3>1. new.stored = db.stored \ At(db, n, key)
      BY <1>2, <2>3
    <3> QED
      BY <2>1, <3>1
  <2>4. CASE value # NoValue
    <3>1. new.stored = (db.stored \ At(db, n, key)) \union {item}
      BY <1>2, <2>4
    <3> QED
      BY <2>2, <3>1
  <2> QED
    BY <2>3, <2>4
<1>6. \A s \in new.stored :
          \/ s \in db.stored /\ s \notin At(db, n, key)
          \/ s = item
  BY <1>2
<1>7. OneValuePerKey(new)
  BY <1>6 DEF OneValuePerKey, At
<1>8. NothingAhead(new)
  <2>1. db.versions[n] \in Nat
    BY <1>1
  <2> QED
    BY <1>2, <1>6, <2>1 DEF NothingAhead
<1>9. Since(new, db, {n})
  <2>1. \A m \in Nodes : new.versions[m] = db.versions[m] /\ db.versions[m] \in Nat
    BY <1>1, <1>2
  <2>2. \A s \in new.stored \union db.stored :
            s.node # n => s \in new.stored /\ s \in db.stored
    BY <1>2 DEF At
  <2>3. ASSUME NEW m \in Nodes PROVE new.versions[m] >= db.versions[m]
    <3>1. new.versions[m] = db.versions[m] /\ db.versions[m] \in Nat
      BY <2>1
    <3> QED
      BY <3>1
  <2>4. \A s \in new.stored \union db.stored :
            s.node \notin {n} => s \in new.stored /\ s \in db.stored
    BY <2>2
  <2>5. \A m \in Nodes \ {n} : new.versions[m] = db.versions[m]
    BY <2>1
  <2> QED
    BY <2>3, <2>4, <2>5, Zenon DEF Since
<1> QED
  BY <1>2, <1>5, <1>7, <1>8, <1>9

\* A value of another profile leaves the record sets and their counts alone.
LEMMA ValuePut ==
    ASSUME NEW db, Consistent(db), NEW n \in Nodes, NEW key \in ValueKeys, NEW value \in Values,
           NEW new, new = Put(db, n, key, value)
    PROVE  Consistent(new) /\ Since(new, db, {n})
<1>1. /\ db \in Database /\ IsFiniteSet(db.stored) /\ OneValuePerKey(db) /\ NothingAhead(db)
      /\ Counted(db) /\ (NoZeroType => SetsAreOwn(db))
  BY DEF Consistent
<1>2. /\ new \in Database /\ IsFiniteSet(new.stored)
      /\ new.versions = db.versions /\ new.entries = db.entries
      /\ OneValuePerKey(new) /\ NothingAhead(new)
      /\ Since(new, db, {n})
  BY <1>1, PutKeeps
<1>3. ASSUME NEW s, NEW dnsName \in DNSNames, NEW type \in RRTypes,
             s.key = <<"dns", dnsName, type>>
      PROVE  s \in new.stored <=> s \in db.stored
  <2>1. s.key # key
    BY <1>3, KeysDiffer
  <2>2. new.stored = (db.stored \ At(db, n, key))
            \union IF value = NoValue THEN {}
                   ELSE {[version |-> db.versions[n], node |-> n, key |-> key, value |-> value]}
    BY <1>1 DEF Put, Database
  <2>3. s \notin At(db, n, key)
    BY <2>1 DEF At
  <2>4. s # [version |-> db.versions[n], node |-> n, key |-> key, value |-> value]
    BY <2>1
  <2> QED
    BY <2>2, <2>3, <2>4
<1>4. ASSUME NEW m \in Nodes, NEW v \in 0 .. MaxVersion, NEW dnsName \in DNSNames
      PROVE  SetsOf(new, m, v, dnsName) = SetsOf(db, m, v, dnsName)
  BY <1>3 DEF SetsOf
<1>5. Counted(new)
  BY <1>1, <1>2, <1>4 DEF Counted
<1>6. NoZeroType => SetsAreOwn(new)
  BY <1>1, <1>3 DEF SetsAreOwn
<1> QED
  BY <1>2, <1>5, <1>6 DEF Consistent

\* A new version has no values yet.
LEMMA VersionRaised ==
    ASSUME NEW db, Consistent(db), NEW n \in Nodes, NEW new, new = NextVersion(db, n)
    PROVE  Consistent(new) /\ Since(new, db, {n})
<1>1. /\ db = [versions |-> db.versions, stored |-> db.stored, entries |-> db.entries]
      /\ db.versions \in [Nodes -> Nat] /\ db.stored \subseteq Item
      /\ db.entries \in [Nodes -> [0 .. MaxVersion -> [DNSNames -> Int]]]
  BY DEF Consistent, Database
<1>2. /\ new.versions = [db.versions EXCEPT ![n] = @ + 1]
      /\ new.stored = db.stored /\ new.entries = db.entries
      /\ new = [versions |-> new.versions, stored |-> new.stored, entries |-> new.entries]
  BY <1>1 DEF NextVersion
<1>3. ASSUME NEW m \in Nodes
      PROVE  /\ new.versions[m] \in Nat /\ db.versions[m] \in Nat
             /\ new.versions[m] >= db.versions[m]
             /\ m # n => new.versions[m] = db.versions[m]
  BY <1>1, <1>2
<1>4. new \in Database
  <2>1. new.versions \in [Nodes -> Nat]
    BY <1>1, <1>2
  <2> QED
    BY <1>1, <1>2, <2>1 DEF Database
<1>5. NothingAhead(new)
  <2>1. ASSUME NEW s \in db.stored PROVE s.version <= new.versions[s.node]
    <3>1. s.version \in Nat /\ s.node \in Nodes /\ s.version <= db.versions[s.node]
      BY <1>1 DEF Item, Consistent, NothingAhead
    <3> QED
      BY <3>1, <1>3
  <2> QED
    BY <1>2, <2>1 DEF NothingAhead
<1>6. OneValuePerKey(new) /\ Counted(new) /\ (NoZeroType => SetsAreOwn(new))
  <2>1. \A m, v, dnsName : SetsOf(new, m, v, dnsName) = SetsOf(db, m, v, dnsName)
    BY <1>2 DEF SetsOf
  <2>2. Counted(new)
    BY <1>2, <2>1 DEF Consistent, Counted
  <2>3. OneValuePerKey(new)
    BY <1>2 DEF Consistent, OneValuePerKey
  <2>4. NoZeroType => SetsAreOwn(new)
    BY <1>2 DEF Consistent, SetsAreOwn
  <2> QED
    BY <2>2, <2>3, <2>4
<1>7. Since(new, db, {n})
  <2>1. \A s \in new.stored \union db.stored : s \in new.stored /\ s \in db.stored
    BY <1>2
  <2>2. \A m \in Nodes \ {n} : new.versions[m] = db.versions[m]
    BY <1>3
  <2>3. \A m \in Nodes : new.versions[m] >= db.versions[m]
    BY <1>3
  <2> QED
    BY <2>1, <2>2, <2>3, Zenon DEF Since
<1> QED
  BY <1>2, <1>4, <1>5, <1>6, <1>7 DEF Consistent

(***************************************************************************)
(* A record set is written or deleted, and counted                         *)
(***************************************************************************)
Entries == [Nodes -> [0 .. MaxVersion -> [DNSNames -> Int]]]

Recounted(e, n, v, d, change) == [e EXCEPT ![n][v][d] = @ + change]

\* One count changes.  A version beyond the bound has none.
LEMMA CountChanged ==
    ASSUME NEW e \in Entries, NEW n \in Nodes, NEW v \in Nat, NEW d \in DNSNames,
           NEW change \in Int, NEW f, f = Recounted(e, n, v, d, change)
    PROVE  /\ f \in Entries
           /\ v \in 0 .. MaxVersion => f[n][v][d] = e[n][v][d] + change
<1> DEFINE h == [e[n][v] EXCEPT ![d] = e[n][v][d] + change]
           g == [e[n] EXCEPT ![v] = h]
<1>1. /\ e[n] \in [0 .. MaxVersion -> [DNSNames -> Int]]
      /\ \A m \in Nodes : e[m] \in [0 .. MaxVersion -> [DNSNames -> Int]]
  BY DEF Entries
<1>2. f = [e EXCEPT ![n] = g]
  BY DEF Recounted
<1>3. g = [e[n] EXCEPT ![v] = h]
  OBVIOUS
<1>4. CASE v \in 0 .. MaxVersion
  <2>1. e[n][v] \in [DNSNames -> Int]
    BY <1>1, <1>4
  <2>2. /\ h \in [DNSNames -> Int] /\ h[d] = e[n][v][d] + change
        /\ \A x \in DNSNames \ {d} : h[x] = e[n][v][x]
    BY <2>1
  <2> HIDE DEF h
  <2>3. /\ g \in [0 .. MaxVersion -> [DNSNames -> Int]] /\ g[v] = h
        /\ \A w \in (0 .. MaxVersion) \ {v} : g[w] = e[n][w]
    BY <1>1, <1>3, <1>4, <2>2
  <2> HIDE DEF g
  <2>4. f \in Entries /\ f[n] = g /\ \A m \in Nodes \ {n} : f[m] = e[m]
    BY <1>2, <2>3 DEF Entries
  <2> QED
    BY <2>2, <2>3, <2>4
<1>5. CASE v \notin 0 .. MaxVersion
  <2> HIDE DEF h
  <2>1. g = e[n]
    BY <1>1, <1>3, <1>5
  <2> HIDE DEF g
  <2>2. f = e
    BY <1>2, <2>1 DEF Entries
  <2> QED
    BY <1>5, <2>2
<1> QED
  BY <1>4, <1>5

LEMMA OthersCount ==
    ASSUME NEW e \in Entries, NEW n \in Nodes, NEW v \in Nat, NEW d \in DNSNames,
           NEW change \in Int, NEW m \in Nodes, NEW w \in 0 .. MaxVersion, NEW x \in DNSNames,
           ~ (m = n /\ w = v /\ x = d)
    PROVE  Recounted(e, n, v, d, change)[m][w][x] = e[m][w][x]
<1> DEFINE h == [e[n][v] EXCEPT ![d] = e[n][v][d] + change]
           g == [e[n] EXCEPT ![v] = h]
           f == [e EXCEPT ![n] = g]
<1>1. /\ e[n] \in [0 .. MaxVersion -> [DNSNames -> Int]]
      /\ e \in [Nodes -> [0 .. MaxVersion -> [DNSNames -> Int]]]
  BY DEF Entries
<1>2. Recounted(e, n, v, d, change) = f
  BY DEF Recounted
<1>3. CASE m # n
  <2> HIDE DEF g
  <2> QED
    BY <1>1, <1>2, <1>3
<1>4. CASE m = n /\ w # v
  <2> HIDE DEF h
  <2>1. g[w] = e[n][w]
    BY <1>1, <1>4
  <2> HIDE DEF g
  <2> QED
    BY <1>1, <1>2, <1>4, <2>1
<1>5. CASE m = n /\ w = v /\ x # d
  <2>1. e[n][v] \in [DNSNames -> Int]
    BY <1>1, <1>5
  <2>2. h[x] = e[n][v][x]
    BY <1>5, <2>1
  <2> HIDE DEF h
  <2>3. g[w] = h
    BY <1>1, <1>5
  <2> HIDE DEF g
  <2> QED
    BY <1>1, <1>2, <1>5, <2>2, <2>3
<1> QED
  BY <1>3, <1>4, <1>5

LEMMA SetWritten ==
    ASSUME NEW db, Consistent(db), NEW n \in Nodes, NEW dnsName \in DNSNames,
           NEW type \in RRTypes, NEW rrs \in Seq(RR), NEW delete \in BOOLEAN,
           rrs # NoValue, NoZeroType => All(rrs, dnsName, type),
           NEW new, new = SetDNSRRSet(db, n, dnsName, type, rrs, delete)
    PROVE  Consistent(new) /\ Since(new, db, {n})
<1> DEFINE key == <<"dns", dnsName, type>>
           value == IF delete THEN NoValue ELSE rrs
           put == Put(db, n, key, value)
           version == db.versions[n]
           item == [version |-> version, node |-> n, key |-> key, value |-> value]
           change == IF delete THEN IF At(db, n, key) = {} THEN 0 ELSE -1
                               ELSE IF At(db, n, key) = {} THEN 1 ELSE 0
<1>1. /\ db \in Database /\ IsFiniteSet(db.stored) /\ OneValuePerKey(db) /\ NothingAhead(db)
      /\ Counted(db) /\ (NoZeroType => SetsAreOwn(db))
  BY DEF Consistent
<1>2. /\ db = [versions |-> db.versions, stored |-> db.stored, entries |-> db.entries]
      /\ db.versions \in [Nodes -> Nat] /\ db.stored \subseteq Item
      /\ db.entries \in [Nodes -> [0 .. MaxVersion -> [DNSNames -> Int]]]
  BY <1>1 DEF Database
<1>3. key \in DNSKeys /\ value \in Values \union Seq(RR)
  BY ResolverAssumption DEF ResolverAssumption, DNSKeys
<1>4. /\ put \in Database /\ IsFiniteSet(put.stored)
      /\ put.versions = db.versions /\ put.entries = db.entries
      /\ OneValuePerKey(put) /\ NothingAhead(put)
      /\ Since(put, db, {n})
  <2> HIDE DEF key, value
  <2> QED
    BY <1>1, <1>3, PutKeeps
<1>5. put.stored = (db.stored \ At(db, n, key)) \union IF delete THEN {} ELSE {item}
  <2>1. value = NoValue <=> delete
    OBVIOUS
  <2> HIDE DEF key, value
  <2> QED
    BY <1>2, <2>1 DEF Put
<1>6. new = [put EXCEPT !.entries[n][version][dnsName] = @ + change]
  BY <1>4 DEF SetDNSRRSet
<1>7. /\ new.stored = put.stored /\ new.versions = put.versions
      /\ new = [versions |-> put.versions, stored |-> put.stored, entries |-> new.entries]
      /\ new.entries = Recounted(db.entries, n, version, dnsName, change)
  <2> HIDE DEF put, change
  <2>1. put = [versions |-> put.versions, stored |-> put.stored, entries |-> put.entries]
    BY <1>4 DEF Database
  <2> QED
    BY <1>4, <1>6, <2>1 DEF Recounted
<1>8. /\ new.entries \in Entries
      /\ version \in 0 .. MaxVersion =>
            new.entries[n][version][dnsName] = db.entries[n][version][dnsName] + change
      /\ \A m \in Nodes, v \in 0 .. MaxVersion, d \in DNSNames :
            ~ (m = n /\ v = version /\ d = dnsName) =>
                new.entries[m][v][d] = db.entries[m][v][d]
  <2>1. change \in Int /\ version \in Nat /\ db.entries \in Entries
    BY <1>2 DEF Entries
  <2>2. new.entries = Recounted(db.entries, n, version, dnsName, change)
    BY <1>7
  <2> HIDE DEF put, change, version
  <2>3. new.entries \in Entries
    BY <2>1, <2>2, CountChanged
  <2>4. version \in 0 .. MaxVersion =>
            new.entries[n][version][dnsName] = db.entries[n][version][dnsName] + change
    BY <2>1, <2>2, CountChanged
  <2>5. ASSUME NEW m \in Nodes, NEW v \in 0 .. MaxVersion, NEW d \in DNSNames,
               ~ (m = n /\ v = version /\ d = dnsName)
        PROVE  new.entries[m][v][d] = db.entries[m][v][d]
    <3>1. Recounted(db.entries, n, version, dnsName, change)[m][v][d] = db.entries[m][v][d]
      BY <2>1, <2>5, OthersCount
    <3> QED
      BY <2>2, <3>1
  <2> QED
    BY <2>3, <2>4, <2>5
<1>9. /\ new \in Database /\ IsFiniteSet(new.stored) /\ OneValuePerKey(new)
       /\ NothingAhead(new) /\ Since(new, db, {n})
  <2> HIDE DEF put
  <2>1. new \in Database
    BY <1>4, <1>7, <1>8 DEF Database, Entries
  <2> QED
    BY <1>4, <1>7, <2>1 DEF OneValuePerKey, NothingAhead, Since
\* Only the sets of this name at this node and version change, and their count.
<1>10. ASSUME NEW m \in Nodes, NEW v \in 0 .. MaxVersion, NEW d \in DNSNames,
             ~ (m = n /\ v = version /\ d = dnsName)
      PROVE  /\ SetsOf(new, m, v, d) = SetsOf(db, m, v, d)
             /\ new.entries[m][v][d] = db.entries[m][v][d]
  <2>1. ASSUME NEW s, s.node = m, s.version = v, NEW t \in RRTypes, s.key = <<"dns", d, t>>
        PROVE  s \in new.stored <=> s \in db.stored
    <3>1. s \notin At(db, n, key)
      BY <1>10, <2>1 DEF At
    <3>2. s # item
      BY <1>10, <2>1
    <3> HIDE DEF item, key, put
    <3> QED
      BY <1>5, <1>7, <3>1, <3>2
  <2>2. SetsOf(new, m, v, d) = SetsOf(db, m, v, d)
    BY <2>1 DEF SetsOf
  <2> HIDE DEF put, change, version
  <2>3. new.entries[m][v][d] = db.entries[m][v][d]
    BY <1>8, <1>10
  <2> QED
    BY <2>2, <2>3
<1>11. ASSUME version \in 0 .. MaxVersion
       PROVE  new.entries[n][version][dnsName]
                  = Cardinality(SetsOf(new, n, version, dnsName))
  <2> DEFINE S == SetsOf(db, n, version, dnsName)
             old == At(db, n, key)
  <2>1. IsFiniteSet(S) /\ Cardinality(S) \in Nat
    <3>1. S \in SUBSET db.stored
      BY DEF SetsOf
    <3>2. IsFiniteSet(S)
      BY <1>1, <3>1, FS_Subset
    <3> QED
      BY <3>2, FS_CardinalityType
  <2>2. new.entries[n][version][dnsName] = Cardinality(S) + change
    <3>1. db.entries[n][version][dnsName] = Cardinality(S)
      BY <1>1, <1>11 DEF Counted
    <3> HIDE DEF put, change, S, version
    <3> QED
      BY <1>8, <1>11, <3>1
  <2>3. old \subseteq S
    BY DEF At, SetsOf
  <2>4. SetsOf(new, n, version, dnsName) = (S \ old) \union IF delete THEN {} ELSE {item}
    <3>1. item.node = n /\ item.version = version /\ item.key = <<"dns", dnsName, type>>
      OBVIOUS
    <3> HIDE DEF put, item, old, key
    <3> QED
      BY <1>5, <1>7, <3>1 DEF SetsOf, old
  <2>5. item \notin S \ old
    BY DEF SetsOf, At
  <2>6. CASE old = {}
    <3> HIDE DEF S, item, old, put
    <3>1. CASE delete
      <4>1. SetsOf(new, n, version, dnsName) = S
        BY <2>4, <2>6, <3>1
      <4>2. change = 0
        BY <2>6, <3>1 DEF old
      <4> HIDE DEF change
      <4> QED
        BY <2>1, <2>2, <4>1, <4>2
    <3>2. CASE ~delete
      <4>1. SetsOf(new, n, version, dnsName) = S \union {item} /\ item \notin S
        BY <2>4, <2>5, <2>6, <3>2
      <4>2. Cardinality(S \union {item}) = Cardinality(S) + 1
        BY <2>1, <4>1, FS_AddElement
      <4>3. change = 1
        BY <2>6, <3>2 DEF old
      <4> HIDE DEF change
      <4> QED
        BY <2>2, <4>1, <4>2, <4>3
    <3> QED
      BY <3>1, <3>2
  <2>7. CASE old # {}
    <3>1. PICK x \in old : old = {x}
      BY <1>1, <2>7 DEF At, OneValuePerKey
    <3> HIDE DEF S, item, old, put
    <3>2. IsFiniteSet(S \ {x}) /\ Cardinality(S \ {x}) = Cardinality(S) - 1
      BY <2>1, <2>3, <3>1, FS_RemoveElement
    <3>3. CASE delete
      <4>1. SetsOf(new, n, version, dnsName) = S \ {x}
        BY <2>4, <3>1, <3>3
      <4>2. change = -1
        BY <2>7, <3>3 DEF old
      <4> HIDE DEF change
      <4> QED
        BY <2>1, <2>2, <3>2, <4>1, <4>2
    <3>4. CASE ~delete
      <4>1. SetsOf(new, n, version, dnsName) = (S \ {x}) \union {item} /\ item \notin S \ {x}
        BY <2>4, <2>5, <3>1, <3>4
      <4>2. Cardinality((S \ {x}) \union {item}) = Cardinality(S \ {x}) + 1
        BY <3>2, <4>1, FS_AddElement
      <4>3. change = 0
        BY <2>7, <3>4 DEF old
      <4> HIDE DEF change
      <4> QED
        BY <2>1, <2>2, <3>2, <4>1, <4>2, <4>3
    <3> QED
      BY <3>3, <3>4
  <2> QED
    BY <2>6, <2>7
<1>12. Counted(new)
  <2> HIDE DEF put, change, item, key, version
  <2> SUFFICES ASSUME NEW m \in Nodes, NEW v \in 0 .. MaxVersion, NEW d \in DNSNames
               PROVE  new.entries[m][v][d] = Cardinality(SetsOf(new, m, v, d))
    BY DEF Counted
  <2>1. CASE m = n /\ v = version /\ d = dnsName
    BY <2>1, <1>11
  <2>2. CASE ~ (m = n /\ v = version /\ d = dnsName)
    BY <2>2, <1>1, <1>10 DEF Counted
  <2> QED
    BY <2>1, <2>2
<1>13. NoZeroType => SetsAreOwn(new)
  <2> SUFFICES ASSUME NoZeroType, NEW s \in new.stored, NEW d \in DNSNames, NEW t \in RRTypes,
                      s.key = <<"dns", d, t>>
               PROVE  All(s.value, d, t)
    BY DEF SetsAreOwn
  <2>1. CASE s \in db.stored
    BY <2>1, <1>1 DEF SetsAreOwn
  <2>2. CASE ~delete /\ s = item
    <3>1. d = dnsName /\ t = type /\ s.value = rrs
      BY <2>2
    <3> QED
      BY <3>1
  <2>3. s \in db.stored \/ (~delete /\ s = item)
    <3> HIDE DEF item, put
    <3> QED
      BY <1>5, <1>7
  <2> QED
    BY <2>1, <2>2, <2>3
<1> QED
  BY <1>9, <1>12, <1>13 DEF Consistent

(***************************************************************************)
(* A call of setDNSRecords: its sets are read one after the other          *)
(***************************************************************************)
Sets(rrs) == [rr : RR, first : 1 .. Len(rrs), db : Database]

LEMMA SetInDatabase ==
    ASSUME NEW db \in Database, NEW n \in Nodes, NEW dnsName \in DNSNames,
           NEW type \in RRTypes, NEW rrs \in Seq(RR), NEW delete \in BOOLEAN
    PROVE  SetDNSRRSet(db, n, dnsName, type, rrs, delete) \in Database
<1> DEFINE key == <<"dns", dnsName, type>>
           value == IF delete THEN NoValue ELSE rrs
           put == Put(db, n, key, value)
           change == IF delete THEN IF At(db, n, key) = {} THEN 0 ELSE -1
                               ELSE IF At(db, n, key) = {} THEN 1 ELSE 0
           new == SetDNSRRSet(db, n, dnsName, type, rrs, delete)
<1>1. /\ db = [versions |-> db.versions, stored |-> db.stored, entries |-> db.entries]
      /\ db.versions \in [Nodes -> Nat] /\ db.stored \subseteq Item
      /\ db.entries \in Entries
  BY DEF Database, Entries
<1>2. /\ put = [versions |-> db.versions, stored |-> put.stored, entries |-> db.entries]
      /\ put.stored \subseteq Item
  <2>1. key \in DNSKeys /\ value \in Values \union Seq(RR)
    BY ResolverAssumption DEF ResolverAssumption, DNSKeys
  <2> HIDE DEF key, value
  <2>2. put = Put(db, n, key, value)
    OBVIOUS
  <2> HIDE DEF put
  <2>3. put \in Database
    BY <2>1, <2>2, PutInDatabase
  <2>4. put = [versions |-> db.versions, stored |-> put.stored, entries |-> db.entries]
    BY <2>1, <2>2, PutInDatabase
  <2> QED
    BY <2>3, <2>4 DEF Database
<1>3. new = [put EXCEPT !.entries[n][db.versions[n]][dnsName] = @ + change]
  BY <1>1, <1>2 DEF SetDNSRRSet
<1>4. change \in Int
  OBVIOUS
<1> HIDE DEF new, put, change
<1>5. /\ new = [versions |-> db.versions, stored |-> put.stored, entries |-> new.entries]
      /\ new.entries = Recounted(db.entries, n, db.versions[n], dnsName, change)
  <2>1. put.entries = db.entries /\ put.versions = db.versions
    BY <1>2
  <2> QED
    BY <1>2, <1>3, <2>1 DEF Recounted
<1>6. Recounted(db.entries, n, db.versions[n], dnsName, change) \in Entries
  BY <1>1, <1>4, CountChanged
<1>7. new \in Database
  BY <1>1, <1>2, <1>5, <1>6 DEF Database, Entries
<1> QED
  BY <1>7 DEF new

\* The records from first to last are those of one set: their slice is written whole.
LEMMA SliceIsASet ==
    ASSUME NEW rrs \in Seq(RR), NEW first \in 1 .. Len(rrs), NEW last \in 0 .. Len(rrs)
    PROVE  /\ SubSeq(rrs, first, last) \in Seq(RR)
           /\ \A dnsName, type :
                 (\A k \in first .. last : rrs[k].name = dnsName /\ rrs[k].type = type)
                 => All(SubSeq(rrs, first, last), dnsName, type)
<1>1. /\ SubSeq(rrs, first, last) \in Seq(RR)
      /\ Len(SubSeq(rrs, first, last)) = IF first <= last THEN last - first + 1 ELSE 0
      /\ \A k \in 1 .. Len(SubSeq(rrs, first, last)) :
            SubSeq(rrs, first, last)[k] = rrs[first + k - 1]
  OBVIOUS
<1>2. ASSUME NEW k \in 1 .. Len(SubSeq(rrs, first, last))
      PROVE  first + k - 1 \in first .. last
  BY <1>1
<1> QED
  BY <1>1, <1>2 DEF All

LEMMA WriteInDatabase ==
    ASSUME NEW n \in Nodes, NEW rrs \in Seq(RR), NEW set \in Sets(rrs),
           NEW last \in 0 .. Len(rrs)
    PROVE  WriteSet(n, rrs, set, last) \in Database
<1>1. /\ set.db \in Database /\ set.first \in 1 .. Len(rrs)
      /\ set.rr.name \in DNSNames /\ set.rr.type \in RRTypes /\ set.rr.empty \in BOOLEAN
  BY DEF Sets, RR
<1>2. SubSeq(rrs, set.first, last) \in Seq(RR)
  BY <1>1, SliceIsASet
<1> QED
  BY <1>1, <1>2, SetInDatabase DEF WriteSet

LEMMA ReadInSets ==
    ASSUME NEW n \in Nodes, NEW rrs \in Seq(RR), NEW set \in Sets(rrs),
           NEW i \in 1 .. Len(rrs)
    PROVE  ReadRR(n, rrs, set, i) \in Sets(rrs)
<1>1. rrs[i] \in RR /\ i - 1 \in 0 .. Len(rrs)
  OBVIOUS
<1>2. WriteSet(n, rrs, set, i - 1) \in Database
  BY <1>1, WriteInDatabase
<1>3. [rr |-> rrs[i], first |-> i, db |-> WriteSet(n, rrs, set, i - 1)] \in Sets(rrs)
  BY <1>1, <1>2 DEF Sets
<1>4. [set EXCEPT !.rr = rrs[i]] \in Sets(rrs)
  BY <1>1 DEF Sets
<1> QED
  BY <1>3, <1>4, Zenon DEF ReadRR

\* The first m records are read: what is written is consistent, and the set being
\* read is of one of them and, type 0 apart, of all since its first.
Reading(db, n, rrs, m, set) ==
    /\ Consistent(set.db) /\ Since(set.db, db, {n})
    /\ IF m = 0 THEN set = [rr |-> rrs[1], first |-> 1, db |-> db] ELSE set.first <= m
    /\ \E k \in 1 .. Len(rrs) : set.rr = rrs[k]
    /\ NoZeroType => \A k \in set.first .. m :
                        rrs[k].name = set.rr.name /\ rrs[k].type = set.rr.type

LEMMA SetRead ==
    ASSUME NEW db \in Database, NEW n \in Nodes, NEW rrs \in RRLists, rrs \in Seq(RR),
           NEW m \in 1 .. Len(rrs), NEW set \in Sets(rrs), Reading(db, n, rrs, m, set)
    PROVE  LET new == WriteSet(n, rrs, set, m)
           IN  Consistent(new) /\ Since(new, db, {n})
<1> DEFINE new == WriteSet(n, rrs, set, m)
<1>1. /\ Consistent(set.db) /\ Since(set.db, db, {n}) /\ set.first \in 1 .. m
      /\ set.db \in Database
      /\ set.rr.name \in DNSNames /\ set.rr.type \in RRTypes /\ set.rr.empty \in BOOLEAN
  BY DEF Reading, Sets, RR
<1>2. SubSeq(rrs, set.first, m) \in Seq(RR) /\ SubSeq(rrs, set.first, m) # NoValue
  <2>1. set.first \in 1 .. Len(rrs) /\ m \in 0 .. Len(rrs) /\ set.first <= m
    BY <1>1
  <2> QED
    BY <2>1, SliceIsASet, CallsAssumption DEF CallsAssumption
<1>3. NoZeroType => All(SubSeq(rrs, set.first, m), set.rr.name, set.rr.type)
  <2>1. set.first \in 1 .. Len(rrs) /\ m \in 0 .. Len(rrs)
    BY <1>1
  <2> QED
    BY <2>1, SliceIsASet DEF Reading
<1>4. Consistent(new) /\ Since(new, set.db, {n})
  BY <1>1, <1>2, <1>3, SetWritten DEF WriteSet
<1>5. Since(new, db, {n})
  <2> HIDE DEF new
  <2>1. new \in Database
    BY <1>4 DEF Consistent
  <2> QED
    BY <1>1, <1>4, <2>1, SinceThen
<1> QED
  BY <1>4, <1>5

LEMMA NextRead ==
    ASSUME NEW db \in Database, NEW n \in Nodes, NEW rrs \in RRLists, rrs \in Seq(RR),
           NEW m \in 0 .. (Len(rrs) - 1), NEW set \in Sets(rrs), Reading(db, n, rrs, m, set)
    PROVE  Reading(db, n, rrs, m + 1, ReadRR(n, rrs, set, m + 1))
<1>1. m + 1 \in 1 .. Len(rrs) /\ m + 1 # 0 /\ (m + 1) - 1 = m /\ set.first \in Nat
  BY DEF Sets
<1>2. CASE set.rr.type = ZeroType
  <2> DEFINE new == [set EXCEPT !.rr = rrs[m + 1]]
  <2>1. ReadRR(n, rrs, set, m + 1) = new
    BY <1>2 DEF ReadRR
  <2>2. new.rr = rrs[m + 1] /\ new.first = set.first /\ new.db = set.db
    BY DEF Sets
  <2>3. ~NoZeroType
    BY <1>2 DEF Reading, NoZeroType
  <2>4. set.first <= m + 1
    BY <1>1 DEF Reading
  <2> HIDE DEF new
  <2>5. Reading(db, n, rrs, m + 1, new)
    BY <1>1, <2>2, <2>3, <2>4 DEF Reading
  <2> QED
    BY <2>1, <2>5
<1>3. CASE /\ set.rr.type # ZeroType
           /\ <<rrs[m + 1].name, rrs[m + 1].type>> # <<set.rr.name, set.rr.type>>
  <2> DEFINE new == [rr |-> rrs[m + 1], first |-> m + 1, db |-> WriteSet(n, rrs, set, m)]
  <2>1. ReadRR(n, rrs, set, m + 1) = new
    BY <1>1, <1>3 DEF ReadRR
  <2>2. m # 0
    BY <1>3 DEF Reading
  <2>3. Consistent(new.db) /\ Since(new.db, db, {n})
    <3>1. m \in 1 .. Len(rrs)
      BY <2>2
    <3> QED
      BY <3>1, SetRead
  <2>4. new.rr = rrs[m + 1] /\ new.first = m + 1
    OBVIOUS
  <2> HIDE DEF new
  <2>5. Reading(db, n, rrs, m + 1, new)
    BY <1>1, <2>3, <2>4 DEF Reading
  <2> QED
    BY <2>1, <2>5
<1>4. CASE /\ set.rr.type # ZeroType
           /\ rrs[m + 1].name = set.rr.name /\ rrs[m + 1].type = set.rr.type
  <2>1. ReadRR(n, rrs, set, m + 1) = set
    BY <1>4 DEF ReadRR
  <2>2. set.first <= m + 1
    BY <1>1 DEF Reading
  <2>3. NoZeroType => \A k \in set.first .. (m + 1) :
            rrs[k].name = set.rr.name /\ rrs[k].type = set.rr.type
    <3>1. \A k \in set.first .. (m + 1) : k \in set.first .. m \/ k = m + 1
      BY <1>1
    <3> QED
      BY <3>1, <1>4 DEF Reading
  <2>4. Reading(db, n, rrs, m + 1, set)
    BY <1>1, <2>2, <2>3 DEF Reading
  <2> QED
    BY <2>1, <2>4
<1> QED
  BY <1>2, <1>3, <1>4

LEMMA RRsWritten ==
    ASSUME NEW db, Consistent(db), NEW n \in Nodes, NEW rrs \in RRLists
    PROVE  LET new == WriteRRs(db, n, rrs)
           IN  Consistent(new) /\ Since(new, db, {n})
<1> DEFINE start == [rr |-> rrs[1], first |-> 1, db |-> db]
           G == [m \in 0 .. Len(rrs) |-> {set \in Sets(rrs) : Reading(db, n, rrs, m, set)}]
<1>1. rrs \in Seq(RR) /\ db \in Database
  BY ResolverAssumption DEF ResolverAssumption, RR, Consistent
<1>2. Since(db, db, {n})
  <2>1. \A m \in Nodes : db.versions[m] \in Nat
    BY <1>1 DEF Database
  <2> QED
    BY <2>1 DEF Since
<1>3. CASE rrs = <<>>
  BY <1>2, <1>3 DEF WriteRRs
<1>4. CASE rrs # <<>>
  <2>1. Len(rrs) \in Nat /\ 1 \in 1 .. Len(rrs) /\ rrs[1] \in RR
    BY <1>1, <1>4
  <2>2. start \in Sets(rrs)
    BY <1>1, <2>1 DEF Sets
  <2>3. start \in G[0]
    <3>1. Reading(db, n, rrs, 0, start)
      BY <1>2, <2>1 DEF Reading
    <3> QED
      BY <2>1, <2>2, <3>1
  <2>4. ASSUME NEW m \in 0 .. (Len(rrs) - 1), NEW set \in G[m]
        PROVE  ReadRR(n, rrs, set, m + 1) \in G[m + 1]
    <3>1. m \in 0 .. Len(rrs) /\ m + 1 \in 0 .. Len(rrs) /\ m + 1 \in 1 .. Len(rrs)
      BY <2>1
    <3>2. set \in Sets(rrs) /\ Reading(db, n, rrs, m, set)
      BY <3>1, <2>4
    <3>3. Reading(db, n, rrs, m + 1, ReadRR(n, rrs, set, m + 1))
      BY <1>1, <3>2, NextRead
    <3>4. ReadRR(n, rrs, set, m + 1) \in Sets(rrs)
      BY <1>1, <3>1, <3>2, ReadInSets
    <3> QED
      BY <3>1, <3>3, <3>4
  <2>5. \A set \in Sets(rrs), i \in 1 .. Len(rrs) : ReadRR(n, rrs, set, i) \in Sets(rrs)
    BY <1>1, ReadInSets
  <2>6. PICK set \in G[Len(rrs)] : WriteRRs(db, n, rrs) = WriteSet(n, rrs, set, Len(rrs))
    <3> HIDE DEF G
    <3> QED
      BY <1>1, <1>4, <2>2, <2>3, <2>4, <2>5, ReadsKeep
  <2>7. set \in Sets(rrs) /\ Reading(db, n, rrs, Len(rrs), set)
    BY <2>1, <2>6
  <2>8. Len(rrs) \in 1 .. Len(rrs)
    BY <2>1
  <2> QED
    BY <1>1, <2>6, <2>7, <2>8, SetRead
<1> QED
  BY <1>3, <1>4

(***************************************************************************)
(* Calls and transactions                                                  *)
(***************************************************************************)
LEMMA ApplyKeeps ==
    ASSUME NEW db, Consistent(db), NEW call \in Calls
    PROVE  Consistent(Apply(db, call)) /\ Since(Apply(db, call), db, {call.node})
<1>1. /\ call.node \in Nodes
      /\ \/ call.key = <<"dns">> /\ call.value \in RRLists
         \/ call.key = <<"clear">>
         \/ call.key \in ValueKeys /\ call.value \in Values
  BY CallKinds
<1>2. CASE call.key = <<"dns">> /\ call.value \in RRLists
  <2>1. Apply(db, call) = WriteRRs(db, call.node, call.value)
    BY <1>2 DEF Apply
  <2> QED
    BY <1>1, <1>2, <2>1, RRsWritten
<1>3. CASE call.key = <<"clear">>
  <2>1. Apply(db, call) = NextVersion(db, call.node)
    BY <1>3, KeysDiffer DEF Apply
  <2> QED
    BY <1>1, <2>1, VersionRaised
<1>4. CASE call.key \in ValueKeys /\ call.value \in Values
  <2>1. Apply(db, call) = Put(db, call.node, call.key, call.value)
    BY <1>4, KeysDiffer DEF Apply
  <2> QED
    BY <1>1, <1>4, <2>1, ValuePut
<1> QED
  BY <1>1, <1>2, <1>3, <1>4

LEMMA SinceMore ==
    ASSUME NEW db, NEW old, NEW n, NEW M, n \in M, Since(db, old, {n})
    PROVE  Since(db, old, M)
  BY DEF Since

LEMMA SinceItself ==
    ASSUME NEW db \in Database, NEW M
    PROVE  Since(db, db, M)
<1>1. \A n \in Nodes : db.versions[n] \in Nat
  BY DEF Database
<1> QED
  BY <1>1 DEF Since

NodesOf(batch) == {batch[i].node : i \in 1 .. Len(batch)}

\* A transaction changes the nodes of its calls and leaves the storage consistent.
LEMMA Transaction ==
    ASSUME Consistent(Storage), NEW sender, NEW batch \in Seq(Calls), Perform(sender, batch)
    PROVE  /\ Consistent(Storage)' /\ Since(Storage', Storage, NodesOf(batch))
           /\ \A i \in 1 .. Len(batch) : IsAuthorised(batch[i].node, sender)
           /\ resolverOperators' = resolverOperators /\ delegates' = delegates
<1> DEFINE M == NodesOf(batch)
           after == FoldLeft(Apply, Storage, batch)
           G == {db \in Database : Consistent(db) /\ Since(db, Storage, M)}
<1>1. Storage \in G
  BY SinceItself DEF Consistent
<1>2. ASSUME NEW db \in G, NEW i \in 1 .. Len(batch)
      PROVE  Apply(db, batch[i]) \in G
  <2>1. batch[i] \in Calls /\ batch[i].node \in M
    BY DEF NodesOf
  <2>2. Consistent(db) /\ db \in Database /\ Since(db, Storage, M)
    OBVIOUS
  <2> DEFINE new == Apply(db, batch[i])
  <2>3. Consistent(new) /\ Since(new, db, {batch[i].node})
    BY <2>1, <2>2, ApplyKeeps
  <2> HIDE DEF new, M
  <2>4. new \in Database /\ Since(new, db, M)
    BY <2>1, <2>3, SinceMore DEF Consistent
  <2>5. Storage \in Database
    BY <1>1
  <2>6. Since(new, Storage, M)
    BY <2>2, <2>4, <2>5, SinceThen
  <2>7. new \in G
    BY <2>3, <2>4, <2>6
  <2> QED
    BY <2>7 DEF new
<1>3. after \in G
  <2> HIDE DEF G
  <2> QED
    BY <1>1, <1>2, CallsKeep
<1>4. after \in Database /\ Consistent(after) /\ Since(after, Storage, M)
  BY <1>3
<1>5. /\ recordVersions' = after.versions /\ stored' = after.stored /\ entries' = after.entries
      /\ \A i \in 1 .. Len(batch) : IsAuthorised(batch[i].node, sender)
      /\ resolverOperators' = resolverOperators /\ delegates' = delegates
  BY DEF Perform
<1> HIDE DEF after, M
<1>6. Storage' = after
  <2>1. after = [versions |-> after.versions, stored |-> after.stored, entries |-> after.entries]
    BY <1>4 DEF Database
  <2> QED
    BY <1>5, <2>1 DEF Storage
<1>7. Consistent(Storage')
  BY <1>4, <1>6
<1> QED
  BY <1>4, <1>5, <1>6, <1>7 DEF M

(***************************************************************************)
(* The steps                                                               *)
(***************************************************************************)
\* Only accounts that call appoint anybody.
WritersAppoint ==
    /\ resolverOperators \subseteq Writers \X Addresses
    /\ \A appointment \in delegates : appointment[1] \in Writers

ResolverInv == Consistent(Storage) /\ WritersAppoint

\* Whom a transaction of an account that calls may write for.
LEMMA WritersWriteTheirs ==
    ASSUME WritersAppoint, NEW sender \in Writers, NEW n, IsAuthorised(n, sender)
    PROVE  NodeOwner(n) \in Writers
  BY ResolverAssumption DEF ResolverAssumption, WritersAppoint, IsAuthorised

\* Nodes of accounts that call, or of names that can be bought.
Exposed(M) ==
    \A n \in M :
        \/ NodeOwner(n) \in Writers
        \/ n \in Names /\ Available(n)

\* What a step does: nothing here, appoint somebody, or write the records of exposed
\* nodes.
LEMMA Steps ==
    ASSUME ResolverInv, [ResolverNext]_allVars
    PROVE  /\ ResolverInv'
           /\ \E M : Since(Storage', Storage, M) /\ Exposed(M)
<1> DEFINE Goal == ResolverInv' /\ \E M : Since(Storage', Storage, M) /\ Exposed(M)
<1> SUFFICES Goal
  OBVIOUS
<1>1. Consistent(Storage) /\ WritersAppoint /\ Storage \in Database
  BY DEF ResolverInv, Consistent
<1>2. ASSUME NEW sender \in Writers, NEW batch \in Seq(Calls), Perform(sender, batch)
      PROVE  Goal
  <2>1. /\ Consistent(Storage)' /\ Since(Storage', Storage, NodesOf(batch))
        /\ \A i \in 1 .. Len(batch) : IsAuthorised(batch[i].node, sender)
        /\ resolverOperators' = resolverOperators /\ delegates' = delegates
    BY <1>1, <1>2, Transaction
  <2>2. Exposed(NodesOf(batch))
    <3> SUFFICES ASSUME NEW i \in 1 .. Len(batch) PROVE NodeOwner(batch[i].node) \in Writers
      BY DEF NodesOf, Exposed
    <3> QED
      BY <1>1, <1>2, <2>1, WritersWriteTheirs
  <2>3. WritersAppoint'
    BY <1>1, <2>1 DEF WritersAppoint
  <2> QED
    BY <2>1, <2>2, <2>3 DEF ResolverInv
<1>3. CASE UNCHANGED <<recordVersions, stored, entries>> /\ WritersAppoint'
  <2>1. Storage' = Storage
    BY <1>3 DEF Storage
  <2>2. Since(Storage', Storage, {})
    BY <1>1, <2>1, SinceItself
  <2>3. Consistent(Storage')
    BY <1>1, <2>1
  <2>4. Exposed({})
    BY DEF Exposed
  <2> QED
    BY <1>3, <2>2, <2>3, <2>4 DEF ResolverInv
<1> HIDE DEF Goal
<1>4. CASE UNCHANGED resolverVars
  <2>1. UNCHANGED <<recordVersions, stored, entries>> /\ WritersAppoint'
    BY <1>1, <1>4 DEF resolverVars, WritersAppoint
  <2> QED
    BY <2>1, <1>3
<1>5. ASSUME NEW sender \in Writers, NEW call \in ResolverCalls, Write(sender, call)
      PROVE  Goal
  <2>1. <<call>> \in Seq(Calls) /\ Perform(sender, <<call>>)
    BY <1>5 DEF ResolverCalls, Write
  <2> QED
    BY <2>1, <1>2
<1>6. ASSUME NEW sender \in Writers, NEW nodehash, NEW batch \in Multicalls,
             MulticallWithNodeCheck(sender, nodehash, batch)
      PROVE  Goal
  <2>1. batch \in Seq(Calls) /\ Perform(sender, batch)
    BY <1>6, CallsAssumption DEF CallsAssumption, MulticallWithNodeCheck
  <2> QED
    BY <2>1, <1>2
<1>7. ASSUME NEW sender \in Writers, NEW n, NEW delegate, NEW approved \in BOOLEAN,
             ApproveDelegate(sender, n, delegate, approved)
      PROVE  Goal
  <2>1. UNCHANGED <<recordVersions, stored, entries>> /\ WritersAppoint'
    BY <1>1, <1>7 DEF ApproveDelegate, WritersAppoint
  <2> QED
    BY <2>1, <1>3
<1>8. ASSUME NEW pair \in ResolverDelegations, NEW approved \in BOOLEAN,
             SetResolverApprovalForAll(pair[1], pair[2], approved)
      PROVE  Goal
  <2>1. pair[1] \in Writers /\ pair[2] \in Addresses
    BY CallsAssumption DEF CallsAssumption
  <2>2. UNCHANGED <<recordVersions, stored, entries>> /\ WritersAppoint'
    BY <1>1, <1>8, <2>1 DEF SetResolverApprovalForAll, WritersAppoint
  <2> QED
    BY <2>2, <1>3
<1>9. CASE ResolverStep
  BY <1>9, <1>5, <1>6, <1>7, <1>8 DEF ResolverStep
<1>10. ASSUME NEW r \in Registrations, NEW batch \in Multicalls, RegisterWithRecords(r, batch)
       PROVE  Goal
  <2>1. /\ batch \in Seq(Calls) /\ Perform(CONTROLLER, batch) /\ SameNode(r.id, batch)
        /\ CanRegister(CONTROLLER, r.id, r.duration)
    BY <1>10, CallsAssumption DEF CallsAssumption, RegisterWithRecords, Consume
  <2>2. r.id \in Names /\ r.id # ROOT /\ Available(r.id)
    BY <2>1, ControllerAssumption DEF ControllerAssumption, CanRegister, Names
  <2>3. /\ Consistent(Storage)' /\ Since(Storage', Storage, NodesOf(batch))
        /\ resolverOperators' = resolverOperators /\ delegates' = delegates
    BY <1>1, <2>1, Transaction
  <2>4. Exposed(NodesOf(batch))
    BY <2>1, <2>2 DEF SameNode, NodesOf, Exposed
  <2>5. WritersAppoint'
    BY <1>1, <2>3 DEF WritersAppoint
  <2> QED
    BY <2>3, <2>4, <2>5 DEF ResolverInv, Goal
<1>11. CASE SaleStep
  BY <1>11, <1>4, <1>10 DEF SaleStep
<1>12. CASE Next /\ UNCHANGED <<controllerVars, resolverVars>>
  BY <1>12, <1>4
<1>13. CASE UNCHANGED allVars
  BY <1>13, <1>4 DEF allVars
<1> QED
  BY <1>9, <1>11, <1>12, <1>13 DEF ResolverNext

LEMMA Start ==
    ASSUME ResolverStart
    PROVE  ResolverInv
<1>1. /\ recordVersions = [n \in Nodes |-> 0] /\ stored = {}
      /\ entries = [n \in Nodes |-> [v \in 0 .. MaxVersion |-> [name \in DNSNames |-> 0]]]
      /\ resolverOperators = {} /\ delegates = {}
  BY DEF ResolverStart, ResolverInit
<1>2. Storage \in Database /\ Storage.stored = {} /\ Storage.entries = entries
  BY <1>1 DEF Storage, Database
<1>3. IsFiniteSet(Storage.stored) /\ OneValuePerKey(Storage) /\ NothingAhead(Storage)
      /\ SetsAreOwn(Storage)
  BY <1>2, FS_EmptySet DEF OneValuePerKey, NothingAhead, SetsAreOwn
<1>4. Counted(Storage)
  <2> SUFFICES ASSUME NEW n \in Nodes, NEW v \in 0 .. MaxVersion, NEW dnsName \in DNSNames
               PROVE  Storage.entries[n][v][dnsName]
                          = Cardinality(SetsOf(Storage, n, v, dnsName))
    BY DEF Counted
  <2>1. SetsOf(Storage, n, v, dnsName) = {}
    BY <1>2 DEF SetsOf
  <2>2. Storage.entries[n][v][dnsName] = 0
    BY <1>1, <1>2
  <2> QED
    BY <2>1, <2>2, FS_EmptySet
<1> QED
  BY <1>1, <1>2, <1>3, <1>4 DEF ResolverInv, Consistent, WritersAppoint

\* The invariant: every value has one key, version and node, no version is ahead of
\* its node's, the sets of records are counted, and only callers appoint anybody.
THEOREM ResolverInvariant == ResolverSpec => []ResolverInv
<1>1. ResolverStart => ResolverInv
  BY Start
<1>2. ResolverInv /\ [ResolverNext]_allVars => ResolverInv'
  BY Steps
<1> QED
  BY <1>1, <1>2, PTL DEF ResolverSpec

(***************************************************************************)
(* What the invariant says                                                 *)
(***************************************************************************)
\* hasDNSRecords: in every reachable state the count of a DNS name is the number of
\* its record sets, whatever a call writes, deletes or overwrites.
THEOREM CountsAreRight == ResolverSpec => []EntriesCounted
<1>1. ResolverInv => EntriesCounted
  BY DEF ResolverInv, Consistent, Counted, SetsOf, Storage, EntriesCounted
<1> QED
  BY <1>1, ResolverInvariant, PTL

\* A stored record set holds records of its own name and type, in whatever order the
\* records of a call come, if none is of type 0, which setDNSRecords takes for no
\* record read yet.
THEOREM SetsAreNotMixed == ASSUME NoZeroType PROVE ResolverSpec => []SetsHoldTheirOwn
<1>1. ResolverInv => SetsHoldTheirOwn
  BY DEF ResolverInv, Consistent, SetsAreOwn, All, Storage, SetsHoldTheirOwn
<1> QED
  BY <1>1, ResolverInvariant, PTL

\* The records of a node whose owner never calls change only if the node is a name
\* that has run out and is sold: no former owner, operator, delegate or buyer of
\* another name reaches them, by a call or a batch of calls.
THEOREM RecordsAreTheOwners == ResolverSpec => BystandersRecordsStay
<1> DEFINE Stay == \A n \in Nodes :
                      NodeOwner(n) \notin Writers /\ ~(n \in Names /\ Available(n))
                      => Visible(n)' = Visible(n) /\ recordVersions'[n] = recordVersions[n]
<1>1. ResolverInv /\ [ResolverNext]_allVars => Stay
  <2> SUFFICES ASSUME ResolverInv, [ResolverNext]_allVars, NEW n \in Nodes,
                      NodeOwner(n) \notin Writers, ~(n \in Names /\ Available(n))
               PROVE  Visible(n)' = Visible(n) /\ recordVersions'[n] = recordVersions[n]
    OBVIOUS
  <2>1. PICK M : Since(Storage', Storage, M) /\ Exposed(M)
    BY Steps
  <2>2. n \notin M
    BY <2>1 DEF Exposed
  <2>3. /\ recordVersions'[n] = recordVersions[n]
        /\ \A s \in stored' \union stored : s.node = n => s \in stored' /\ s \in stored
    BY <2>1, <2>2 DEF Since, Storage
  <2>4. Visible(n)' = {s \in stored' : s.node = n /\ s.version = recordVersions'[n]}
    BY DEF Visible
  <2> QED
    BY <2>3, <2>4 DEF Visible
<1>2. ResolverInv /\ [ResolverNext]_allVars => [Stay]_allVars
  <2> HIDE DEF Stay
  <2> QED
    BY <1>1
<1> QED
  BY <1>2, ResolverInvariant, PTL DEF ResolverSpec, BystandersRecordsStay

\* What clearRecords hides stays hidden: a stored record that is not of its node's
\* version is never read again, since versions only rise and none is ahead.
THEOREM ClearingIsForGood == ResolverSpec => NothingResurfaces
<1> DEFINE Gone == \A n \in Nodes : (Visible(n)' \ Visible(n)) \intersect stored = {}
<1>1. ResolverInv /\ [ResolverNext]_allVars => Gone
  <2> SUFFICES ASSUME ResolverInv, [ResolverNext]_allVars, NEW n \in Nodes,
                      NEW s \in stored, s \in Visible(n)', s \notin Visible(n)
               PROVE  FALSE
    OBVIOUS
  <2>1. PICK M : Since(Storage', Storage, M) /\ Exposed(M)
    BY Steps
  <2>2. recordVersions'[n] >= recordVersions[n]
    BY <2>1 DEF Since, Storage
  <2>3. s.node = n /\ s.version = recordVersions'[n]
    <3>1. Visible(n)' = {t \in stored' : t.node = n /\ t.version = recordVersions'[n]}
      BY DEF Visible
    <3> QED
      BY <3>1
  <2>4. s.version <= recordVersions[n]
    BY <2>3 DEF ResolverInv, Consistent, NothingAhead, Storage
  <2>5. recordVersions[n] \in Nat /\ s.version \in Nat
    BY DEF ResolverInv, Consistent, Database, Storage, Item
  <2>6. s.version # recordVersions[n]
    BY <2>3 DEF Visible
  <2>7. recordVersions'[n] \in Nat
    BY <2>3, <2>5
  <2> QED
    BY <2>2, <2>3, <2>4, <2>5, <2>6, <2>7
<1>2. ResolverInv /\ [ResolverNext]_allVars => [Gone]_allVars
  <2> HIDE DEF Gone
  <2> QED
    BY <1>1
<1> QED
  BY <1>2, ResolverInvariant, PTL DEF ResolverSpec, NothingResurfaces

================================================================================
