---------------------------- MODULE RegistrarProofs ----------------------------
(***************************************************************************)
(* Proofs about the registry and the registrar on top of it, for every     *)
(* name tree, every set of accounts and every grace period: the types, and *)
(* the promises of RegistrarProperties.                                    *)
(***************************************************************************)
EXTENDS RegistrarProperties, TLAPS

-----------------------------------------------------------------------------
(***************************************************************************)
(* The types of the registry below                                         *)
(***************************************************************************)
\* The writes of the registry keep a well-formed record table well-formed.
LEMMA RecordWrites ==
    ASSUME NEW recs \in [Nodes -> Record], NEW n \in Nodes, NEW owner \in Addresses,
           NEW resolver \in Resolvers, NEW ttl \in TTLs
    PROVE  /\ WithOwner(recs, n, owner) \in [Nodes -> Record]
           /\ WithResolver(recs, n, resolver) \in [Nodes -> Record]
           /\ WithTTL(recs, n, ttl) \in [Nodes -> Record]
           /\ WithRecord(recs, n, owner, resolver, ttl) \in [Nodes -> Record]
  BY DEF WithOwner, WithResolver, WithTTL, WithRecord, Record

\* Every transaction sent to the registry keeps its types.
LEMMA RegistryTypeStep ==
    ASSUME RegistryTypeOK, RegistryNext
    PROVE  RegistryTypeOK'
<1> USE RegistryAssumption DEF RegistryTypeOK
<1> PICK sender \in Senders :
        \/ \E n \in Nodes, owner \in Targets :
            \/ SetOwner(sender, n, owner)
            \/ SetSubnodeOwner(sender, n, owner)
        \/ \E n \in Nodes, owner \in Targets, resolver \in Resolvers, ttl \in TTLs :
            \/ SetRecord(sender, n, owner, resolver, ttl)
            \/ SetSubnodeRecord(sender, n, owner, resolver, ttl)
        \/ \E n \in Nodes, resolver \in Resolvers : SetResolver(sender, n, resolver)
        \/ \E n \in Nodes, ttl \in TTLs : SetTTL(sender, n, ttl)
        \/ \E operator \in Addresses, approved \in BOOLEAN :
            SetApprovalForAll(sender, operator, approved)
  BY DEF RegistryNext
<1>1. ASSUME NEW n \in Nodes, NEW owner \in Targets,
             SetOwner(sender, n, owner) \/ SetSubnodeOwner(sender, n, owner)
      PROVE  RegistryTypeOK'
  BY <1>1, RecordWrites DEF SetOwner, SetSubnodeOwner
<1>2. ASSUME NEW n \in Nodes, NEW owner \in Targets, NEW resolver \in Resolvers,
             NEW ttl \in TTLs,
             \/ SetRecord(sender, n, owner, resolver, ttl)
             \/ SetSubnodeRecord(sender, n, owner, resolver, ttl)
      PROVE  RegistryTypeOK'
  <2>1. records' = WithRecord(records, n, owner, resolver, ttl) /\ UNCHANGED operators
    BY <1>2 DEF SetRecord, SetSubnodeRecord
  <2> QED
    BY <2>1, RecordWrites
<1>3. ASSUME NEW n \in Nodes, NEW resolver \in Resolvers, SetResolver(sender, n, resolver)
      PROVE  RegistryTypeOK'
  BY <1>3, RecordWrites DEF SetResolver
<1>4. ASSUME NEW n \in Nodes, NEW ttl \in TTLs, SetTTL(sender, n, ttl)
      PROVE  RegistryTypeOK'
  BY <1>4, RecordWrites DEF SetTTL
<1>5. ASSUME NEW operator \in Addresses, NEW approved \in BOOLEAN,
             SetApprovalForAll(sender, operator, approved)
      PROVE  RegistryTypeOK'
  BY <1>5 DEF SetApprovalForAll
<1> QED
  BY <1>1, <1>2, <1>3, <1>4, <1>5

-----------------------------------------------------------------------------
(***************************************************************************)
(* The types of the registrar                                              *)
(***************************************************************************)
\* Moving a token keeps the types of the token table.
LEMMA MoveTokenType ==
    ASSUME RegistrarTypeOK, NEW id \in Names, NEW to \in Addresses, MoveToken(id, to)
    PROVE  /\ tokenOwner' \in [Names -> Addresses]
           /\ tokenApproved' \in [Names -> Addresses]
           /\ tokenOperators' \subseteq Addresses \X Addresses
  BY RegistryAssumption DEF RegistrarTypeOK, MoveToken

\* What a sale or a renewal writes into the expiry table is in range.
LEMMA ExpiryType ==
    ASSUME RegistrarTypeOK, NEW caller, NEW id \in Names, NEW duration \in Durations
    PROVE  /\ CanRegister(caller, id, duration) =>
                [expiries EXCEPT ![id] = now + duration] \in [Names -> 0 .. MaxExpiry]
           /\ CanRenew(caller, id, duration) =>
                [expiries EXCEPT ![id] = @ + duration] \in [Names -> 0 .. MaxExpiry]
<1> USE RegistrarAssumption DEF RegistrarTypeOK
<1>1. ASSUME CanRegister(caller, id, duration)
      PROVE  now + duration \in 0 .. MaxExpiry
  BY <1>1 DEF CanRegister
<1>2. ASSUME CanRenew(caller, id, duration)
      PROVE  expiries[id] + duration \in 0 .. MaxExpiry
  BY <1>2 DEF CanRenew
<1> QED
  BY <1>1, <1>2

\* Every step of the registrar and of the registry below it keeps both types.
LEMMA RegistrarTypeStep ==
    ASSUME RegistryTypeOK, RegistrarTypeOK, RegistrarNext
    PROVE  RegistryTypeOK' /\ RegistrarTypeOK'
<1> USE RegistryAssumption, RegistrarAssumption
<1> Names \subseteq Nodes
  BY DEF Names
<1>1. CASE RegistryNext /\ UNCHANGED registrarVars
  BY <1>1, RegistryTypeStep DEF RegistrarTypeOK, registrarVars, tokenVars
<1>2. CASE ControllerStep
  <2> PICK caller \in DirectControllers, id \in Names, duration \in Durations :
        \/ \E owner \in Targets :
            \/ Register(caller, id, owner, duration)
            \/ RegisterOnly(caller, id, owner, duration)
        \/ Renew(caller, id, duration)
    BY <1>2 DEF ControllerStep
  <2>1. ASSUME NEW owner \in Targets, Register(caller, id, owner, duration)
        PROVE  RegistryTypeOK' /\ RegistrarTypeOK'
    BY <2>1, MoveTokenType, ExpiryType, RecordWrites
       DEF Register, RegistryTypeOK, RegistrarTypeOK
  <2>2. ASSUME NEW owner \in Targets, RegisterOnly(caller, id, owner, duration)
        PROVE  RegistryTypeOK' /\ RegistrarTypeOK'
    BY <2>2, MoveTokenType, ExpiryType
       DEF RegisterOnly, RegistryTypeOK, RegistrarTypeOK, registryVars
  <2>3. ASSUME Renew(caller, id, duration)
        PROVE  RegistryTypeOK' /\ RegistrarTypeOK'
    BY <2>3, ExpiryType DEF Renew, RegistryTypeOK, RegistrarTypeOK, registryVars
  <2> QED
    BY <2>1, <2>2, <2>3
<1>3. CASE HolderStep
  <2> PICK sender \in Senders, id \in Names, to \in Targets :
        \/ ApproveToken(sender, id, to)
        \/ TransferFrom(sender, id, to)
        \/ Reclaim(sender, id, to)
    BY <1>3 DEF HolderStep
  <2>1. CASE ApproveToken(sender, id, to)
    BY <2>1 DEF ApproveToken, RegistryTypeOK, RegistrarTypeOK, registryVars
  <2>2. CASE TransferFrom(sender, id, to)
    BY <2>2, MoveTokenType DEF TransferFrom, RegistryTypeOK, RegistrarTypeOK, registryVars
  <2>3. CASE Reclaim(sender, id, to)
    BY <2>3, RecordWrites
       DEF Reclaim, RegistryTypeOK, RegistrarTypeOK, registrarVars, tokenVars
  <2> QED
    BY <2>1, <2>2, <2>3
<1>4. CASE DelegationStep
  BY <1>4 DEF DelegationStep, SetTokenApprovalForAll, RegistryTypeOK, RegistrarTypeOK,
              registryVars
<1>5. CASE AdminStep
  <2>1. ASSUME NEW controller \in ManagedControllers,
               AddController(controller) \/ RemoveController(controller)
        PROVE  RegistryTypeOK' /\ RegistrarTypeOK'
    BY <2>1 DEF AddController, RemoveController, RegistryTypeOK, RegistrarTypeOK,
                registryVars, tokenVars
  <2>2. ASSUME NEW resolver \in TLDResolvers, SetTLDResolver(resolver)
        PROVE  RegistryTypeOK' /\ RegistrarTypeOK'
    BY <2>2, RecordWrites
       DEF SetTLDResolver, RegistryTypeOK, RegistrarTypeOK, registrarVars, tokenVars
  <2> QED
    BY <1>5, <2>1, <2>2 DEF AdminStep
<1>6. CASE Tick
  BY <1>6 DEF Tick, RegistryTypeOK, RegistrarTypeOK, registryVars, tokenVars
<1> QED
  BY <1>1, <1>2, <1>3, <1>4, <1>5, <1>6 DEF RegistrarNext

\* The states the contracts are deployed in have their types.
LEMMA RegistrarTypeInit ==
    ASSUME RegistryInit, RegistrarInit
    PROVE  RegistryTypeOK /\ RegistrarTypeOK
  BY RegistryAssumption, RegistrarAssumption
     DEF RegistryInit, RegistrarInit, RegistryTypeOK, RegistrarTypeOK, Record, Names

(***************************************************************************)
(* What a step of the registrar, or of the registry below it, may change   *)
(***************************************************************************)
\* A token moves by a sale of an available name or by a transfer that somebody asks
\* for who is approved.
LEMMA TokenMoves ==
    ASSUME RegistrarTypeOK, RegistrarNext, NEW id \in Names, tokenOwner'[id] # tokenOwner[id]
    PROVE  Available(id) \/ \E sender \in Senders : IsApprovedOrOwner(sender, id)
<1>a. tokenOwner \in [Names -> Addresses]
  BY DEF RegistrarTypeOK
<1>1. CASE ControllerStep
  <2>1. PICK caller \in DirectControllers, other \in Names, duration \in Durations,
             owner \in Targets :
          CanRegister(caller, other, duration) /\ MoveToken(other, owner)
    BY <1>1 DEF ControllerStep, Register, RegisterOnly, Renew
  <2>2. other = id
    BY <2>1, <1>a DEF MoveToken
  <2> QED
    BY <2>1, <2>2 DEF CanRegister
<1>2. CASE HolderStep
  <2>1. PICK sender \in Senders, other \in Names, to \in Targets :
          IsApprovedOrOwner(sender, other) /\ MoveToken(other, to)
    BY <1>2 DEF HolderStep, ApproveToken, TransferFrom, Reclaim, registrarVars, tokenVars
  <2>2. other = id
    BY <2>1, <1>a DEF MoveToken
  <2> QED
    BY <2>1, <2>2
<1> QED
  BY <1>1, <1>2
     DEF RegistrarNext, registrarVars, tokenVars, DelegationStep, SetTokenApprovalForAll,
         AdminStep, AddController, RemoveController, SetTLDResolver, Tick

\* A step writes at most one record: through the registry, if its sender speaks for
\* the node or its parent; by a sale or a claim of a .etn name; or the resolver of
\* the TLD.
LEMMA OneRecordMoves ==
    ASSUME RegistryTypeOK, RegistrarNext
    PROVE  \E n \in Nodes :
              /\ \A m \in Nodes \ {n} : records'[m] = records[m]
              /\ \/ records'[n] = records[n]
                 \/ \E sender \in Senders :
                      Authorised(n, sender) \/ (n # ROOT /\ Authorised(Parent[n], sender))
                 \/ /\ n \in Names /\ Live
                    /\ Available(n) \/ \E sender \in Senders : IsApprovedOrOwner(sender, n)
                 \/ /\ n = ETN /\ Authorised(ETN, REGISTRAR)
                    /\ records'[n].owner = records[n].owner
<1> USE RegistryAssumption, RegistrarAssumption
<1>a. records \in [Nodes -> Record] /\ Names \subseteq Nodes /\ ETN \in Nodes /\ ROOT \in Nodes
  BY DEF RegistryTypeOK, Names
<1>1. CASE RegistryNext
  <2>1. PICK sender \in Senders, n \in Nodes :
          \/ records' = records
          \/ /\ Authorised(n, sender) \/ (n # ROOT /\ Authorised(Parent[n], sender))
             /\ \/ \E owner \in Targets : records' = WithOwner(records, n, owner)
                \/ \E owner \in Targets, resolver \in Resolvers, ttl \in TTLs :
                      records' = WithRecord(records, n, owner, resolver, ttl)
                \/ \E resolver \in Resolvers : records' = WithResolver(records, n, resolver)
                \/ \E ttl \in TTLs : records' = WithTTL(records, n, ttl)
    BY <1>1, <1>a DEF RegistryNext, SetOwner, SetSubnodeOwner, SetRecord, SetSubnodeRecord,
                      SetResolver, SetTTL, SetApprovalForAll
  <2>2. \A m \in Nodes \ {n} : records'[m] = records[m]
    BY <2>1, <1>a DEF WithOwner, WithRecord, WithResolver, WithTTL
  <2> QED
    BY <2>1, <2>2
<1>2. CASE ControllerStep
  <2>1. PICK caller \in DirectControllers, n \in Names, duration \in Durations :
          \/ /\ Live /\ Available(n)
             /\ \E owner \in Targets : records' = WithOwner(records, n, owner)
          \/ records' = records
    BY <1>2 DEF ControllerStep, Register, RegisterOnly, Renew, CanRegister, registryVars
  <2>2. n \in Nodes /\ \A m \in Nodes \ {n} : records'[m] = records[m]
    BY <2>1, <1>a DEF WithOwner
  <2> QED
    BY <2>1, <2>2
<1>3. CASE HolderStep
  <2>1. PICK sender \in Senders, n \in Names, to \in Targets :
          \/ Live /\ IsApprovedOrOwner(sender, n) /\ records' = WithOwner(records, n, to)
          \/ records' = records
    BY <1>3 DEF HolderStep, ApproveToken, TransferFrom, Reclaim, registryVars
  <2>2. n \in Nodes /\ \A m \in Nodes \ {n} : records'[m] = records[m]
    BY <2>1, <1>a DEF WithOwner
  <2> QED
    BY <2>1, <2>2
<1>4. CASE AdminStep
  <2>1. \/ records' = records
        \/ /\ Authorised(ETN, REGISTRAR)
           /\ \E resolver \in TLDResolvers : records' = WithResolver(records, ETN, resolver)
    BY <1>4 DEF AdminStep, AddController, RemoveController, SetTLDResolver, registryVars
  <2>2. /\ \A m \in Nodes \ {ETN} : records'[m] = records[m]
        /\ records'[ETN].owner = records[ETN].owner
    BY <2>1, <1>a DEF WithResolver, Record
  <2> QED
    BY <2>1, <2>2, <1>a
<1> QED
  BY <1>1, <1>2, <1>3, <1>4, <1>a
     DEF RegistrarNext, registryVars, DelegationStep, SetTokenApprovalForAll, Tick

\* So an owner changes through the registry or with the .etn name.
LEMMA RecordMoves ==
    ASSUME RegistryTypeOK, RegistrarNext, NEW n \in Nodes,
           records'[n].owner # records[n].owner
    PROVE  \/ \E sender \in Senders :
                \/ Authorised(n, sender) \/ (n # ROOT /\ Authorised(Parent[n], sender))
                \/ n \in Names /\ IsApprovedOrOwner(sender, n)
           \/ n \in Names /\ Available(n)
  BY OneRecordMoves

\* No expiry is brought forward.
LEMMA ExpiryMoves ==
    ASSUME RegistrarTypeOK, RegistrarNext, NEW id \in Names
    PROVE  expiries'[id] >= expiries[id]
<1>a. expiries \in [Names -> Nat] /\ now \in Nat /\ GRACE_PERIOD \in Nat /\ Durations \subseteq Nat
  BY RegistrarAssumption DEF RegistrarTypeOK
<1>1. CASE ControllerStep
  <2> PICK caller \in DirectControllers, other \in Names, duration \in Durations :
        \/ CanRegister(caller, other, duration)
           /\ expiries' = [expiries EXCEPT ![other] = now + duration]
        \/ expiries' = [expiries EXCEPT ![other] = @ + duration]
    BY <1>1 DEF ControllerStep, Register, RegisterOnly, Renew
  <2>1. CASE CanRegister(caller, other, duration)
             /\ expiries' = [expiries EXCEPT ![other] = now + duration]
    BY <2>1, <1>a DEF CanRegister, Available
  <2>2. CASE expiries' = [expiries EXCEPT ![other] = @ + duration]
    BY <2>2, <1>a
  <2> QED
    BY <2>1, <2>2
<1>2. CASE ~ControllerStep
  <2> expiries' = expiries
    BY <1>2 DEF RegistrarNext, registrarVars, tokenVars, HolderStep, ApproveToken,
                TransferFrom, Reclaim, DelegationStep, SetTokenApprovalForAll, AdminStep,
                AddController, RemoveController, SetTLDResolver, Tick
  <2> QED
    BY <1>a
<1> QED
  BY <1>1, <1>2

\* The only operators added in the registry are those of accounts that send
\* transactions.
LEMMA OperatorMoves ==
    ASSUME RegistryTypeOK, RegistrarNext
    PROVE  operators' \subseteq operators \union (Senders \X Addresses)
<1>1. CASE RegistryNext
  BY <1>1, RegistryAssumption
     DEF RegistryNext, SetOwner, SetSubnodeOwner, SetRecord, SetSubnodeRecord, SetResolver,
         SetTTL, SetApprovalForAll
<1>2. CASE ~RegistryNext
  <2> operators' = operators
    BY <1>2 DEF RegistrarNext, registryVars, ControllerStep, Register, RegisterOnly, Renew,
                HolderStep, ApproveToken, TransferFrom, Reclaim, DelegationStep,
                SetTokenApprovalForAll, AdminStep, AddController, RemoveController,
                SetTLDResolver, Tick
  <2> QED
    OBVIOUS
<1> QED
  BY <1>1, <1>2

\* A token is approved to somebody only by its holder or an operator of the holder,
\* and the only operators added are those of accounts that send transactions.
LEMMA ApprovalMoves ==
    ASSUME RegistrarTypeOK, RegistrarNext
    PROVE  /\ tokenOperators' \subseteq tokenOperators \union (Senders \X Addresses)
           /\ \A id \in Names :
                \/ tokenApproved'[id] = NoAddr
                \/ /\ tokenOwner'[id] = tokenOwner[id]
                   /\ \/ tokenApproved'[id] = tokenApproved[id]
                      \/ \E sender \in Senders : \/ sender = tokenOwner[id]
                                                 \/ <<tokenOwner[id], sender>> \in tokenOperators
<1>a. tokenApproved \in [Names -> Addresses] /\ tokenOwner \in [Names -> Addresses]
  BY DEF RegistrarTypeOK
<1>1. CASE ControllerStep
  BY <1>1, <1>a DEF ControllerStep, Register, RegisterOnly, Renew, MoveToken
<1>2. CASE HolderStep
  BY <1>2, <1>a DEF HolderStep, ApproveToken, TransferFrom, Reclaim, MoveToken, registrarVars,
                    tokenVars
<1>3. CASE DelegationStep
  BY <1>3, RegistrarAssumption DEF DelegationStep, SetTokenApprovalForAll
<1> QED
  BY <1>1, <1>2, <1>3
     DEF RegistrarNext, registrarVars, tokenVars, AdminStep, AddController,
         RemoveController, SetTLDResolver, Tick

(***************************************************************************)
(* The inductive invariant.  Whoever moves a token is its holder, an       *)
(* operator of the holder or the approved account.  Operators are named by *)
(* accounts that send transactions, and an approval ends when the token    *)
(* changes hands, so a passive holder has neither.                         *)
(***************************************************************************)
OnlySendersDelegate ==
    /\ operators \subseteq Senders \X Addresses
    /\ tokenOperators \subseteq Senders \X Addresses

NoApprovalOnPassive ==
    \A id \in Names : tokenOwner[id] \in PassiveHolders => tokenApproved[id] = NoAddr

RegistrarInv ==
    /\ RegistryTypeOK
    /\ RegistrarTypeOK
    /\ OnlySendersDelegate
    /\ NoApprovalOnPassive

LEMMA RegistrarInvInit ==
    ASSUME RegistryInit, RegistrarInit
    PROVE  RegistrarInv
  BY RegistrarTypeInit, RegistryAssumption
     DEF RegistryInit, RegistrarInit, RegistrarInv, OnlySendersDelegate, NoApprovalOnPassive

\* A passive holder is not, and has no, operator or approved account.
LEMMA PassiveIsAlone ==
    ASSUME RegistrarInv, NEW sender \in Senders, NEW id \in Names,
           tokenOwner[id] \in PassiveHolders
    PROVE  ~IsApprovedOrOwner(sender, id) /\ <<tokenOwner[id], sender>> \notin tokenOperators
  BY RegistryAssumption
     DEF RegistrarInv, IsApprovedOrOwner, OnlySendersDelegate, NoApprovalOnPassive,
         PassiveHolders

LEMMA RegistrarInvStep ==
    ASSUME RegistrarInv, [RegistrarNext]_registrarStateVars
    PROVE  RegistrarInv'
<1> USE RegistryAssumption, RegistrarAssumption
<1>1. CASE UNCHANGED registrarStateVars
  BY <1>1 DEF registrarStateVars, registryVars, registrarVars, tokenVars, RegistrarInv,
              RegistryTypeOK, RegistrarTypeOK, OnlySendersDelegate, NoApprovalOnPassive,
              PassiveHolders
<1>2. CASE RegistrarNext
  <2>1. RegistryTypeOK' /\ RegistrarTypeOK'
    BY <1>2, RegistrarTypeStep DEF RegistrarInv
  <2>2. tokenOperators' \subseteq Senders \X Addresses /\ NoApprovalOnPassive'
    <3>1. \A id \in Names, sender \in Senders :
            tokenOwner[id] \in PassiveHolders =>
                sender # tokenOwner[id] /\ <<tokenOwner[id], sender>> \notin tokenOperators
      BY PassiveIsAlone DEF PassiveHolders
    <3> QED
      BY <1>2, <3>1, ApprovalMoves DEF RegistrarInv, OnlySendersDelegate, NoApprovalOnPassive
  <2>3. operators' \subseteq Senders \X Addresses
    BY <1>2, OperatorMoves DEF RegistrarInv, OnlySendersDelegate
  <2> QED
    BY <2>1, <2>2, <2>3 DEF RegistrarInv, OnlySendersDelegate
<1> QED
  BY <1>1, <1>2

\* Types, delegations and approvals are in order in every reachable state.
THEOREM RegistrarInvariant == RegistrarSpec => []RegistrarInv
  BY RegistrarInvInit, RegistrarInvStep, PTL DEF RegistrarSpec, RegistrarStart

(***************************************************************************)
(* The promises                                                            *)
(***************************************************************************)
\* Nobody moves a token in its grace period.
THEOREM GraceFreezes == RegistrarSpec => GraceFreezesToken
<1>1. ASSUME RegistrarInv, [RegistrarNext]_registrarStateVars
      PROVE  [\A id \in Names : InGrace(id) => tokenOwner'[id] = tokenOwner[id]]_registrarStateVars
  <2> SUFFICES ASSUME RegistrarNext, NEW id \in Names, InGrace(id),
                      tokenOwner'[id] # tokenOwner[id]
               PROVE  FALSE
    BY <1>1
  <2>1. Available(id) \/ Unexpired(id)
    BY <1>1, TokenMoves DEF RegistrarInv, IsApprovedOrOwner
  <2>2. now \in Int /\ expiries[id] \in Int
    BY <1>1 DEF RegistrarInv, RegistrarTypeOK
  <2> QED
    BY <2>1, <2>2 DEF InGrace, Unexpired
<1> QED
  BY <1>1, RegistrarInvariant, PTL DEF GraceFreezesToken, RegistrarSpec, RegistrarStart

\* A holder who sends nothing keeps the token until the grace period is over.
THEOREM HolderKeeps == RegistrarSpec => HolderKeepsToken
<1>1. ASSUME RegistrarInv, [RegistrarNext]_registrarStateVars
      PROVE  [\A id \in Names :
                tokenOwner[id] \in PassiveHolders /\ ~Available(id)
                => tokenOwner'[id] = tokenOwner[id]]_registrarStateVars
  BY <1>1, TokenMoves, PassiveIsAlone DEF RegistrarInv
<1> QED
  BY <1>1, RegistrarInvariant, PTL DEF HolderKeepsToken, RegistrarSpec, RegistrarStart

\* No sale and no renewal brings an expiry forward.
THEOREM ExpiryGrows == RegistrarSpec => ExpiryNeverShortened
<1>1. ASSUME RegistrarInv, [RegistrarNext]_registrarStateVars
      PROVE  [\A id \in Names : expiries'[id] >= expiries[id]]_registrarStateVars
  BY <1>1, ExpiryMoves DEF RegistrarInv
<1> QED
  BY <1>1, RegistrarInvariant, PTL DEF ExpiryNeverShortened, RegistrarSpec, RegistrarStart

\* As long as the registrar is live, the registry record of a holder who sends
\* nothing stays with it, too.
THEOREM HolderKeepsName == RegistrarSpec => HolderKeepsRecord
<1>1. ASSUME RegistrarInv, [RegistrarNext]_registrarStateVars
      PROVE  [\A id \in Names :
                /\ Live
                /\ tokenOwner[id] \in PassiveHolders
                /\ records[id].owner \in PassiveHolders
                /\ ~Available(id)
                => records'[id].owner = records[id].owner]_registrarStateVars
  <2> SUFFICES ASSUME RegistrarNext, NEW id \in Names, Live,
                      tokenOwner[id] \in PassiveHolders,
                      records[id].owner \in PassiveHolders, ~Available(id),
                      records'[id].owner # records[id].owner
               PROVE  FALSE
    BY <1>1
  <2> USE RegistryAssumption, RegistrarAssumption
  <2>1. id \in Nodes /\ id # ROOT /\ Parent[id] = ETN
    BY DEF Names
  <2>2. records[ETN].owner = REGISTRAR
    BY DEF Live, Owner
  <2>3. \A sender \in Senders : ~Authorised(id, sender) /\ ~Authorised(ETN, sender)
    BY <1>1, <2>2 DEF Authorised, PassiveHolders, RegistrarInv, OnlySendersDelegate
  <2>4. \A sender \in Senders : ~IsApprovedOrOwner(sender, id)
    BY <1>1, PassiveIsAlone
  <2> QED
    BY <1>1, <2>1, <2>3, <2>4, RecordMoves DEF RegistrarInv
<1> QED
  BY <1>1, RegistrarInvariant, PTL DEF HolderKeepsRecord, RegistrarSpec, RegistrarStart

\* A record whose node and parent belong to accounts that send nothing is out of
\* everybody's reach.
THEOREM AuthorityFromAbove == RegistrarSpec => ControlledFromAbove
<1>1. ASSUME RegistrarInv, [RegistrarNext]_registrarStateVars
      PROVE  [\A n \in Nodes :
                OwnersAbove(n) \intersect (Senders \union {REGISTRAR}) = {}
                => records'[n] = records[n]]_registrarStateVars
  <2> SUFFICES ASSUME RegistrarNext, NEW n \in Nodes,
                      OwnersAbove(n) \intersect (Senders \union {REGISTRAR}) = {}
               PROVE  records'[n] = records[n]
    BY <1>1
  <2> USE RegistryAssumption, RegistrarAssumption
  <2>b. /\ \A sender \in Senders \union {REGISTRAR} : ~Authorised(n, sender)
        /\ n # ROOT => \A sender \in Senders : ~Authorised(Parent[n], sender)
        /\ n \in Names => ~Live
    BY <1>1 DEF OwnersAbove, Authorised, RegistrarInv, OnlySendersDelegate, Names, Live, Owner
  <2>1. RegistryTypeOK
    BY <1>1 DEF RegistrarInv
  <2> QED
    BY <2>1, <2>b, OneRecordMoves
<1> QED
  BY <1>1, RegistrarInvariant, PTL DEF ControlledFromAbove, RegistrarSpec, RegistrarStart
================================================================================
