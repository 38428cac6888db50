---------------------------- MODULE ControllerProofs ----------------------------
(***************************************************************************)
(* Proofs about the controller on top of the registrar, for every set of   *)
(* requests, every commitment age and any depth of nested purchases: what   *)
(* a sale needs, and that a registration in progress can be completed.     *)
(* And about the market around it, for all prices, answers of the oracle,   *)
(* accounts and lists of names: balances, quotes and the premium; and the  *)
(* verification script on such a market: its oracle drill and its checks.   *)
(***************************************************************************)
EXTENDS Verification, RegistrarProofs, SequenceTheorems, FiniteSetTheorems, WellFoundedInduction

(***************************************************************************)
(* The inductive invariant.  While a resolver is called this contract holds *)
(* the token: nobody else may move it, since the contract approves nobody   *)
(* and only accounts that send transactions name operators.                *)
(***************************************************************************)
ControllerTypeOK ==
    /\ commitments \in [Registrations -> Nat]
    /\ calls \in Seq(Registrations)

NoApprovalOnPending ==
    \A id \in Names : tokenOwner[id] = CONTROLLER => tokenApproved[id] = NoAddr

ControllerInv ==
    /\ RegistryTypeOK /\ RegistrarTypeOK /\ ControllerTypeOK
    /\ OnlySendersDelegate
    /\ NoApprovalOnPending
    /\ PendingCallsHold

\* What the parameters are.
LEMMA ControllerConstants ==
    /\ CONTROLLER \in Addresses /\ CONTROLLER \notin Senders /\ CONTROLLER # NoAddr
    /\ NoAddr \notin Senders
    /\ GRACE_PERIOD \in Nat /\ StartTime \in Nat /\ MaxTime \in Nat /\ MaxExpiry \in Nat
    /\ Durations \subseteq Nat
    /\ MinCommitmentAge \in Nat /\ MaxCommitmentAge \in Nat /\ MaxCommitmentAge <= StartTime
    /\ \A r \in Registrations : /\ r.id \in Names /\ r.id \in Nodes
                                /\ r.owner \in Addresses /\ r.duration \in Nat
                                /\ r.resolver \in Resolvers
  BY ControllerAssumption, RegistrarAssumption, RegistryAssumption
     DEF ControllerAssumption, Names

(***************************************************************************)
(* What the steps do to tokens, expiries and records                       *)
(***************************************************************************)

\* A sale of a name, to the buyer or to this contract for the buyer.
Sale(r, to) ==
    /\ Consume(r)
    /\ MoveToken(r.id, to)
    /\ records' \in {WithOwner(records, r.id, r.owner),
                     WithRecord(records, r.id, r.owner, r.resolver, NoTTL)}

\* A step of the controller is a sale, the end of one, a renewal or a step of
\* somebody else, which sells and commits nothing.
LEMMA ControllerSteps ==
    ASSUME ControllerNext
    PROVE  \/ \E r \in Registrations : Commit(r)
           \/ \E r \in Registrations : Sale(r, r.owner) /\ calls' = calls
           \/ \E r \in Registrations : Sale(r, CONTROLLER) /\ calls' = Append(calls, r)
           \/ RegisterEnd
           \/ \E id \in Names, duration \in Durations : ControllerRenew(id, duration)
           \/ OtherStep
<1>1. ASSUME NEW r \in Registrations, RegisterPlain(r)
      PROVE  Sale(r, r.owner) /\ calls' = calls
  BY <1>1 DEF RegisterPlain, Sale
<1>2. ASSUME NEW r \in Registrations, RegisterBegin(r)
      PROVE  Sale(r, CONTROLLER) /\ calls' = Append(calls, r)
  BY <1>2 DEF RegisterBegin, Sale
<1> QED
  BY <1>1, <1>2 DEF ControllerNext

\* A sale in figures: the commitment has the right age and is spent, the name was
\* free and is not any more, and nothing happens to other names.
LEMMA SaleFacts ==
    ASSUME RegistryTypeOK, RegistrarTypeOK, ControllerTypeOK,
           NEW r \in Registrations, NEW to \in Addresses, Sale(r, to)
    PROVE  /\ RegistryTypeOK' /\ RegistrarTypeOK' /\ commitments' \in [Registrations -> Nat]
           /\ now' = now /\ operators' = operators /\ tokenOperators' = tokenOperators
           /\ Available(r.id) /\ ~Unexpired(r.id)
           /\ commitments[r] > 0 /\ commitments'[r] = 0
           /\ commitments[r] + MinCommitmentAge <= now
           /\ commitments[r] + MaxCommitmentAge > now
           /\ \A other \in Registrations \ {r} : commitments'[other] = commitments[other]
           /\ expiries'[r.id] = now + r.duration /\ expiries'[r.id] > now
           /\ tokenOwner'[r.id] = to /\ tokenApproved'[r.id] = NoAddr
           /\ records'[r.id].owner = r.owner
           /\ \A id \in Names \ {r.id} : /\ expiries'[id] = expiries[id]
                                         /\ tokenOwner'[id] = tokenOwner[id]
                                         /\ tokenApproved'[id] = tokenApproved[id]
<1> USE ControllerConstants
<1>1. /\ now \in Nat /\ StartTime <= now /\ expiries \in [Names -> 0 .. MaxExpiry]
      /\ expiries[r.id] \in Nat
      /\ tokenOwner \in [Names -> Addresses] /\ tokenApproved \in [Names -> Addresses]
      /\ records \in [Nodes -> Record] /\ commitments \in [Registrations -> Nat]
  BY DEF RegistrarTypeOK, RegistryTypeOK, ControllerTypeOK
<1>2. /\ Available(r.id) /\ r.duration > 0 /\ now + r.duration <= MaxExpiry
      /\ OldEnough(r) /\ ~TooOld(r)
      /\ commitments' = [commitments EXCEPT ![r] = 0]
      /\ expiries' = [expiries EXCEPT ![r.id] = now + r.duration]
      /\ operators' = operators /\ now' = now /\ controllers' = controllers
      /\ tokenOwner' = [tokenOwner EXCEPT ![r.id] = to]
      /\ tokenApproved' = [tokenApproved EXCEPT ![r.id] = NoAddr]
      /\ tokenOperators' = tokenOperators
  BY DEF Sale, Consume, CanRegister, MoveToken
<1>3. now + r.duration \in 0 .. MaxExpiry /\ now + r.duration > now
  BY <1>1, <1>2
<1>4. commitments[r] \in Nat /\ commitments[r] > 0
      /\ commitments[r] + MinCommitmentAge <= now /\ commitments[r] + MaxCommitmentAge > now
  BY <1>1, <1>2 DEF OldEnough, TooOld
<1>5. ~Unexpired(r.id)
  BY <1>1, <1>2 DEF Available, Unexpired
<1>6. NoAddr \in Addresses /\ NoTTL \in TTLs
  BY RegistryAssumption
<1>7. records' \in [Nodes -> Record] /\ records'[r.id].owner = r.owner
  <2>1. records' \in [Nodes -> Record]
    BY <1>1, <1>6, RecordWrites DEF Sale
  <2>2. records'[r.id].owner = r.owner
    BY <1>1 DEF Sale, WithOwner, WithRecord, Record
  <2> QED
    BY <2>1, <2>2
<1>8. RegistryTypeOK' /\ RegistrarTypeOK' /\ commitments' \in [Registrations -> Nat]
  BY <1>1, <1>2, <1>3, <1>6, <1>7 DEF RegistryTypeOK, RegistrarTypeOK
<1> QED
  BY <1>1, <1>2, <1>3, <1>4, <1>5, <1>7, <1>8

\* Accounts leave commitments and expiries alone, and a token this contract holds
\* as well: it has no operator and approves nobody.
LEMMA OthersDoNot ==
    ASSUME ControllerInv, OtherStep
    PROVE  /\ RegistryTypeOK' /\ RegistrarTypeOK' /\ OnlySendersDelegate'
           /\ expiries' = expiries /\ commitments' = commitments /\ calls' = calls
           /\ now' = now \/ calls = <<>>
           /\ \A id \in Names : tokenOwner[id] = CONTROLLER =>
                tokenOwner'[id] = CONTROLLER /\ tokenApproved'[id] = NoAddr
           /\ \A id \in Names : tokenOwner'[id] # tokenOwner[id] => tokenApproved'[id] = NoAddr
<1> USE ControllerConstants
<1>1. RegistrarNext
  BY DEF OtherStep, RegistrarNext
<1>2. RegistryTypeOK' /\ RegistrarTypeOK'
  BY <1>1, RegistrarTypeStep DEF ControllerInv
<1>3. OnlySendersDelegate'
  <2>1. operators' \subseteq Senders \X Addresses
    BY <1>1, OperatorMoves DEF ControllerInv, OnlySendersDelegate
  <2>2. tokenOperators' \subseteq Senders \X Addresses
    BY <1>1, ApprovalMoves DEF ControllerInv, OnlySendersDelegate
  <2> QED
    BY <2>1, <2>2 DEF OnlySendersDelegate
<1>4. expiries' = expiries /\ commitments' = commitments /\ calls' = calls
      /\ (now' = now \/ calls = <<>>)
  BY DEF OtherStep, controllerVars, registrarVars, tokenVars, HolderStep, ApproveToken,
         TransferFrom, Reclaim, DelegationStep, SetTokenApprovalForAll, Tick
<1>5. ASSUME NEW id \in Names, tokenOwner[id] = CONTROLLER, NEW sender \in Senders
      PROVE  ~IsApprovedOrOwner(sender, id) /\ <<tokenOwner[id], sender>> \notin tokenOperators
             /\ sender # tokenOwner[id]
  BY <1>5 DEF ControllerInv, OnlySendersDelegate, NoApprovalOnPending, IsApprovedOrOwner
<1>6. \A id \in Names : tokenOwner'[id] # tokenOwner[id] =>
        \E sender \in Senders : IsApprovedOrOwner(sender, id)
  <2>1. CASE HolderStep
    <3>1. PICK sender \in Senders, other \in Names, to \in Targets :
            \/ tokenOwner' = tokenOwner
            \/ IsApprovedOrOwner(sender, other) /\ MoveToken(other, to)
      BY <2>1 DEF HolderStep, ApproveToken, TransferFrom, Reclaim, registrarVars, tokenVars
    <3> QED
      BY <3>1 DEF MoveToken, ControllerInv, RegistrarTypeOK
  <2>2. CASE ~HolderStep
    BY <2>2 DEF OtherStep, registrarVars, tokenVars, DelegationStep,
                SetTokenApprovalForAll, Tick
  <2> QED
    BY <2>1, <2>2
<1>7. ASSUME NEW id \in Names, tokenOwner[id] = CONTROLLER
      PROVE  tokenOwner'[id] = CONTROLLER /\ tokenApproved'[id] = NoAddr
  BY <1>1, <1>5, <1>6, <1>7, ApprovalMoves DEF ControllerInv, NoApprovalOnPending
<1>8. \A id \in Names : tokenOwner'[id] # tokenOwner[id] => tokenApproved'[id] = NoAddr
  BY <1>1, ApprovalMoves DEF ControllerInv
<1> QED
  BY <1>2, <1>3, <1>4, <1>7, <1>8

(***************************************************************************)
(* The invariant is kept                                                   *)
(***************************************************************************)
StaysUnexpired(id) == expiries'[id] > now' /\ tokenOwner'[id] # NoAddr

LEMMA ControllerInvInit ==
    ASSUME ControllerStart
    PROVE  ControllerInv
<1> USE ControllerConstants
<1>1. RegistryTypeOK /\ RegistrarTypeOK /\ OnlySendersDelegate
  BY RegistrarTypeInit, RegistryAssumption
     DEF ControllerStart, RegistrarStart, RegistryInit, RegistrarInit, OnlySendersDelegate
<1>2. ControllerTypeOK /\ Len(calls) = 0
  BY EmptySeq DEF ControllerStart, ControllerInit, ControllerTypeOK
<1>3. NoApprovalOnPending
  BY DEF ControllerStart, RegistrarStart, RegistrarInit, NoApprovalOnPending
<1>4. PendingCallsHold
  BY <1>2 DEF PendingCallsHold
<1> QED
  BY <1>1, <1>2, <1>3, <1>4 DEF ControllerInv

\* A name in the middle of its registration is not for sale: nested purchases are of
\* other names.
LEMMA SaleIsOfAnother ==
    ASSUME ControllerInv, NEW r \in Registrations, NEW to \in Addresses, Sale(r, to)
    PROVE  /\ \A i \in 1 .. Len(calls) :
                /\ calls[i] \in Registrations /\ calls[i].id # r.id
                /\ tokenOwner'[calls[i].id] = CONTROLLER /\ StaysUnexpired(calls[i].id)
           /\ \A i, j \in 1 .. Len(calls) : calls[i].id = calls[j].id => i = j
<1> USE ControllerConstants
<1>1. SUFFICES ASSUME NEW i \in 1 .. Len(calls)
               PROVE  /\ calls[i] \in Registrations /\ calls[i].id # r.id
                      /\ tokenOwner'[calls[i].id] = CONTROLLER /\ StaysUnexpired(calls[i].id)
  BY DEF ControllerInv, PendingCallsHold
<1>2. calls[i] \in Registrations /\ calls[i].id \in Names
  BY ElementOfSeq DEF ControllerInv, ControllerTypeOK
<1>3. tokenOwner[calls[i].id] = CONTROLLER /\ Unexpired(calls[i].id)
  BY DEF ControllerInv, PendingCallsHold
<1>4. calls[i].id # r.id /\ now' = now
  BY <1>3, SaleFacts DEF ControllerInv
<1>5. tokenOwner'[calls[i].id] = tokenOwner[calls[i].id] /\ expiries'[calls[i].id] = expiries[calls[i].id]
  BY <1>2, <1>4, SaleFacts DEF ControllerInv
<1> QED
  BY <1>2, <1>3, <1>4, <1>5 DEF Unexpired, StaysUnexpired

LEMMA SaleKeepsInv ==
    ASSUME ControllerInv, NEW r \in Registrations,
           \/ Sale(r, r.owner) /\ calls' = calls
           \/ Sale(r, CONTROLLER) /\ calls' = Append(calls, r)
    PROVE  ControllerInv'
<1> USE ControllerConstants
<1>1. PICK to \in {r.owner, CONTROLLER} :
        Sale(r, to) /\ (calls' = calls \/ (to = CONTROLLER /\ calls' = Append(calls, r)))
  OBVIOUS
<1>2. /\ RegistryTypeOK' /\ RegistrarTypeOK' /\ commitments' \in [Registrations -> Nat]
      /\ OnlySendersDelegate'
  BY <1>1, SaleFacts DEF ControllerInv, OnlySendersDelegate
<1>3. calls \in Seq(Registrations) /\ calls' \in Seq(Registrations)
  <2>1. calls \in Seq(Registrations)
    BY DEF ControllerInv, ControllerTypeOK
  <2>2. Append(calls, r) \in Seq(Registrations)
    BY <2>1, AppendProperties
  <2> QED
    BY <1>1, <2>1, <2>2
<1>4. NoApprovalOnPending'
  <2> SUFFICES ASSUME NEW id \in Names, tokenOwner'[id] = CONTROLLER
               PROVE  tokenApproved'[id] = NoAddr
    BY DEF NoApprovalOnPending
  <2>1. CASE id = r.id
    BY <1>1, <2>1, SaleFacts DEF ControllerInv
  <2>2. CASE id # r.id
    BY <1>1, <2>2, SaleFacts DEF ControllerInv, NoApprovalOnPending
  <2> QED
    BY <2>1, <2>2
<1>5. CASE calls' = calls
  <2>1. PendingCallsHold'
    BY <1>1, <1>5, SaleIsOfAnother DEF PendingCallsHold, Unexpired, StaysUnexpired
  <2> QED
    BY <1>2, <1>3, <1>4, <2>1 DEF ControllerInv, ControllerTypeOK
<1>6. CASE to = CONTROLLER /\ calls' = Append(calls, r)
  <2> DEFINE n == Len(calls)
  <2>1. /\ n \in Nat /\ Len(calls') = n + 1 /\ calls'[n + 1] = r
        /\ \A i \in 1 .. n : calls'[i] = calls[i]
    BY <1>3, <1>6, LenProperties, AppendProperties
  <2>2. tokenOwner'[r.id] = CONTROLLER /\ StaysUnexpired(r.id)
    BY <1>1, <1>6, SaleFacts DEF ControllerInv, StaysUnexpired
  <2>3. \A i \in 1 .. n : /\ calls'[i].id # r.id
                          /\ tokenOwner'[calls'[i].id] = CONTROLLER /\ StaysUnexpired(calls'[i].id)
    BY <1>1, <2>1, SaleIsOfAnother
  <2>4. \A i, j \in 1 .. n : calls'[i].id = calls'[j].id => i = j
    BY <1>1, <2>1, SaleIsOfAnother
  <2>5. \A i \in 1 .. Len(calls') : i \in 1 .. n \/ i = n + 1
    BY <2>1
  <2>6. PendingCallsHold'
    <3>1. \A i \in 1 .. Len(calls') :
            tokenOwner'[calls'[i].id] = CONTROLLER /\ StaysUnexpired(calls'[i].id)
      BY <2>1, <2>2, <2>3, <2>5
    <3>2. \A i, j \in 1 .. Len(calls') : calls'[i].id = calls'[j].id => i = j
      BY <2>1, <2>3, <2>4, <2>5
    <3> QED
      BY <3>1, <3>2 DEF PendingCallsHold, Unexpired, StaysUnexpired
  <2> QED
    BY <1>2, <1>3, <1>4, <2>6 DEF ControllerInv, ControllerTypeOK
<1> QED
  BY <1>1, <1>5, <1>6

LEMMA EndKeepsInv ==
    ASSUME ControllerInv, RegisterEnd
    PROVE  ControllerInv'
<1> USE ControllerConstants
<1> DEFINE n == Len(calls)
           r == calls[n]
<1>1. /\ calls \in Seq(Registrations) /\ calls # <<>> /\ n \in Nat /\ n > 0
      /\ r \in Registrations /\ r.id \in Names /\ r.owner \in Addresses
  <2>1. calls \in Seq(Registrations) /\ calls # <<>>
    BY DEF ControllerInv, ControllerTypeOK, RegisterEnd
  <2>2. n \in Nat /\ n > 0
    BY <2>1, LenProperties, EmptySeq
  <2>3. r \in Registrations
    BY <2>1, <2>2, ElementOfSeq
  <2> QED
    BY <2>1, <2>2, <2>3
<1>2. /\ calls' = SubSeq(calls, 1, n - 1) /\ MoveToken(r.id, r.owner)
      /\ records' = records /\ operators' = operators /\ now' = now /\ expiries' = expiries
      /\ controllers' = controllers /\ commitments' = commitments
  BY DEF RegisterEnd, registryVars
<1>3. /\ calls' \in Seq(Registrations) /\ Len(calls') = n - 1
      /\ \A i \in 1 .. n - 1 : calls'[i] = calls[i]
  <2>1. \A i \in 1 .. n - 1 : i \in 1 .. n /\ calls[i] \in Registrations
    BY <1>1, ElementOfSeq
  <2>2. /\ SubSeq(calls, 1, n - 1) \in Seq(Registrations)
        /\ Len(SubSeq(calls, 1, n - 1)) = IF 1 <= n - 1 THEN (n - 1) - 1 + 1 ELSE 0
        /\ \A i \in 1 .. (n - 1) - 1 + 1 : SubSeq(calls, 1, n - 1)[i] = calls[1 + i - 1]
    <3>1. 1 \in Int /\ n - 1 \in Int
      BY <1>1
    <3> HIDE DEF n, r
    <3> QED
      BY <2>1, <3>1, SubSeqProperties
  <2> HIDE DEF n, r
  <2>3. (n - 1) - 1 + 1 = n - 1 /\ \A i \in Int : 1 + i - 1 = i
    BY <1>1
  <2> QED
    BY <1>1, <1>2, <2>2, <2>3
<1>4. /\ tokenOwner' = [tokenOwner EXCEPT ![r.id] = r.owner]
      /\ tokenApproved' = [tokenApproved EXCEPT ![r.id] = NoAddr]
      /\ tokenOperators' = tokenOperators
      /\ tokenOwner \in [Names -> Addresses] /\ tokenApproved \in [Names -> Addresses]
  BY <1>2 DEF MoveToken, ControllerInv, RegistrarTypeOK
<1>5. RegistryTypeOK' /\ RegistrarTypeOK' /\ ControllerTypeOK' /\ OnlySendersDelegate'
  BY <1>1, <1>2, <1>3, <1>4, RegistryAssumption
     DEF ControllerInv, RegistryTypeOK, RegistrarTypeOK, ControllerTypeOK, OnlySendersDelegate
<1>6. NoApprovalOnPending'
  BY <1>1, <1>4 DEF ControllerInv, NoApprovalOnPending
<1>7. PendingCallsHold'
  <2>1. ASSUME NEW i \in 1 .. n - 1
        PROVE  /\ i \in 1 .. n /\ i # n /\ calls[i].id \in Names /\ calls[i].id # r.id
               /\ tokenOwner[calls[i].id] = CONTROLLER /\ Unexpired(calls[i].id)
    <3>1. i \in 1 .. n /\ n \in 1 .. n /\ i # n
      BY <1>1
    <3>2. calls[i] \in Registrations
      BY <1>1, <3>1, ElementOfSeq
    <3> QED
      BY <3>1, <3>2 DEF ControllerInv, PendingCallsHold
  <2>2. ASSUME NEW i \in 1 .. n - 1
        PROVE  tokenOwner'[calls'[i].id] = CONTROLLER /\ StaysUnexpired(calls'[i].id)
    <3>1. calls'[i] = calls[i]
      BY <1>3
    <3>2. tokenOwner'[calls[i].id] = tokenOwner[calls[i].id]
      BY <1>4, <2>1
    <3> QED
      BY <1>2, <2>1, <3>1, <3>2 DEF Unexpired, StaysUnexpired
  <2>3. \A i, j \in 1 .. n - 1 : calls'[i].id = calls'[j].id => i = j
    BY <1>3, <2>1 DEF ControllerInv, PendingCallsHold
  <2> QED
    BY <1>3, <2>2, <2>3 DEF PendingCallsHold, Unexpired, StaysUnexpired
<1> QED
  BY <1>5, <1>6, <1>7 DEF ControllerInv

LEMMA ControllerInvStep ==
    ASSUME ControllerInv, [ControllerNext]_controllerStateVars
    PROVE  ControllerInv'
<1> USE ControllerConstants
<1>0. calls \in Seq(Registrations) /\ Len(calls) \in Nat
      /\ \A i \in 1 .. Len(calls) : calls[i].id \in Names
  <2>1. calls \in Seq(Registrations)
    BY DEF ControllerInv, ControllerTypeOK
  <2> QED
    BY <2>1, LenProperties, ElementOfSeq
<1>1. ASSUME NEW r \in Registrations, Commit(r) PROVE ControllerInv'
  <2>1. /\ calls' = calls /\ records' = records /\ operators' = operators
        /\ now' = now /\ expiries' = expiries /\ tokenOwner' = tokenOwner
        /\ tokenApproved' = tokenApproved /\ tokenOperators' = tokenOperators
        /\ controllers' = controllers /\ commitments' = [commitments EXCEPT ![r] = now]
    BY <1>1 DEF Commit, registryVars, registrarVars, tokenVars
  <2>2. now \in Nat
    BY DEF ControllerInv, RegistrarTypeOK
  <2> QED
    BY <2>1, <2>2
       DEF ControllerInv, RegistryTypeOK, RegistrarTypeOK, ControllerTypeOK,
           OnlySendersDelegate, NoApprovalOnPending, PendingCallsHold, Unexpired
<1>2. ASSUME NEW id \in Names, NEW duration \in Durations, ControllerRenew(id, duration)
      PROVE  ControllerInv'
  <2>1. /\ calls' = calls /\ records' = records /\ operators' = operators
        /\ now' = now /\ tokenOwner' = tokenOwner
        /\ tokenApproved' = tokenApproved /\ tokenOperators' = tokenOperators
        /\ controllers' = controllers /\ commitments' = commitments
        /\ CanRenew(CONTROLLER, id, duration)
        /\ expiries' = [expiries EXCEPT ![id] = @ + duration]
    BY <1>2 DEF ControllerRenew, Renew, registryVars, controllerVars
  <2>2. expiries' \in [Names -> 0 .. MaxExpiry]
    BY <2>1, ExpiryType DEF ControllerInv
  <2>3. \A other \in Names : Unexpired(other) => StaysUnexpired(other)
    BY <2>1, <2>2 DEF ControllerInv, RegistrarTypeOK, Unexpired, StaysUnexpired
  <2>4. PendingCallsHold'
    BY <1>0, <2>1, <2>3 DEF ControllerInv, PendingCallsHold, Unexpired, StaysUnexpired
  <2> QED
    BY <2>1, <2>2, <2>4
       DEF ControllerInv, RegistryTypeOK, RegistrarTypeOK, ControllerTypeOK,
           OnlySendersDelegate, NoApprovalOnPending
<1>3. CASE OtherStep
  <2>1. NoApprovalOnPending'
    BY <1>3, OthersDoNot DEF NoApprovalOnPending
  <2>2. PendingCallsHold'
    <3>1. CASE calls = <<>>
      <4>1. calls' = calls /\ Len(calls') = 0
        BY <1>3, <3>1, OthersDoNot, EmptySeq
      <4> QED
        BY <4>1 DEF PendingCallsHold
    <3>2. CASE calls # <<>>
      <4>1. now' = now /\ expiries' = expiries /\ calls' = calls
        BY <1>3, <3>2, OthersDoNot
      <4>2. \A i \in 1 .. Len(calls) : tokenOwner'[calls[i].id] = CONTROLLER
        BY <1>0, <1>3, OthersDoNot DEF ControllerInv, PendingCallsHold
      <4> QED
        BY <4>1, <4>2 DEF ControllerInv, PendingCallsHold, Unexpired
    <3> QED
      BY <3>1, <3>2
  <2>3. ControllerTypeOK'
    BY <1>3, OthersDoNot DEF ControllerInv, ControllerTypeOK
  <2> QED
    BY <1>3, <2>1, <2>2, <2>3, OthersDoNot DEF ControllerInv
<1>4. CASE UNCHANGED controllerStateVars
  BY <1>4 DEF controllerStateVars, controllerVars, registrarStateVars, registryVars,
              registrarVars, tokenVars, ControllerInv, RegistryTypeOK, RegistrarTypeOK,
              ControllerTypeOK, OnlySendersDelegate, NoApprovalOnPending, PendingCallsHold,
              Unexpired
<1> QED
  BY <1>1, <1>2, <1>3, <1>4, ControllerSteps, SaleKeepsInv, EndKeepsInv

(***************************************************************************)
(* The theorems                                                            *)
(***************************************************************************)
THEOREM ControllerInvariant == ControllerSpec => []ControllerInv
  BY ControllerInvInit, ControllerInvStep, PTL DEF ControllerSpec

\* Whatever resolvers do when they are called in the middle of register(), to any
\* depth, every registration in progress holds its token and can be completed.
THEOREM PendingCallsAreSafe == ControllerSpec => []PendingCallsHold
<1>1. ControllerInv => PendingCallsHold
  BY DEF ControllerInv
<1> QED
  BY <1>1, ControllerInvariant, PTL

(***************************************************************************)
(* A free name gets a new expiry only by a sale.                           *)
(***************************************************************************)
LEMMA SoldBySale ==
    ASSUME ControllerInv, ControllerNext, NEW id \in Names, Sold(id)
    PROVE  \E r \in Registrations, to \in Addresses :
              r.id = id /\ to \in {r.owner, CONTROLLER} /\ Sale(r, to)
<1> USE ControllerConstants
<1>1. ASSUME NEW r \in Registrations, NEW to \in {r.owner, CONTROLLER}, Sale(r, to)
      PROVE  r.id = id
  BY <1>1, SaleFacts DEF ControllerInv, Sold
<1>2. ASSUME NEW r \in Registrations, Commit(r) PROVE FALSE
  BY <1>2 DEF Commit, registrarVars, tokenVars, Sold
<1>3. CASE RegisterEnd
  BY <1>3 DEF RegisterEnd, Sold
<1>4. ASSUME NEW other \in Names, NEW duration \in Durations, ControllerRenew(other, duration)
      PROVE  FALSE
  <2>1. expiries' = [expiries EXCEPT ![other] = @ + duration]
        /\ expiries[other] + GRACE_PERIOD >= now
    BY <1>4 DEF ControllerRenew, Renew, CanRenew
  <2> QED
    BY <2>1 DEF ControllerInv, RegistrarTypeOK, Sold, Available
<1>5. CASE OtherStep
  BY <1>5, OthersDoNot DEF Sold
<1> QED
  BY <1>1, <1>2, <1>3, <1>4, <1>5, ControllerSteps

\* A name is only ever sold on a commitment by the buyer that is neither too young
\* nor too old, and the sale spends it (commit, register).
THEOREM SalesAreCommitted == ControllerSpec => SoldAsCommitted
<1>1. ASSUME ControllerInv, [ControllerNext]_controllerStateVars
      PROVE  [\A id \in Names : Sold(id) =>
                \E r \in Registrations :
                   /\ r.id = id
                   /\ commitments[r] > 0 /\ commitments'[r] = 0
                   /\ now - commitments[r] \in MinCommitmentAge .. (MaxCommitmentAge - 1)
                   /\ expiries'[id] = now + r.duration
                   /\ records'[id].owner = r.owner
                   /\ tokenOwner'[id] \in {r.owner, CONTROLLER}]_controllerStateVars
  <2> USE ControllerConstants
  <2> SUFFICES ASSUME ControllerNext, NEW id \in Names, Sold(id)
               PROVE  \E r \in Registrations :
                         /\ r.id = id
                         /\ commitments[r] > 0 /\ commitments'[r] = 0
                         /\ now - commitments[r] \in MinCommitmentAge .. (MaxCommitmentAge - 1)
                         /\ expiries'[id] = now + r.duration
                         /\ records'[id].owner = r.owner
                         /\ tokenOwner'[id] \in {r.owner, CONTROLLER}
    BY <1>1
  <2>1. PICK r \in Registrations, to \in Addresses :
          r.id = id /\ to \in {r.owner, CONTROLLER} /\ Sale(r, to)
    BY <1>1, SoldBySale
  <2>2. /\ commitments[r] > 0 /\ commitments'[r] = 0
        /\ commitments[r] + MinCommitmentAge <= now
        /\ commitments[r] + MaxCommitmentAge > now
        /\ expiries'[id] = now + r.duration /\ records'[id].owner = r.owner
        /\ tokenOwner'[id] \in {r.owner, CONTROLLER}
    BY <1>1, <2>1, SaleFacts DEF ControllerInv
  <2>3. now \in Nat /\ commitments[r] \in Nat
    BY <1>1 DEF ControllerInv, RegistrarTypeOK, ControllerTypeOK
  <2>4. now - commitments[r] \in MinCommitmentAge .. (MaxCommitmentAge - 1)
    BY <2>2, <2>3
  <2> QED
    BY <2>1, <2>2, <2>4
<1> QED
  BY <1>1, ControllerInvariant, PTL DEF SoldAsCommitted, ControllerSpec

\* When commitments do not outlive a grace period (a day against ninety in the
\* deployment), nothing committed before a registration ended buys the name after it.
THEOREM CommitmentsDoNotLast ==
    ASSUME MaxCommitmentAge <= GRACE_PERIOD + 1
    PROVE  ControllerSpec => NoCommitmentFromBefore
<1>1. ASSUME ControllerInv, [ControllerNext]_controllerStateVars
      PROVE  [\A r \in Registrations :
                Sold(r.id) /\ commitments'[r] = 0 /\ commitments[r] > 0
                => commitments[r] > expiries[r.id]]_controllerStateVars
  <2> USE ControllerConstants
  <2> SUFFICES ASSUME ControllerNext, NEW r \in Registrations, Sold(r.id),
                      commitments'[r] = 0, commitments[r] > 0
               PROVE  commitments[r] > expiries[r.id]
    BY <1>1
  <2>1. PICK sold \in Registrations, to \in Addresses : Sale(sold, to)
    BY <1>1, SoldBySale
  <2>2. now \in Nat /\ commitments[r] \in Nat /\ expiries[r.id] \in Nat
    BY <1>1 DEF ControllerInv, RegistrarTypeOK, ControllerTypeOK
  <2>3. sold = r
    BY <1>1, <2>1, <2>2, SaleFacts DEF ControllerInv
  <2>4. commitments[r] + MaxCommitmentAge > now
    BY <1>1, <2>1, <2>3, SaleFacts DEF ControllerInv
  <2> QED
    BY <2>2, <2>4 DEF Sold, Available
<1> QED
  BY <1>1, ControllerInvariant, PTL DEF NoCommitmentFromBefore, ControllerSpec

(***************************************************************************)
(* The market: what a name costs                                           *)
(***************************************************************************)

\* Solidity's division, and TLA+'s.
LEMMA Division ==
    ASSUME NEW a \in Nat, NEW b \in Nat \ {0}
    PROVE  /\ a \div b \in Nat
           /\ b * (a \div b) <= a
           /\ a < b * ((a \div b) + 1)
  OBVIOUS

LEMMA Product ==
    ASSUME NEW a \in Nat, NEW b \in Nat
    PROVE  a * b \in Nat
  OBVIOUS

\* b * q <= a bounds the quotient.
LEMMA QuotientBound ==
    ASSUME NEW a \in Nat, NEW b \in Nat \ {0}, NEW c \in Nat, a <= c * b
    PROVE  a \div b <= c
<1>1. /\ a \div b \in Nat /\ b * (a \div b) <= a
  BY Division
<1>2. b * (a \div b) <= b * c
  BY <1>1
<1> QED
  BY <1>1, <1>2

LEMMA MarketConstants ==
    /\ CONTROLLER \in Addresses \ Senders /\ STATIC_RENEWAL \in Addresses \ Senders
    /\ UNIVERSAL_RENEWAL \in Addresses \ Senders /\ OWNER \in Addresses \ Senders
    /\ CONTROLLER \in InitialControllers /\ WRAPPER \in InitialControllers
    /\ RentPrices \in [Names -> Nat] /\ ORACLE_GRACE_PERIOD = GRACE_PERIOD
    /\ InitialPremium \in Nat /\ PremiumDecreaseRate \in Nat \ {0}
    /\ Answers \subseteq Nat \ {0} /\ AnswerUnit \in Nat \ {0}
    /\ Values \subseteq Nat /\ Purse \in Nat /\ RenewalBatches \subseteq Seq(Names)
    /\ GRACE_PERIOD \in Nat /\ Durations \subseteq Nat
  BY MarketAssumption, ControllerConstants, ControllerAssumption
     DEF MarketAssumption, ControllerAssumption

LEMMA PremiumIs ==
    ASSUME NEW expires \in Nat, NEW time \in Nat
    PROVE  PremiumUSD(expires, time) \in Nat
<1> USE MarketConstants
<1> DEFINE release == expires + ORACLE_GRACE_PERIOD
           discount == PremiumDecreaseRate * (time - release)
<1>1. CASE release > time \/ discount > InitialPremium
  BY <1>1 DEF PremiumUSD
<1>2. CASE ~(release > time) /\ ~(discount > InitialPremium)
  <2>1. time - release \in Nat
    BY <1>2
  <2>2. discount \in Nat
    BY <2>1, Product
  <2> QED
    BY <1>2, <2>2 DEF PremiumUSD
<1> QED
  BY <1>1, <1>2

LEMMA PriceIs ==
    ASSUME NEW name \in Names, NEW expires \in Nat, NEW duration \in Nat, NEW time \in Nat,
           NEW usd \in Nat \ {0}
    PROVE  /\ Price(name, expires, duration, time, usd).base \in Nat
           /\ Price(name, expires, duration, time, usd).premium \in Nat
           /\ time <= expires + GRACE_PERIOD =>
                \/ Price(name, expires, duration, time, usd).premium = 0
                \/ time = expires + GRACE_PERIOD
<1> USE MarketConstants
<1>1. usd \in Nat \ {0} /\ RentPrices[name] \in Nat
  OBVIOUS
<1>2. (RentPrices[name] * duration) * AnswerUnit \in Nat
  BY <1>1, Product
<1>3. Price(name, expires, duration, time, usd).base \in Nat
  BY <1>1, <1>2, Division DEF Price, AttoUSDToWei
<1>4. PremiumUSD(expires, time) \in Nat
  BY PremiumIs
<1>5. PremiumUSD(expires, time) * AnswerUnit \in Nat
  BY <1>4, Product
<1>6. Price(name, expires, duration, time, usd).premium \in Nat
  BY <1>1, <1>5, Division DEF Price, AttoUSDToWei
<1>7. ASSUME time < expires + GRACE_PERIOD
      PROVE  Price(name, expires, duration, time, usd).premium = 0
  <2>1. PremiumUSD(expires, time) = 0
    BY <1>7 DEF PremiumUSD
  <2>2. 0 \div usd = 0
    BY <1>1
  <2> QED
    BY <2>1, <2>2 DEF Price, AttoUSDToWei
<1> QED
  BY <1>3, <1>6, <1>7

\* The premium at the second that timeUntilPremium names, and one later.
LEMMA PremiumFalls ==
    ASSUME NEW expires \in Nat, NEW usd \in Answers,
           NEW amount \in 0 .. AttoUSDToWei(InitialPremium, usd)
    PROVE  LET wanted == WeiToAttoUSD(amount, usd)
               time   == TimeUntilPremium(expires, amount, usd)
           IN  /\ PremiumUSD(expires, time) >= wanted
               /\ PremiumUSD(expires, time + 1) <= wanted
<1> USE MarketConstants
<1> DEFINE wanted == WeiToAttoUSD(amount, usd)
           discount == InitialPremium - wanted
           q == discount \div PremiumDecreaseRate
           release == expires + ORACLE_GRACE_PERIOD
<1>1. usd \in Nat \ {0} /\ AttoUSDToWei(InitialPremium, usd) \in Nat /\ amount \in Nat
  <2>1. InitialPremium * AnswerUnit \in Nat
    BY Product
  <2> QED
    BY <2>1, Division DEF AttoUSDToWei
<1>2. wanted \in 0 .. InitialPremium
  <2>1. amount * usd \in Nat
    BY <1>1, Product
  <2>2. usd * AttoUSDToWei(InitialPremium, usd) <= InitialPremium * AnswerUnit
    <3>1. InitialPremium * AnswerUnit \in Nat
      BY Product
    <3> QED
      BY <1>1, <3>1, Division DEF AttoUSDToWei
  <2>3. amount * usd <= usd * AttoUSDToWei(InitialPremium, usd)
    BY <1>1
  <2>4. amount * usd <= InitialPremium * AnswerUnit
    BY <1>1, <2>1, <2>2, <2>3, Product
  <2> QED
    BY <2>1, <2>4, QuotientBound, Division DEF WeiToAttoUSD
<1>3. /\ discount \in Nat /\ q \in Nat
      /\ PremiumDecreaseRate * q <= discount
      /\ discount < PremiumDecreaseRate * (q + 1)
  <2>1. discount \in Nat
    BY <1>2
  <2> HIDE DEF discount
  <2> QED
    BY <2>1, Division
<1>4. TimeUntilPremium(expires, amount, usd) = release + q
  BY DEF TimeUntilPremium
<1> HIDE DEF q
<1>5. PremiumUSD(expires, release + q) >= wanted
  <2>1. (release + q) - release = q /\ ~(release > release + q)
    BY <1>3
  <2>2. PremiumUSD(expires, release + q) = InitialPremium - (PremiumDecreaseRate * q)
    BY <1>2, <1>3, <2>1 DEF PremiumUSD
  <2> QED
    BY <1>2, <1>3, <2>2
<1>6. PremiumUSD(expires, (release + q) + 1) <= wanted
  <2>1. ((release + q) + 1) - release = q + 1 /\ ~(release > (release + q) + 1)
    BY <1>3
  <2>2. PremiumUSD(expires, (release + q) + 1) =
            IF PremiumDecreaseRate * (q + 1) > InitialPremium THEN 0
            ELSE InitialPremium - (PremiumDecreaseRate * (q + 1))
    BY <2>1 DEF PremiumUSD
  <2> QED
    BY <1>2, <1>3, <2>2
<1> QED
  BY <1>4, <1>5, <1>6

(***************************************************************************)
(* The market: sums over a list of names                                   *)
(***************************************************************************)
Any(s) == CHOOSE x \in s : TRUE

\* h adds the values of f over a subset of 1 .. n.
Adds(h, n, f) ==
    h = [s \in SUBSET (1 .. n) |-> IF s = {} THEN 0 ELSE f[Any(s)] + h[s \ {Any(s)}]]

LEMMA Sized ==
    ASSUME NEW n \in Nat, NEW s \in SUBSET (1 .. n)
    PROVE  /\ Cardinality(s) \in Nat /\ (Cardinality(s) = 0 <=> s = {})
           /\ s # {} => /\ Any(s) \in s /\ Any(s) \in 1 .. n
                        /\ s \ {Any(s)} \in SUBSET (1 .. n)
                        /\ Cardinality(s \ {Any(s)}) = Cardinality(s) - 1
<1>1. IsFiniteSet(s)
  <2>1. IsFiniteSet(1 .. n)
    BY FS_Interval
  <2> QED
    BY <2>1, FS_Subset
<1>2. Cardinality(s) \in Nat /\ (Cardinality(s) = 0 <=> s = {})
  BY <1>1, FS_CardinalityType, FS_EmptySet
<1>3. ASSUME s # {}
      PROVE  Any(s) \in s
  BY <1>3 DEF Any
<1>4. ASSUME s # {}
      PROVE  Cardinality(s \ {Any(s)}) = Cardinality(s) - 1
  BY <1>1, <1>3, <1>4, FS_RemoveElement
<1> QED
  BY <1>2, <1>3, <1>4

Below == {pair \in Nat \X Nat : pair[1] < pair[2]}

LEMMA BelowIsWellFounded == IsWellFoundedOn(Below, Nat)
  BY NatLessThanWellFounded, Zenon DEF OpToRel, Below

\* Induction over the naturals, the predicate being a set.
LEMMA Induction ==
    ASSUME NEW S, 0 \in S, \A n \in Nat : n \in S => (n + 1) \in S
    PROVE  Nat \subseteq S
<1> SUFFICES ASSUME Nat \ S # {} PROVE FALSE
  OBVIOUS
<1>1. PICK m \in Nat \ S : \A k \in Nat \ S : ~ (<<k, m>> \in Below)
  <2>1. Nat \ S \subseteq Nat
    OBVIOUS
  <2> QED
    BY <2>1, BelowIsWellFounded, WFMin, Zenon
<1>2. (m - 1) \in Nat /\ m - 1 < m
  BY <1>1
<1>3. (m - 1) \in S
  BY <1>1, <1>2 DEF Below
<1>4. ((m - 1) + 1) \in S
  BY <1>2, <1>3
<1> QED
  BY <1>1, <1>4

\* Every list of numbers has a sum.
LEMMA SumExists ==
    ASSUME NEW n \in Nat, NEW f \in [1 .. n -> Nat]
    PROVE  \E h \in [SUBSET (1 .. n) -> Nat] : Adds(h, n, f)
<1> DEFINE Upto(m) == {s \in SUBSET (1 .. n) : Cardinality(s) <= m}
           Value(h, s) == IF s = {} THEN 0 ELSE f[Any(s)] + h[s \ {Any(s)}]
           Has(m) == \E h \in [Upto(m) -> Nat] : \A s \in Upto(m) : h[s] = Value(h, s)
           K == {m \in Nat : Has(m)}
<1>0. /\ \A s \in SUBSET (1 .. n) : Cardinality(s) \in Nat
      /\ \A s \in SUBSET (1 .. n) : Cardinality(s) = 0 <=> s = {}
      /\ \A s \in SUBSET (1 .. n) :
            s # {} => /\ Any(s) \in 1 .. n /\ s \ {Any(s)} \in SUBSET (1 .. n)
                      /\ Cardinality(s \ {Any(s)}) = Cardinality(s) - 1
  BY Sized
<1>1. 0 \in K
  <2>1. \A s \in Upto(0) : s = {}
    BY <1>0
  <2>2. Has(0)
    <3> DEFINE h == [s \in Upto(0) |-> 0]
    <3>1. h \in [Upto(0) -> Nat] /\ \A s \in Upto(0) : h[s] = Value(h, s)
      BY <2>1
    <3> HIDE DEF h, Upto, Value
    <3> QED
      BY <3>1
  <2> HIDE DEF Has
  <2> QED
    BY <2>2
<1>2. ASSUME NEW m \in Nat, Has(m) PROVE Has(m + 1)
  <2>1. PICK h \in [Upto(m) -> Nat] : \A s \in Upto(m) : h[s] = Value(h, s)
    <3> HIDE DEF Upto, Value
    <3> QED
      BY <1>2
  <2> DEFINE g == [s \in Upto(m + 1) |-> Value(h, s)]
  <2>2. ASSUME NEW s \in Upto(m + 1), s # {}
        PROVE  /\ s \ {Any(s)} \in Upto(m) /\ s \ {Any(s)} \in Upto(m + 1)
               /\ Any(s) \in 1 .. n
    <3>1. /\ s \in SUBSET (1 .. n) /\ Cardinality(s) <= m + 1 /\ Cardinality(s) \in Nat
          /\ s \ {Any(s)} \in SUBSET (1 .. n) /\ Any(s) \in 1 .. n
          /\ Cardinality(s \ {Any(s)}) = Cardinality(s) - 1
      BY <1>0, <2>2
    <3>2. Cardinality(s \ {Any(s)}) <= m /\ Cardinality(s \ {Any(s)}) <= m + 1
      BY <3>1
    <3> QED
      BY <3>1, <3>2
  <2>3. \A s \in Upto(m) : s \in Upto(m + 1) /\ g[s] = h[s]
    <3>1. \A s \in Upto(m) : s \in Upto(m + 1)
      BY <1>0
    <3> HIDE DEF Value, Upto
    <3> QED
      BY <2>1, <3>1
  <2>4. g \in [Upto(m + 1) -> Nat]
    <3> SUFFICES ASSUME NEW s \in Upto(m + 1) PROVE Value(h, s) \in Nat
      OBVIOUS
    <3>1. CASE s = {}
      BY <3>1
    <3>2. CASE s # {}
      <4>1. f[Any(s)] \in Nat /\ h[s \ {Any(s)}] \in Nat
        BY <2>2, <3>2
      <4> QED
        BY <3>2, <4>1
    <3> QED
      BY <3>1, <3>2
  <2>5. \A s \in Upto(m + 1) : g[s] = Value(g, s)
    <3> SUFFICES ASSUME NEW s \in Upto(m + 1) PROVE g[s] = Value(g, s)
      OBVIOUS
    <3>1. g[s] = Value(h, s)
      OBVIOUS
    <3>2. s # {} => g[s \ {Any(s)}] = h[s \ {Any(s)}]
      <4> HIDE DEF g, Upto
      <4> QED
        BY <2>2, <2>3
    <3> HIDE DEF g, Upto
    <3> QED
      BY <3>1, <3>2
  <2> HIDE DEF g, Upto, Value
  <2> QED
    BY <2>4, <2>5
<1>3. Has(n)
  <2> HIDE DEF Has
  <2>1. \A m \in Nat : m \in K => (m + 1) \in K
    BY <1>2
  <2>2. Nat \subseteq K
    <3> HIDE DEF K
    <3> QED
      BY <1>1, <2>1, Induction
  <2> QED
    BY <2>2
<1>4. Upto(n) = SUBSET (1 .. n)
  <2>1. IsFiniteSet(1 .. n) /\ Cardinality(1 .. n) = n
    BY FS_Interval
  <2> QED
    BY <2>1, FS_Subset
<1>5. PICK h \in [Upto(n) -> Nat] : \A s \in Upto(n) : h[s] = Value(h, s)
  <2> HIDE DEF Upto, Value
  <2> QED
    BY <1>3
<1>6. h \in [SUBSET (1 .. n) -> Nat] /\ h = [s \in SUBSET (1 .. n) |-> Value(h, s)]
  <2> HIDE DEF Upto, Value
  <2> QED
    BY <1>4, <1>5
<1> QED
  BY <1>6 DEF Adds

\* What is larger for each is larger in sum.
LEMMA SumsCompare ==
    ASSUME NEW n \in Nat, NEW f \in [1 .. n -> Nat], NEW g \in [1 .. n -> Nat],
           \A i \in 1 .. n : f[i] <= g[i],
           NEW a, Adds(a, n, f), NEW b, Adds(b, n, g)
    PROVE  /\ a[1 .. n] \in Nat /\ b[1 .. n] \in Nat /\ a[1 .. n] <= b[1 .. n]
<1> DEFINE Fine(s) == a[s] \in Nat /\ b[s] \in Nat /\ a[s] <= b[s]
           K == {m \in Nat : \A s \in SUBSET (1 .. n) : Cardinality(s) = m => Fine(s)}
<1>0. /\ \A s \in SUBSET (1 .. n) : Cardinality(s) \in Nat
      /\ \A s \in SUBSET (1 .. n) : Cardinality(s) = 0 <=> s = {}
      /\ \A s \in SUBSET (1 .. n) :
            s # {} => /\ Any(s) \in 1 .. n /\ s \ {Any(s)} \in SUBSET (1 .. n)
                      /\ Cardinality(s \ {Any(s)}) = Cardinality(s) - 1
  BY Sized
<1>1. 0 \in K
  <2>1. a[{}] = 0 /\ b[{}] = 0
    BY DEF Adds
  <2>2. Fine({})
    BY <2>1
  <2> HIDE DEF Fine
  <2> QED
    BY <1>0, <2>2
<1>2. ASSUME NEW m \in Nat, m \in K,
             NEW s \in SUBSET (1 .. n), Cardinality(s) = m + 1
      PROVE  Fine(s)
  <2>0. s # {}
    <3> HIDE DEF K, Fine
    <3> QED
      BY <1>0, <1>2
  <2>1. Any(s) \in 1 .. n /\ s \ {Any(s)} \in SUBSET (1 .. n)
        /\ Cardinality(s \ {Any(s)}) = m
    <3> HIDE DEF K, Fine
    <3>1. Any(s) \in 1 .. n /\ s \ {Any(s)} \in SUBSET (1 .. n)
      BY <1>0, <2>0
    <3>2. Cardinality(s \ {Any(s)}) = Cardinality(s) - 1
      BY <1>0, <2>0
    <3>3. Cardinality(s) = m + 1 /\ (m + 1) - 1 = m
      BY <1>2
    <3> QED
      BY <3>1, <3>2, <3>3
  <2>2. Fine(s \ {Any(s)})
    <3> HIDE DEF Fine
    <3> QED
      BY <1>2, <2>1
  <2>3. a[s] = f[Any(s)] + a[s \ {Any(s)}] /\ b[s] = g[Any(s)] + b[s \ {Any(s)}]
    BY <2>0 DEF Adds
  <2>4. f[Any(s)] \in Nat /\ g[Any(s)] \in Nat /\ f[Any(s)] <= g[Any(s)]
    BY <2>1
  <2> QED
    BY <2>2, <2>3, <2>4
<1>3. Nat \subseteq K
  <2>1. ASSUME NEW m \in Nat, m \in K PROVE (m + 1) \in K
    <3>1. \A s \in SUBSET (1 .. n) : Cardinality(s) = m + 1 => Fine(s)
      <4> HIDE DEF K, Fine
      <4> QED
        BY <1>2, <2>1
    <3> HIDE DEF Fine
    <3> QED
      BY <3>1
  <2> HIDE DEF K
  <2> QED
    BY <1>1, <2>1, Induction
<1>4. Cardinality(1 .. n) \in Nat /\ 1 .. n \in SUBSET (1 .. n)
  BY Sized
<1> QED
  BY <1>3, <1>4

\* What a list costs: the base prices, and the quote, which counts premiums.
LEMMA QuoteCoversBase ==
    ASSUME now \in Nat, expiries \in [Names -> Nat], answer \in Answers,
           NEW batch \in RenewalBatches, NEW duration \in Durations
    PROVE  /\ BaseOfAll(batch, duration) \in Nat
           /\ RentPriceOfAll(batch, duration) \in Nat
           /\ RentPriceOfAll(batch, duration) >= BaseOfAll(batch, duration)
<1> USE MarketConstants
<1> DEFINE n == Len(batch)
           f == [i \in 1 .. n |-> PriceOf(batch[i], duration).base]
           g == [i \in 1 .. n |-> PriceOf(batch[i], duration).base
                                  + PriceOf(batch[i], duration).premium]
           a == CHOOSE a : a = [s \in SUBSET (1 .. n) |->
                   IF s = {} THEN 0
                   ELSE PriceOf(batch[Any(s)], duration).base + a[s \ {Any(s)}]]
           b == CHOOSE b : b = [s \in SUBSET (1 .. n) |->
                   IF s = {} THEN 0
                   ELSE (PriceOf(batch[Any(s)], duration).base
                         + PriceOf(batch[Any(s)], duration).premium) + b[s \ {Any(s)}]]
<1>1. n \in Nat /\ DOMAIN batch = 1 .. n /\ \A i \in 1 .. n : batch[i] \in Names
  BY LenProperties, ElementOfSeq
<1>2. BaseOfAll(batch, duration) = a[1 .. n]
  BY <1>1 DEF BaseOfAll, MapThenSumSet, MapThenFoldSet, Any
<1>3. RentPriceOfAll(batch, duration) = b[1 .. n]
  BY <1>1 DEF RentPriceOfAll, MapThenSumSet, MapThenFoldSet, Any
<1>4. \A i \in 1 .. n : /\ PriceOf(batch[i], duration).base \in Nat
                        /\ PriceOf(batch[i], duration).premium \in Nat
  BY <1>1, PriceIs DEF PriceOf
<1>5. f \in [1 .. n -> Nat] /\ g \in [1 .. n -> Nat] /\ \A i \in 1 .. n : f[i] <= g[i]
  BY <1>4
<1>6. \A s \in SUBSET (1 .. n) : s # {} => Any(s) \in 1 .. n
  BY DEF Any
<1>7. Adds(a, n, f)
  <2>1. PICK h : Adds(h, n, f)
    <3> HIDE DEF f, n
    <3> QED
      BY <1>1, <1>5, SumExists
  <2>2. h = [s \in SUBSET (1 .. n) |->
               IF s = {} THEN 0
               ELSE PriceOf(batch[Any(s)], duration).base + h[s \ {Any(s)}]]
    BY <1>6, <2>1 DEF Adds
  <2>3. a = [s \in SUBSET (1 .. n) |->
               IF s = {} THEN 0
               ELSE PriceOf(batch[Any(s)], duration).base + a[s \ {Any(s)}]]
    <3> HIDE DEF n
    <3> QED
      BY <2>2
  <2> HIDE DEF a
  <2> QED
    BY <1>6, <2>3 DEF Adds
<1>8. Adds(b, n, g)
  <2>1. PICK h : Adds(h, n, g)
    <3> HIDE DEF g, n
    <3> QED
      BY <1>1, <1>5, SumExists
  <2>2. h = [s \in SUBSET (1 .. n) |->
               IF s = {} THEN 0
               ELSE (PriceOf(batch[Any(s)], duration).base
                     + PriceOf(batch[Any(s)], duration).premium) + h[s \ {Any(s)}]]
    BY <1>6, <2>1 DEF Adds
  <2>3. b = [s \in SUBSET (1 .. n) |->
               IF s = {} THEN 0
               ELSE (PriceOf(batch[Any(s)], duration).base
                     + PriceOf(batch[Any(s)], duration).premium) + b[s \ {Any(s)}]]
    <3> HIDE DEF n
    <3> QED
      BY <2>2
  <2> HIDE DEF b
  <2> QED
    BY <1>6, <2>3 DEF Adds
<1>9. a[1 .. n] \in Nat /\ b[1 .. n] \in Nat /\ a[1 .. n] <= b[1 .. n]
  <2> HIDE DEF a, b, f, g, n
  <2> QED
    BY <1>1, <1>5, <1>7, <1>8, SumsCompare
<1> HIDE DEF a, b
<1> QED
  BY <1>2, <1>3, <1>9

(***************************************************************************)
(* The market: what its steps keep                                         *)
(***************************************************************************)
MarketInv ==
    /\ now \in Nat /\ expiries \in [Names -> Nat]
    /\ controllers = InitialControllers
    /\ answer \in Answers
    /\ balances \in [Payers -> Nat]

LEMMA PayKeepsBalances ==
    ASSUME balances \in [Payers -> Nat], NEW sender \in Senders, NEW payee \in Payers \ Senders,
           NEW value, NEW due \in Nat, Pay(sender, payee, value, due)
    PROVE  balances' \in [Payers -> Nat]
<1>1. sender \in Payers /\ sender # payee
  BY DEF Payers
<1>2. balances[sender] - due \in Nat
  BY <1>1 DEF Pay
<1>3. balances[payee] + due \in Nat
  OBVIOUS
<1>4. balances' = [balances EXCEPT ![sender] = balances[sender] - due,
                                   ![payee] = balances[payee] + due]
  BY <1>1 DEF Pay
<1> QED
  BY <1>1, <1>2, <1>3, <1>4

LEMMA ExtendAllKeeps ==
    ASSUME now \in Nat, expiries \in [Names -> Nat], NEW batch \in RenewalBatches,
           NEW duration \in Durations, ExtendAll(batch, duration)
    PROVE  /\ now' = now /\ controllers' = controllers /\ expiries' \in [Names -> Nat]
<1> USE MarketConstants
<1>1. Len(batch) \in Nat /\ DOMAIN batch = 1 .. Len(batch)
  BY LenProperties
<1>2. \A id \in Names : Times(batch, id) \in Nat
  <2> SUFFICES ASSUME NEW id \in Names PROVE Times(batch, id) \in Nat
    OBVIOUS
  <2>1. {i \in DOMAIN batch : batch[i] = id} \in SUBSET (1 .. Len(batch))
    BY <1>1
  <2> QED
    BY <1>1, <2>1, Sized DEF Times
<1>3. \A id \in Names : expiries[id] + (duration * Times(batch, id)) \in Nat
  <2> SUFFICES ASSUME NEW id \in Names
               PROVE  expiries[id] + (duration * Times(batch, id)) \in Nat
    OBVIOUS
  <2>1. expiries[id] \in Nat /\ duration \in Nat /\ Times(batch, id) \in Nat
    BY <1>2
  <2>2. duration * Times(batch, id) \in Nat
    BY <2>1, Product
  <2> QED
    BY <2>1, <2>2
<1> QED
  BY <1>3 DEF ExtendAll

LEMMA MarketInvInit ==
    ASSUME MarketStart
    PROVE  MarketInv
<1> USE MarketConstants, ControllerConstants
<1>1. now \in Nat /\ expiries \in [Names -> Nat] /\ controllers = InitialControllers
  BY DEF MarketStart, ControllerStart, RegistrarStart, RegistrarInit
<1> QED
  BY <1>1 DEF MarketStart, MarketInit, MarketInv

LEMMA MarketInvStep ==
    ASSUME MarketInv, [MarketNext]_marketStateVars
    PROVE  MarketInv'
<1> USE MarketConstants, ControllerConstants
<1>0. /\ CONTROLLER \in Payers \ Senders /\ UNIVERSAL_RENEWAL \in Payers \ Senders
      /\ STATIC_RENEWAL \in Payers \ Senders /\ OWNER \in Payers \ Senders
      /\ Senders \subseteq Payers
  BY DEF Payers
<1>1. ASSUME SaleStep PROVE MarketInv'
  <2>1. PICK sender \in Senders, r \in Registrations, value \in Values : Buy(sender, r, value)
    BY <1>1 DEF SaleStep
  <2>2. /\ answer' = answer /\ now' = now /\ controllers' = controllers
        /\ expiries' = [expiries EXCEPT ![r.id] = now + r.duration]
    BY <2>1 DEF Buy, RegisterPlain, Consume
  <2>3. /\ PriceOf(r.id, r.duration).base \in Nat /\ PriceOf(r.id, r.duration).premium \in Nat
    BY PriceIs DEF PriceOf, MarketInv
  <2>4. balances' \in [Payers -> Nat]
    BY <1>0, <2>1, <2>3, PayKeepsBalances DEF Buy, MarketInv
  <2> QED
    BY <2>2, <2>4 DEF MarketInv
<1>2. ASSUME RenewalStep PROVE MarketInv'
  <2>1. PICK sender \in Senders, value \in Values, duration \in Durations :
          \/ \E id \in Names : PaidRenew(sender, id, duration, value)
          \/ \E batch \in RenewalBatches :
              \/ UniversalRenewAll(sender, batch, duration, value)
              \/ StaticRenewAll(sender, batch, duration, value)
    BY <1>2 DEF RenewalStep
  <2>2. ASSUME NEW id \in Names, PaidRenew(sender, id, duration, value) PROVE MarketInv'
    <3>1. /\ answer' = answer /\ now' = now /\ controllers' = controllers
          /\ expiries' = [expiries EXCEPT ![id] = expiries[id] + duration]
      BY <2>2 DEF PaidRenew, ControllerRenew, Renew, MarketInv
    <3>2. PriceOf(id, duration).base \in Nat
      BY PriceIs DEF PriceOf, MarketInv
    <3>3. balances' \in [Payers -> Nat]
      BY <1>0, <2>2, <3>2, PayKeepsBalances DEF PaidRenew, MarketInv
    <3>4. expiries[id] + duration \in Nat
      BY DEF MarketInv
    <3> QED
      BY <3>1, <3>3, <3>4 DEF MarketInv
  <2>3. ASSUME NEW batch \in RenewalBatches, UniversalRenewAll(sender, batch, duration, value)
        PROVE  MarketInv'
    <3>1. now' = now /\ controllers' = controllers /\ expiries' \in [Names -> Nat]
      BY <2>3, ExtendAllKeeps DEF UniversalRenewAll, MarketInv
    <3>2. BaseOfAll(batch, duration) \in Nat
      BY QuoteCoversBase DEF MarketInv
    <3>3. balances' \in [Payers -> Nat]
      BY <1>0, <2>3, <3>2, PayKeepsBalances DEF UniversalRenewAll, MarketInv
    <3> QED
      BY <2>3, <3>1, <3>3 DEF MarketInv, UniversalRenewAll
  <2>4. ASSUME NEW batch \in RenewalBatches, StaticRenewAll(sender, batch, duration, value)
        PROVE  MarketInv'
    <3> DEFINE due == BaseOfAll(batch, duration)
    <3>1. now' = now /\ controllers' = controllers /\ expiries' \in [Names -> Nat]
      BY <2>4, ExtendAllKeeps DEF StaticRenewAll, MarketInv
    <3>2. due \in Nat
      BY QuoteCoversBase DEF MarketInv
    <3>3. /\ value \in 0 .. balances[sender] /\ value + balances[STATIC_RENEWAL] >= due
          /\ balances' = [balances EXCEPT ![sender] = @ + balances[STATIC_RENEWAL] - due,
                                          ![CONTROLLER] = @ + due, ![STATIC_RENEWAL] = 0]
      BY <2>4 DEF StaticRenewAll, StaticAccepts
    <3>4. \A p \in Payers : balances[p] \in Nat
      BY DEF MarketInv
    <3>5. (balances[sender] + balances[STATIC_RENEWAL]) - due \in Nat
      <4>1. sender \in Payers
        BY <1>0
      <4> HIDE DEF due
      <4> QED
        BY <1>0, <3>2, <3>3, <3>4, <4>1
    <3>6. balances' \in [Payers -> Nat]
      <4> SUFFICES ASSUME NEW p \in Payers PROVE balances'[p] \in Nat
        BY <3>3 DEF MarketInv
      <4> HIDE DEF due
      <4>1. CASE p = STATIC_RENEWAL
        BY <1>0, <3>3, <4>1 DEF MarketInv
      <4>2. CASE p # STATIC_RENEWAL /\ p = CONTROLLER
        <5>1. balances'[p] = balances[CONTROLLER] + due
          BY <1>0, <3>3, <4>2 DEF MarketInv
        <5> QED
          BY <1>0, <3>2, <3>4, <5>1
      <4>3. CASE p # STATIC_RENEWAL /\ p # CONTROLLER /\ p = sender
        <5>1. balances'[p] = (balances[sender] + balances[STATIC_RENEWAL]) - due
          <6>1. balances'[p] = balances[sender] + (balances[STATIC_RENEWAL] - due)
            BY <1>0, <3>3, <4>3 DEF MarketInv
          <6> QED
            BY <1>0, <3>2, <3>4, <6>1
        <5> QED
          BY <3>5, <5>1
      <4>4. CASE p \notin {STATIC_RENEWAL, CONTROLLER, sender}
        <5>1. balances'[p] = balances[p]
          BY <1>0, <3>3, <4>4 DEF MarketInv
        <5> QED
          BY <3>4, <5>1
      <4> QED
        BY <4>1, <4>2, <4>3, <4>4
    <3> QED
      BY <2>4, <3>1, <3>6 DEF MarketInv, StaticRenewAll
  <2> QED
    BY <2>1, <2>2, <2>3, <2>4
<1>3. ASSUME NEW value \in Answers, SetAnswer(value) PROVE MarketInv'
  BY <1>3 DEF SetAnswer, registrarVars, tokenVars, MarketInv
<1>4. ASSUME NEW contract \in {CONTROLLER, UNIVERSAL_RENEWAL}, Withdraw(contract)
      PROVE  MarketInv'
  <2>1. \A p \in Payers : balances[p] \in Nat
    BY DEF MarketInv
  <2>2. balances' = [balances EXCEPT ![contract] = 0, ![OWNER] = @ + balances[contract]]
    BY <1>4 DEF Withdraw
  <2>3. balances' \in [Payers -> Nat]
    <3> SUFFICES ASSUME NEW p \in Payers PROVE balances'[p] \in Nat
      BY <2>2 DEF MarketInv
    <3>1. balances'[p] \in {balances[p], 0, balances[OWNER] + balances[contract],
                            0 + balances[contract]}
      BY <1>0, <2>2 DEF MarketInv
    <3> QED
      BY <1>0, <2>1, <3>1
  <2> QED
    BY <1>4, <2>3 DEF Withdraw, registrarVars, tokenVars, MarketInv
<1>5. ASSUME NEW r \in Registrations, Commit(r), UNCHANGED marketVars PROVE MarketInv'
  BY <1>5 DEF Commit, registrarVars, tokenVars, marketVars, MarketInv
<1>6. ASSUME Tick, UNCHANGED marketVars PROVE MarketInv'
  BY <1>6 DEF Tick, tokenVars, marketVars, MarketInv
<1>7. ASSUME UNCHANGED marketStateVars PROVE MarketInv'
  BY <1>7 DEF marketStateVars, controllerStateVars, registrarStateVars, registrarVars,
              tokenVars, marketVars, MarketInv
<1> QED
  BY <1>1, <1>2, <1>3, <1>4, <1>5, <1>6, <1>7 DEF MarketNext

\* Nobody pays with money they do not have: no balance falls below zero, through
\* whichever contract names are renewed and whatever it held before.
THEOREM MarketInvariant == MarketSpec => []MarketInv
<1>1. MarketStart => MarketInv
  BY MarketInvInit
<1>2. MarketInv /\ [MarketNext]_marketStateVars => MarketInv'
  BY MarketInvStep
<1> QED
  BY <1>1, <1>2, PTL DEF MarketSpec

\* The inverse of the premium is right to the second, for every initial premium,
\* rate and answer of the USD oracle.
THEOREM PremiumIsInverted == MarketSpec => []PremiumFallsAsPromised
<1>1. MarketInv => PremiumFallsAsPromised
  BY PremiumFalls DEF MarketInv, PremiumFallsAsPromised
<1> QED
  BY <1>1, MarketInvariant, PTL

\* A quote is enough for lists of any length, with any names more than once.
THEOREM QuotesAreEnough == MarketSpec => []QuotesSuffice
<1>1. ASSUME MarketInv, NEW batch \in RenewalBatches, NEW duration \in Durations,
             \A i \in DOMAIN batch :
                CanRenew(CONTROLLER, batch[i], duration * Times(batch, batch[i]))
      PROVE  /\ UniversalAccepts(batch, duration, RentPriceOfAll(batch, duration))
             /\ \/ StaticAccepts(batch, duration, RentPriceOfAll(batch, duration))
                \/ \E i \in DOMAIN batch : expiries[batch[i]] + GRACE_PERIOD = now
  <2> USE MarketConstants
  <2>1. DOMAIN batch = 1 .. Len(batch) /\ \A i \in DOMAIN batch : batch[i] \in Names
    BY LenProperties, ElementOfSeq
  <2>2. /\ BaseOfAll(batch, duration) \in Nat
        /\ RentPriceOfAll(batch, duration) \in Nat
        /\ RentPriceOfAll(batch, duration) >= BaseOfAll(batch, duration)
    BY <1>1, QuoteCoversBase DEF MarketInv
  <2>3. AllRenewable(WRAPPER, batch, duration) /\ AllRenewable(CONTROLLER, batch, duration)
    BY <1>1 DEF AllRenewable, CanRenew, MarketInv
  <2>4. ASSUME ~ \E i \in DOMAIN batch : expiries[batch[i]] + GRACE_PERIOD = now
        PROVE  \A i \in DOMAIN batch : PriceOf(batch[i], duration).premium = 0
    <3> SUFFICES ASSUME NEW i \in DOMAIN batch PROVE PriceOf(batch[i], duration).premium = 0
      OBVIOUS
    <3>1. expiries[batch[i]] \in Nat /\ now \in Nat /\ now <= expiries[batch[i]] + GRACE_PERIOD
          /\ now # expiries[batch[i]] + GRACE_PERIOD
      BY <1>1, <2>1, <2>4 DEF MarketInv, CanRenew
    <3> QED
      BY <1>1, <2>1, <3>1, PriceIs DEF MarketInv, PriceOf
  <2>5. balances[STATIC_RENEWAL] \in Nat
    BY <1>1 DEF MarketInv, Payers
  <2> QED
    BY <2>2, <2>3, <2>4, <2>5 DEF UniversalAccepts, StaticAccepts
<1>2. MarketInv => QuotesSuffice
  BY <1>1 DEF QuotesSuffice
<1> QED
  BY <1>2, MarketInvariant, PTL

(***************************************************************************)
(* The verification script on such a market.  What the drill puts in the    *)
(* oracle it takes out again before it is over; then only owners set it.    *)
(***************************************************************************)
WellFormed(r) ==
    r = [pc |-> r.pc, count |-> r.count, failed |-> r.failed, disturbed |-> r.disturbed,
         total |-> r.total, balance |-> r.balance, expiry |-> r.expiry, before |-> r.before,
         base |-> r.base]

DrillOver == {"restored", "withdraw", "withdrawn", "ended"}

DrillInv == WellFormed(run) /\ DrillIsUndone

\* Trading and withdrawing leave the oracle alone.
LEMMA TradeAndTheOracle ==
    ASSUME NEW sender, NEW r, NEW id, NEW duration, NEW value, NEW contract,
           \/ Buy(sender, r, value)
           \/ PaidRenew(sender, id, duration, value)
           \/ Withdraw(contract)
           \/ Commit(r) /\ UNCHANGED marketVars
           \/ Tick /\ UNCHANGED <<controllerVars, marketVars, verificationVars>>
    PROVE  answer' = answer
BY DEF Buy, PaidRenew, Withdraw, marketVars

LEMMA DrillStart == VerificationInit => DrillInv
BY DEF VerificationInit, DrillInv, DrillIsUndone, WellFormed, Process

LEMMA DrillStep == DrillInv /\ [VerificationNext]_verificationStateVars => DrillInv'
<1> SUFFICES ASSUME DrillInv, [VerificationNext]_verificationStateVars PROVE DrillInv'
  OBVIOUS
<1>0. /\ WellFormed(run)
      /\ run.pc \in DrillOver /\ run.before \in Answers => answer \in Answers
  BY DEF DrillInv, DrillIsUndone, DrillOver
<1>1. CASE Start
  <2>1. PICK id, failed : run' = [Process("price", run.count + 1) EXCEPT !.failed = failed]
    BY <1>1 DEF Start
  <2>2. WellFormed(run') /\ run'.pc = "price"
    BY <2>1 DEF WellFormed, Process
  <2> QED
    BY <2>2 DEF DrillInv, DrillIsUndone, WellFormed
<1>2. ASSUME ScriptStep PROVE DrillInv'
  <2>1. CASE ReadPrice \/ RegisterLabel \/ CheckRegistered \/ ClearReverse \/ ReadExpiry
             \/ RenewLabel \/ CheckRenewed \/ ReadOracle \/ DoubleAnswer \/ CheckHalved
    <3>1. WellFormed(run')
      BY <1>0, <2>1 DEF ReadPrice, RegisterLabel, CheckRegistered, ClearReverse, ReadExpiry,
            RenewLabel, CheckRenewed, ReadOracle, DoubleAnswer, CheckHalved, Check, Goto,
            WellFormed
    <3>2. run'.pc \in {"register", "registered", "clear", "expiry", "renew", "renewed",
                       "drill", "double", "halved", "restore"}
      BY <1>0, <2>1 DEF ReadPrice, RegisterLabel, CheckRegistered, ClearReverse, ReadExpiry,
            RenewLabel, CheckRenewed, ReadOracle, DoubleAnswer, CheckHalved, Check, Goto,
            WellFormed
    <3> QED
      BY <3>1, <3>2 DEF DrillInv, DrillIsUndone, WellFormed
  <2>2. CASE RestoreAnswer
    <3>1. run' = [run EXCEPT !.pc = "restored"] /\ answer' = run.before
      BY <2>2 DEF RestoreAnswer, SetAnswer, Goto
    <3>2. WellFormed(run') /\ run'.before = run.before
      BY <1>0, <3>1 DEF WellFormed
    <3> QED
      BY <3>1, <3>2 DEF DrillInv, DrillIsUndone, WellFormed
  <2>3. CASE CheckRestored \/ WithdrawFees \/ CheckWithdrawn
    <3>1. answer' = answer /\ run.pc \in DrillOver
      BY <2>3 DEF CheckRestored, WithdrawFees, CheckWithdrawn, chainVars, marketStateVars,
            marketVars, Withdraw, DrillOver
    <3>2. WellFormed(run') /\ run'.before = run.before
      BY <1>0, <2>3 DEF CheckRestored, WithdrawFees, CheckWithdrawn, Check, Goto, WellFormed
    <3> QED
      BY <1>0, <3>1, <3>2 DEF DrillInv, DrillIsUndone, WellFormed
  <2>4. CASE Throw
    <3>1. run' = Process("threw", run.count)
      BY <2>4 DEF Throw
    <3> QED
      BY <3>1 DEF DrillInv, DrillIsUndone, WellFormed, Process
  <2> QED
    BY <1>2, <2>1, <2>2, <2>3, <2>4 DEF ScriptStep
<1>3. CASE Killed
  BY <1>3 DEF Killed, DrillInv, DrillIsUndone, WellFormed, Process
<1>4. CASE Others
  <2>1. WellFormed(run') /\ run'.pc = run.pc /\ run'.before = run.before
    BY <1>0, <1>4 DEF Others, WellFormed
  <2>2. answer' = answer \/ answer' \in Answers
    <3>1. CASE \E value \in Answers : SetAnswer(value)
      BY <3>1 DEF SetAnswer
    <3>2. CASE ~ \E value \in Answers : SetAnswer(value)
      BY <1>4, <3>2, TradeAndTheOracle DEF Others
    <3> QED
      BY <3>1, <3>2
  <2> QED
    BY <1>0, <2>1, <2>2 DEF DrillInv, DrillIsUndone, DrillOver, WellFormed
<1>5. CASE TimePasses \/ UNCHANGED verificationStateVars
  <2>1. run' = run /\ answer' = answer
    BY <1>5 DEF TimePasses, verificationStateVars, verificationVars, marketStateVars, marketVars
  <2> QED
    BY <2>1 DEF DrillInv, DrillIsUndone, WellFormed
<1> QED
  BY <1>1, <1>2, <1>3, <1>4, <1>5 DEF VerificationNext

\* The oracle drill is undone, for any number of runs, wherever they are cut and
\* whatever the others do meanwhile.
THEOREM DrillsAreUndone == VerificationSpec => []DrillIsUndone
<1>1. MarketStart /\ VerificationInit => DrillInv
  BY DrillStart
<1>2. DrillInv /\ [VerificationNext]_verificationStateVars => DrillInv'
  BY DrillStep
<1>3. DrillInv => DrillIsUndone
  BY DEF DrillInv
<1> QED
  BY <1>1, <1>2, <1>3, PTL DEF VerificationSpec

(***************************************************************************)
(* The checks of the script.  The answers the oracle may have when so many  *)
(* runs have begun are a family R of sets: an owner's, and the double of    *)
(* what an earlier run may have left.                                      *)
(***************************************************************************)
LabelPrice(id, usd) == AttoUSDToWei(RentPrices[id] * MIN_REGISTRATION_DURATION, usd)

LEMMA QuotientsCompare ==
    ASSUME NEW a \in Nat, NEW b \in Nat, a <= b, NEW c \in Nat \ {0}
    PROVE  a \div c <= b \div c
<1>1. /\ a \div c \in Nat /\ c * (a \div c) <= a
      /\ b \div c \in Nat /\ b < c * ((b \div c) + 1)
  BY Division
<1>2. c * (a \div c) < c * ((b \div c) + 1)
  BY <1>1
<1>3. ASSUME (b \div c) + 1 <= a \div c PROVE FALSE
  <2>1. c * ((b \div c) + 1) <= c * (a \div c)
    BY <1>1, <1>3
  <2> QED
    BY <1>1, <1>2, <2>1
<1> QED
  BY <1>1, <1>3

LEMMA ProductsCompare ==
    ASSUME NEW a \in Nat, NEW b \in Nat, a <= b, NEW c \in Nat
    PROVE  a * c <= b * c
  OBVIOUS

\* What a script is prepared to pay: more than the price.
LEMMA MarginIsMore ==
    ASSUME NEW total \in Nat, total >= 100
    PROVE  (total * 102) \div 100 > total
  OBVIOUS

\* Half of a price is within the window.
LEMMA HalfIsInWindow ==
    ASSUME NEW x \in Nat, NEW usd \in Nat \ {0}, x \div usd >= 100
    PROVE  /\ x \div (2 * usd) > ((x \div usd) * 49) \div 100
           /\ x \div (2 * usd) < ((x \div usd) * 51) \div 100
<1> DEFINE q == x \div usd
           h == x \div (2 * usd)
<1>1. q \in Nat /\ usd * q <= x /\ x < usd * (q + 1)
  BY Division
<1>2. 2 * usd \in Nat \ {0}
  OBVIOUS
<1>3. h \in Nat /\ (2 * usd) * h <= x /\ x < (2 * usd) * (h + 1)
  BY <1>2, Division
<1>4. usd * (2 * h) < usd * (q + 1) /\ usd * q < usd * ((2 * h) + 2)
  BY <1>1, <1>3
<1> HIDE DEF q, h
<1>5. (2 * h) < q + 1
  <2> SUFFICES ASSUME q + 1 <= 2 * h PROVE FALSE
    BY <1>1, <1>3
  <2>1. usd * (q + 1) <= usd * (2 * h)
    BY <1>1, <1>3
  <2> QED
    BY <1>1, <1>3, <1>4, <2>1
<1>6. q < (2 * h) + 2
  <2> SUFFICES ASSUME (2 * h) + 2 <= q PROVE FALSE
    BY <1>1, <1>3
  <2>1. usd * ((2 * h) + 2) <= usd * q
    BY <1>1, <1>3
  <2> QED
    BY <1>1, <1>3, <1>4, <2>1
<1>7. q >= 100
  BY DEF q
<1>8. h > (q * 49) \div 100 /\ h < (q * 51) \div 100
  BY <1>1, <1>3, <1>5, <1>6, <1>7
<1> QED
  BY <1>8 DEF q, h

\* A price in wei and its parts, and that a premium falls with time.
LEMMA LabelPriceIs ==
    ASSUME NEW id \in Names, NEW usd \in Nat \ {0}, MIN_REGISTRATION_DURATION \in Nat,
           NEW expires \in Nat, NEW time \in Nat
    PROVE  /\ LabelPrice(id, usd) \in Nat
           /\ LabelPrice(id, usd)
                = ((RentPrices[id] * MIN_REGISTRATION_DURATION) * AnswerUnit) \div usd
           /\ (RentPrices[id] * MIN_REGISTRATION_DURATION) * AnswerUnit \in Nat
           /\ Price(id, expires, MIN_REGISTRATION_DURATION, time, usd).base = LabelPrice(id, usd)
           /\ Price(id, expires, MIN_REGISTRATION_DURATION, time, usd).premium
                = AttoUSDToWei(PremiumUSD(expires, time), usd)
           /\ AttoUSDToWei(PremiumUSD(expires, time), usd) \in Nat
<1> USE MarketConstants
<1>1. RentPrices[id] * MIN_REGISTRATION_DURATION \in Nat
  BY Product
<1>2. (RentPrices[id] * MIN_REGISTRATION_DURATION) * AnswerUnit \in Nat
  BY <1>1, Product
<1>3. PremiumUSD(expires, time) * AnswerUnit \in Nat
  BY PremiumIs, Product
<1> QED
  BY <1>2, <1>3, Division DEF LabelPrice, Price, AttoUSDToWei

LEMMA PremiumFallsWithTime ==
    ASSUME NEW usd \in Nat \ {0}, NEW time \in Nat, GRACE_PERIOD <= time
    PROVE  AttoUSDToWei(PremiumUSD(0, time + 1), usd) <= AttoUSDToWei(PremiumUSD(0, time), usd)
<1> USE MarketConstants
<1> DEFINE early == time - GRACE_PERIOD
<1>1. early \in Nat /\ early + 1 = (time + 1) - GRACE_PERIOD
  OBVIOUS
<1>2. /\ PremiumDecreaseRate * early \in Nat
      /\ PremiumDecreaseRate * (early + 1) = (PremiumDecreaseRate * early) + PremiumDecreaseRate
  BY <1>1
<1>3. PremiumUSD(0, time + 1) <= PremiumUSD(0, time)
  <2> DEFINE d == PremiumDecreaseRate * early
             e == PremiumDecreaseRate * (early + 1)
  <2>1. PremiumUSD(0, time) = IF d > InitialPremium THEN 0 ELSE InitialPremium - d
    BY <1>1 DEF PremiumUSD
  <2>2. PremiumUSD(0, time + 1) = IF e > InitialPremium THEN 0 ELSE InitialPremium - e
    BY <1>1 DEF PremiumUSD
  <2>3. d \in Nat /\ e = d + PremiumDecreaseRate
    BY <1>2
  <2> HIDE DEF d, e
  <2> QED
    BY <2>1, <2>2, <2>3
<1>4. PremiumUSD(0, time) \in Nat /\ PremiumUSD(0, time + 1) \in Nat
  BY PremiumIs, 0 \in Nat, time + 1 \in Nat
<1>5. /\ PremiumUSD(0, time) * AnswerUnit \in Nat /\ PremiumUSD(0, time + 1) * AnswerUnit \in Nat
      /\ PremiumUSD(0, time + 1) * AnswerUnit <= PremiumUSD(0, time) * AnswerUnit
  BY <1>3, <1>4, Product, ProductsCompare
<1> QED
  BY <1>5, QuotientsCompare DEF AttoUSDToWei

\* The answers the oracle may have when so many runs have begun: an owner's, and
\* twice what there was before.
Reached(R) ==
    /\ R \in [Nat -> SUBSET (Nat \ {0})]
    /\ \A k \in Nat : /\ Answers \subseteq R[k]
                      /\ R[k] \subseteq R[k + 1]
                      /\ \A usd \in R[k] : 2 * usd \in R[k + 1]

\* At each of them a label costs 100 wei or more, or a percent of it were nothing.
DearEnough(R) ==
    \A k \in 0 .. Len(Labels) : \A usd \in R[k], i \in DOMAIN Labels :
        LabelPrice(Labels[i], usd) >= 100

LEMMA ScriptConstants ==
    /\ TESTER \in Senders /\ TESTER \in Payers /\ TESTER \in Addresses
    /\ TESTER # CONTROLLER /\ TESTER # NoAddr /\ TESTER # REGISTRY /\ TESTER # OWNER
    /\ CONTROLLER \in Payers /\ OWNER \in Payers /\ OWNER # CONTROLLER
    /\ MIN_REGISTRATION_DURATION \in Nat \ {0} /\ RESOLVER \in Resolvers \ {NoAddr}
    /\ Len(Labels) \in Nat /\ DOMAIN Labels = 1 .. Len(Labels)
    /\ \A i \in DOMAIN Labels : /\ Labels[i] \in Names /\ Labels[i] \in Nodes
                                /\ Request(Labels[i]) \in Registrations
    /\ \A i, j \in DOMAIN Labels : Labels[i] = Labels[j] => i = j
    /\ \A i \in DOMAIN Labels, r \in Registrations : r.id = Labels[i] => r = Request(Labels[i])
    /\ GRACE_PERIOD < StartTime /\ MaxCommitmentAge <= StartTime
<1> USE MarketConstants, ControllerConstants
<1>1. /\ TESTER \in Senders /\ Labels \in Seq(Names) /\ RESOLVER \in Resolvers \ {NoAddr}
      /\ OWNER # CONTROLLER
      /\ \A i \in DOMAIN Labels : Request(Labels[i]) \in Registrations
      /\ \A i, j \in DOMAIN Labels : Labels[i] = Labels[j] => i = j
      /\ \A i \in DOMAIN Labels, r \in Registrations : r.id = Labels[i] => r = Request(Labels[i])
  BY VerificationAssumption DEF VerificationAssumption
<1>2. Senders \subseteq Addresses \ {NoAddr, REGISTRY}
  BY RegistryAssumption
<1>3. Len(Labels) \in Nat /\ DOMAIN Labels = 1 .. Len(Labels)
  BY <1>1, LenProperties
<1>4. ASSUME NEW i \in DOMAIN Labels PROVE Labels[i] \in Names /\ Labels[i] \in Nodes
  BY <1>1, <1>3, ElementOfSeq DEF Names
<1>5. MIN_REGISTRATION_DURATION \in Nat \ {0} /\ MaxCommitmentAge <= StartTime
  BY ControllerAssumption DEF ControllerAssumption
<1>6. GRACE_PERIOD < StartTime
  BY RegistrarAssumption
<1>7. TESTER \in Payers /\ CONTROLLER \in Payers /\ OWNER \in Payers
  BY <1>1 DEF Payers
<1> QED
  BY <1>1, <1>2, <1>3, <1>4, <1>5, <1>6, <1>7

(***************************************************************************)
(* What a sale, a renewal and the rest do to the chain                     *)
(***************************************************************************)
ChainTypeOK ==
    /\ RegistryTypeOK /\ RegistrarTypeOK /\ ControllerTypeOK
    /\ balances \in [Payers -> Int]

LEMMA PayTypes ==
    ASSUME balances \in [Payers -> Int], NEW sender \in Senders, NEW value, NEW due \in Nat,
           Pay(sender, CONTROLLER, value, due)
    PROVE  /\ balances' \in [Payers -> Int]
           /\ balances'[sender] = balances[sender] - due
           /\ \A other \in Payers \ {sender, CONTROLLER} : balances'[other] = balances[other]
<1> USE MarketConstants, ScriptConstants
<1>1. sender \in Payers /\ sender # CONTROLLER
  BY DEF Payers
<1>2. balances' = [balances EXCEPT ![sender] = balances[sender] - due,
                                   ![CONTROLLER] = balances[CONTROLLER] + due]
  BY <1>1 DEF Pay
<1>3. balances[sender] - due \in Int /\ balances[CONTROLLER] + due \in Int
  BY <1>1
<1> QED
  BY <1>1, <1>2, <1>3

LEMMA BuyFacts ==
    ASSUME ChainTypeOK, answer \in Nat \ {0},
           NEW sender \in Senders, NEW r \in Registrations, NEW value, Buy(sender, r, value)
    PROVE  /\ ChainTypeOK' /\ answer' = answer /\ now' = now
           /\ commitments[r] > 0 /\ expiries'[r.id] = now + r.duration
           /\ tokenOwner'[r.id] = r.owner /\ records'[r.id].owner = r.owner
           /\ r.resolver # NoAddr => records'[r.id].resolver = r.resolver
           /\ \A other \in Registrations \ {r} : commitments'[other] = commitments[other]
           /\ commitments'[r] = 0
           /\ \A id \in Names \ {r.id} : /\ expiries'[id] = expiries[id]
                                         /\ tokenOwner'[id] = tokenOwner[id]
                                         /\ records'[id] = records[id]
           /\ balances'[sender] = balances[sender] - (PriceOf(r.id, r.duration).base
                                                      + PriceOf(r.id, r.duration).premium)
           /\ \A other \in Payers \ {sender, CONTROLLER} : balances'[other] = balances[other]
<1> USE ControllerConstants
<1>1. RegisterPlain(r) /\ answer' = answer
  BY DEF Buy
<1>2. Sale(r, r.owner) /\ calls' = calls
  BY <1>1 DEF RegisterPlain, Sale
<1>3. r.id \in Names /\ expiries[r.id] \in Nat /\ now \in Nat /\ r.duration \in Nat
  BY DEF ChainTypeOK, RegistrarTypeOK
<1>4. PriceOf(r.id, r.duration).base \in Nat /\ PriceOf(r.id, r.duration).premium \in Nat
  BY <1>3, PriceIs DEF PriceOf
<1> DEFINE due == PriceOf(r.id, r.duration).base + PriceOf(r.id, r.duration).premium
<1>5. due \in Nat /\ Pay(sender, CONTROLLER, value, due)
  BY <1>4 DEF Buy
<1>6. /\ balances' \in [Payers -> Int] /\ balances'[sender] = balances[sender] - due
      /\ \A other \in Payers \ {sender, CONTROLLER} : balances'[other] = balances[other]
  <2> HIDE DEF due
  <2> QED
    BY <1>5, PayTypes DEF ChainTypeOK
<1>7. /\ RegistryTypeOK' /\ RegistrarTypeOK' /\ commitments' \in [Registrations -> Nat]
      /\ now' = now /\ commitments[r] > 0 /\ commitments'[r] = 0
      /\ \A other \in Registrations \ {r} : commitments'[other] = commitments[other]
      /\ expiries'[r.id] = now + r.duration
      /\ tokenOwner'[r.id] = r.owner /\ records'[r.id].owner = r.owner
      /\ \A id \in Names \ {r.id} : expiries'[id] = expiries[id] /\ tokenOwner'[id] = tokenOwner[id]
  BY <1>2, SaleFacts DEF ChainTypeOK
<1>8. ControllerTypeOK'
  BY <1>2, <1>7 DEF ChainTypeOK, ControllerTypeOK
<1>9. r.resolver # NoAddr => records'[r.id].resolver = r.resolver
  BY <1>1 DEF RegisterPlain, WithRecord, ChainTypeOK, RegistryTypeOK, Record
<1>10. \A id \in Names \ {r.id} : records'[id] = records[id]
  <2>1. /\ records \in [Nodes -> Record] /\ Names \subseteq Nodes
        /\ records' = IF r.resolver = NoAddr
                      THEN WithOwner(records, r.id, r.owner)
                      ELSE WithRecord(records, r.id, r.owner, r.resolver, NoTTL)
    BY <1>1 DEF RegisterPlain, ChainTypeOK, RegistryTypeOK, Names
  <2> QED
    BY <2>1 DEF WithOwner, WithRecord
<1> QED
  BY <1>1, <1>6, <1>7, <1>8, <1>9, <1>10 DEF ChainTypeOK

LEMMA RenewFacts ==
    ASSUME ChainTypeOK, answer \in Nat \ {0}, NEW sender \in Senders, NEW id \in Names,
           NEW duration \in Nat, NEW value, PaidRenew(sender, id, duration, value)
    PROVE  /\ ChainTypeOK' /\ answer' = answer /\ now' = now /\ commitments' = commitments
           /\ expiries[id] > 0 /\ expiries'[id] = expiries[id] + duration
           /\ \A other \in Names \ {id} : expiries'[other] = expiries[other]
           /\ tokenOwner' = tokenOwner /\ records' = records
           /\ \A other \in Payers \ {sender, CONTROLLER} : balances'[other] = balances[other]
<1> USE ControllerConstants
<1>1. Renew(CONTROLLER, id, duration) /\ UNCHANGED controllerVars /\ answer' = answer
  BY DEF PaidRenew, ControllerRenew
<1>2. /\ expiries \in [Names -> 0 .. MaxExpiry] /\ expiries[id] \in Nat /\ now \in Nat
  BY DEF ChainTypeOK, RegistrarTypeOK
<1>3. /\ expiries' = [expiries EXCEPT ![id] = expiries[id] + duration]
      /\ expiries[id] > 0 /\ expiries[id] + duration <= MaxExpiry
  BY <1>1, <1>2 DEF Renew, CanRenew
<1>4. expiries[id] + duration \in 0 .. MaxExpiry
  BY <1>2, <1>3
<1>5. PriceOf(id, duration).base \in Nat
  BY <1>2, PriceIs DEF PriceOf
<1>6. /\ balances' \in [Payers -> Int]
      /\ \A other \in Payers \ {sender, CONTROLLER} : balances'[other] = balances[other]
  BY <1>5, PayTypes DEF ChainTypeOK, PaidRenew
<1>7. RegistryTypeOK' /\ RegistrarTypeOK'
  BY <1>1, <1>2, <1>3, <1>4
     DEF Renew, ChainTypeOK, RegistryTypeOK, RegistrarTypeOK, registryVars
<1>8. /\ ControllerTypeOK' /\ now' = now /\ commitments' = commitments
      /\ tokenOwner' = tokenOwner /\ records' = records
  BY <1>1 DEF Renew, registryVars, controllerVars, ChainTypeOK, ControllerTypeOK
<1> QED
  BY <1>1, <1>2, <1>3, <1>6, <1>7, <1>8 DEF ChainTypeOK

LEMMA CommitFacts ==
    ASSUME ChainTypeOK, NEW r \in Registrations, Commit(r), UNCHANGED marketVars
    PROVE  /\ ChainTypeOK' /\ answer' = answer /\ expiries' = expiries
           /\ now' = now /\ tokenOwner' = tokenOwner /\ records' = records /\ balances' = balances
           /\ \A other \in Registrations \ {r} : commitments'[other] = commitments[other]
<1>1. /\ commitments' = [commitments EXCEPT ![r] = now]
      /\ UNCHANGED <<registryVars, registrarVars, calls, marketVars>>
  BY DEF Commit
<1>2. commitments \in [Registrations -> Nat] /\ now \in Nat
  BY ControllerConstants DEF ChainTypeOK, ControllerTypeOK, RegistrarTypeOK
<1>3. /\ RegistryTypeOK' /\ RegistrarTypeOK' /\ ControllerTypeOK' /\ expiries' = expiries
      /\ now' = now /\ tokenOwner' = tokenOwner /\ records' = records
  BY <1>1, <1>2 DEF ChainTypeOK, RegistryTypeOK, RegistrarTypeOK, ControllerTypeOK, registryVars,
                    registrarVars, tokenVars
<1> QED
  BY <1>1, <1>2, <1>3 DEF ChainTypeOK, marketVars

LEMMA WithdrawFacts ==
    ASSUME ChainTypeOK, Withdraw(CONTROLLER)
    PROVE  /\ ChainTypeOK' /\ answer' = answer /\ expiries' = expiries
           /\ commitments' = commitments /\ balances'[CONTROLLER] = 0
           /\ now' = now /\ tokenOwner' = tokenOwner /\ records' = records
           /\ \A other \in Payers \ {CONTROLLER, OWNER} : balances'[other] = balances[other]
<1> USE ScriptConstants
<1>1. /\ balances' = [balances EXCEPT ![CONTROLLER] = 0,
                                      ![OWNER] = balances[OWNER] + balances[CONTROLLER]]
      /\ UNCHANGED <<registryVars, registrarVars, controllerVars, answer>>
  BY DEF Withdraw, ChainTypeOK
<1>2. balances[OWNER] + balances[CONTROLLER] \in Int
  BY DEF ChainTypeOK
<1>3. /\ balances' \in [Payers -> Int] /\ balances'[CONTROLLER] = 0
      /\ \A other \in Payers \ {CONTROLLER, OWNER} : balances'[other] = balances[other]
  BY <1>1, <1>2 DEF ChainTypeOK
<1>4. /\ RegistryTypeOK' /\ RegistrarTypeOK' /\ ControllerTypeOK' /\ expiries' = expiries
      /\ now' = now /\ tokenOwner' = tokenOwner /\ records' = records
  BY <1>1 DEF ChainTypeOK, RegistryTypeOK, RegistrarTypeOK, ControllerTypeOK, registryVars,
              registrarVars, tokenVars, controllerVars
<1> QED
  BY <1>1, <1>3, <1>4 DEF ChainTypeOK, controllerVars

LEMMA SetAnswerFacts ==
    ASSUME ChainTypeOK, NEW value, SetAnswer(value)
    PROVE  /\ ChainTypeOK' /\ answer' = value /\ expiries' = expiries
           /\ commitments' = commitments /\ balances' = balances
           /\ now' = now /\ tokenOwner' = tokenOwner /\ records' = records
BY DEF SetAnswer, ChainTypeOK, RegistryTypeOK, RegistrarTypeOK, ControllerTypeOK, registryVars,
       registrarVars, tokenVars, controllerVars

LEMMA TickFacts ==
    ASSUME ChainTypeOK, TimePasses
    PROVE  ChainTypeOK' /\ now' = now + 1
<1>1. /\ now < MaxTime /\ now' = now + 1
      /\ UNCHANGED <<registryVars, tokenVars, controllers, controllerVars, marketVars>>
  BY DEF TimePasses, Tick
<1>2. now + 1 \in StartTime .. MaxTime
  BY <1>1, ControllerConstants DEF ChainTypeOK, RegistrarTypeOK
<1> QED
  BY <1>1, <1>2 DEF ChainTypeOK, RegistryTypeOK, RegistrarTypeOK, ControllerTypeOK, registryVars,
                    tokenVars, controllerVars, marketVars

LEMMA SameChain ==
    ASSUME ChainTypeOK, UNCHANGED marketStateVars
    PROVE  /\ ChainTypeOK' /\ answer' = answer /\ expiries' = expiries
           /\ commitments' = commitments /\ balances' = balances /\ now' = now
           /\ records' = records /\ tokenOwner' = tokenOwner
BY DEF ChainTypeOK, RegistryTypeOK, RegistrarTypeOK, ControllerTypeOK, marketStateVars,
       controllerStateVars, registrarStateVars, registryVars, registrarVars, tokenVars,
       controllerVars, marketVars

(***************************************************************************)
(* The invariant: what the script relies on is what the chain says, as long *)
(* as no act of others disturbs it; and the labels of runs to come are      *)
(* untouched whatever others do.  A label that others register for the      *)
(* registrant costs the script its commitment: its sale throws.            *)
(***************************************************************************)
RunOK ==
    /\ WellFormed(run)
    /\ run.count \in 0 .. Len(Labels)
    /\ Running => run.count > 0

BeforeDoubling ==
    {"price", "register", "registered", "clear", "expiry", "renew", "renewed", "drill", "double"}

OracleOK(R) ==
    /\ answer \in R[run.count]
    /\ run.pc \in BeforeDoubling => answer \in R[run.count - 1]
    /\ run.pc \in {"double", "halved", "restore"} => run.before \in R[run.count - 1]

LabelsFresh ==
    \A i \in DOMAIN Labels :
        i > run.count => expiries[Labels[i]] = 0 /\ commitments[Request(Labels[i])] = 0

Expected ==
    /\ ~run.failed
    /\ run.pc = "price" => expiries[label] = 0 \/ commitments[Request(label)] = 0
    /\ run.pc = "register" =>
        \/ commitments[Request(label)] = 0
        \/ /\ expiries[label] = 0
           /\ run.total \in Nat /\ run.total >= 100
           /\ run.balance = balances[TESTER]
           /\ LabelPrice(label, answer) + AttoUSDToWei(PremiumUSD(0, now), answer) <= run.total
    /\ run.pc = "registered" =>
        /\ records[label].owner = TESTER /\ records[label].resolver = RESOLVER
        /\ tokenOwner[label] = TESTER
        /\ expiries[label] >= StartTime + MIN_REGISTRATION_DURATION
        /\ run.total \in Nat /\ run.total >= 100
        /\ run.balance - balances[TESTER] <= run.total /\ run.balance \in Int
        /\ primary = label
    /\ run.pc = "clear" => primary = label
    /\ run.pc = "renew" => run.expiry = expiries[label]
    /\ run.pc = "renewed" => /\ expiries[label] = run.expiry + MIN_REGISTRATION_DURATION
                             /\ run.expiry \in Int
    /\ run.pc = "double" => run.base = LabelPrice(label, run.before)
    /\ run.pc = "halved" => answer = 2 * run.before /\ run.base = LabelPrice(label, run.before)
    /\ run.pc = "restored" => answer = run.before
    /\ run.pc = "withdrawn" => balances[CONTROLLER] = 0

ScriptInv(R) ==
    /\ ChainTypeOK /\ RunOK /\ OracleOK(R) /\ LabelsFresh
    /\ run.disturbed \/ Expected

LEMMA ScriptInvInit ==
    ASSUME MarketStart, VerificationInit, NEW R, Reached(R)
    PROVE  ScriptInv(R)
<1> USE ControllerConstants, MarketConstants, ScriptConstants
<1>1. RegistryTypeOK /\ RegistrarTypeOK
  BY RegistrarTypeInit DEF MarketStart, ControllerStart, RegistrarStart, RegistryInit, RegistrarInit
<1>2. ControllerTypeOK
  BY EmptySeq DEF MarketStart, ControllerStart, ControllerInit, ControllerTypeOK
<1>3. balances \in [Payers -> Int] /\ answer \in Answers
  BY DEF MarketStart, MarketInit
<1>4. /\ WellFormed(run) /\ run.count = 0 /\ run.pc = "idle" /\ ~run.failed
  BY DEF VerificationInit, Process, WellFormed
<1>5. RunOK
  BY <1>4 DEF RunOK, Running
<1>6. OracleOK(R)
  BY <1>3, <1>4 DEF OracleOK, BeforeDoubling, Reached
<1>7. LabelsFresh
  BY DEF LabelsFresh, MarketStart, ControllerStart, ControllerInit, RegistrarStart, RegistrarInit
<1>8. Expected
  BY <1>4 DEF Expected
<1> QED
  BY <1>1, <1>2, <1>3, <1>5, <1>6, <1>7, <1>8 DEF ScriptInv, ChainTypeOK

\* The oracle says a positive number, and while a run lasts it has a label.
LEMMA RunFacts ==
    ASSUME NEW R, Reached(R), ScriptInv(R)
    PROVE  /\ run.count \in 0 .. Len(Labels) /\ run.count \in Nat
           /\ answer \in R[run.count] /\ answer \in Nat \ {0}
           /\ now \in Nat /\ StartTime <= now /\ now <= MaxTime
           /\ expiries \in [Names -> 0 .. MaxExpiry] /\ commitments \in [Registrations -> Nat]
           /\ balances \in [Payers -> Int] /\ balances[TESTER] \in Int
           /\ Running => /\ run.count \in DOMAIN Labels /\ run.count - 1 \in Nat
                         /\ R[run.count - 1] \subseteq R[run.count]
                         /\ label \in Names /\ label \in Nodes /\ Request(label) \in Registrations
                         /\ expiries[label] \in Nat
<1> USE ScriptConstants, ControllerConstants
<1>1. run.count \in 0 .. Len(Labels) /\ run.count \in Nat
  BY DEF ScriptInv, RunOK
<1>2. answer \in R[run.count] /\ R \in [Nat -> SUBSET (Nat \ {0})]
  BY DEF ScriptInv, OracleOK, Reached
<1>3. answer \in Nat \ {0}
  BY <1>1, <1>2
<1>4. /\ now \in Nat /\ StartTime <= now /\ now <= MaxTime
      /\ expiries \in [Names -> 0 .. MaxExpiry] /\ commitments \in [Registrations -> Nat]
      /\ balances \in [Payers -> Int] /\ balances[TESTER] \in Int
  BY DEF ScriptInv, ChainTypeOK, RegistrarTypeOK, ControllerTypeOK
<1>5. ASSUME Running
      PROVE  /\ run.count \in DOMAIN Labels /\ run.count - 1 \in Nat
             /\ R[run.count - 1] \subseteq R[run.count]
             /\ label \in Names /\ label \in Nodes /\ Request(label) \in Registrations
             /\ expiries[label] \in Nat
  <2>1. run.count \in DOMAIN Labels /\ run.count - 1 \in Nat /\ (run.count - 1) + 1 = run.count
    BY <1>1, <1>5 DEF ScriptInv, RunOK
  <2>2. R[run.count - 1] \subseteq R[(run.count - 1) + 1]
    BY <2>1 DEF Reached
  <2> QED
    BY <1>4, <2>1, <2>2 DEF label
<1> QED
  BY <1>1, <1>2, <1>3, <1>4, <1>5

\* Different runs have different labels and make different requests.
LEMMA LabelsDiffer ==
    ASSUME NEW i \in DOMAIN Labels, NEW j \in DOMAIN Labels, i # j
    PROVE  /\ Labels[i] \in Names /\ Labels[i] # Labels[j]
           /\ Request(Labels[i]) \in Registrations
           /\ Request(Labels[i]) # Request(Labels[j])
<1>1. Request(Labels[i]).id = Labels[i] /\ Request(Labels[j]).id = Labels[j]
  BY DEF Request
<1> QED
  BY <1>1, ScriptConstants

\* A step that touches the label of the run leaves those of later runs alone.
LEMMA StaysFresh ==
    ASSUME NEW R, Reached(R), ScriptInv(R), Running, run'.count = run.count,
           \A id \in Names \ {label} : expiries'[id] = expiries[id],
           \A r \in Registrations \ {Request(label)} : commitments'[r] = commitments[r]
    PROVE  LabelsFresh'
<1> SUFFICES ASSUME NEW i \in DOMAIN Labels, i > run.count
             PROVE  expiries'[Labels[i]] = 0 /\ commitments'[Request(Labels[i])] = 0
  BY DEF LabelsFresh
<1>1. run.count \in DOMAIN Labels /\ run.count # i
  BY RunFacts, ScriptConstants
<1>2. /\ Labels[i] \in Names \ {label}
      /\ Request(Labels[i]) \in Registrations \ {Request(label)}
  BY <1>1, LabelsDiffer DEF label
<1> QED
  BY <1>2 DEF ScriptInv, LabelsFresh

\* What a step is to leave, given that it leaves the chain well typed and the count.
LEMMA StepKeeps ==
    ASSUME NEW R, Reached(R), ScriptInv(R), Running,
           ChainTypeOK', WellFormed(run'), run'.count = run.count,
           run'.disturbed = run.disturbed,
           \A id \in Names \ {label} : expiries'[id] = expiries[id],
           \A r \in Registrations \ {Request(label)} : commitments'[r] = commitments[r],
           OracleOK(R)',
           ~run.disturbed => Expected'
    PROVE  ScriptInv(R)'
<1>1. RunOK'
  BY RunFacts, ScriptConstants DEF ScriptInv, RunOK, WellFormed
<1>2. LabelsFresh'
  BY StaysFresh
<1> QED
  BY <1>1, <1>2 DEF ScriptInv

\* What a label never registered costs, in the block at hand.
LEMMA FreshPrice ==
    ASSUME NEW id \in Names, expiries[id] = 0, answer \in Nat \ {0}, now \in Nat
    PROVE  /\ PriceOf(id, MIN_REGISTRATION_DURATION).base = LabelPrice(id, answer)
           /\ PriceOf(id, MIN_REGISTRATION_DURATION).premium
                = AttoUSDToWei(PremiumUSD(0, now), answer)
           /\ LabelPrice(id, answer) \in Nat
           /\ AttoUSDToWei(PremiumUSD(0, now), answer) \in Nat
<1> DEFINE usd == answer
           time == now
<1>1. PriceOf(id, MIN_REGISTRATION_DURATION) = Price(id, 0, MIN_REGISTRATION_DURATION, time, usd)
  BY DEF PriceOf
<1>2. usd \in Nat \ {0} /\ time \in Nat /\ 0 \in Nat /\ MIN_REGISTRATION_DURATION \in Nat
  BY ScriptConstants
<1> HIDE DEF usd, time
<1>3. /\ LabelPrice(id, usd) \in Nat
      /\ Price(id, 0, MIN_REGISTRATION_DURATION, time, usd).base = LabelPrice(id, usd)
      /\ Price(id, 0, MIN_REGISTRATION_DURATION, time, usd).premium
           = AttoUSDToWei(PremiumUSD(0, time), usd)
      /\ AttoUSDToWei(PremiumUSD(0, time), usd) \in Nat
  BY <1>2, LabelPriceIs
<1> QED
  BY <1>1, <1>3 DEF usd, time

LEMMA SaleSteps ==
    ASSUME NEW R, Reached(R), DearEnough(R),
           MaxTime < StartTime + MIN_REGISTRATION_DURATION,
           ScriptInv(R), ReadPrice \/ RegisterLabel \/ CheckRegistered \/ ClearReverse
    PROVE  ScriptInv(R)'
<1> USE ScriptConstants, ControllerConstants
<1>0. /\ ChainTypeOK /\ WellFormed(run) /\ OracleOK(R) /\ (run.disturbed \/ Expected)
      /\ Running
  <2>1. run.pc \in {"price", "register", "registered", "clear"}
    BY DEF ReadPrice, RegisterLabel, CheckRegistered, ClearReverse
  <2> QED
    BY <2>1 DEF ScriptInv, RunOK, Running
<1>1. /\ run.count \in DOMAIN Labels /\ label \in Names /\ label \in Nodes
      /\ Request(label) \in Registrations /\ expiries[label] \in Nat
      /\ answer \in Nat \ {0} /\ now \in Nat /\ StartTime <= now /\ now <= MaxTime
      /\ R[run.count - 1] \subseteq R[run.count] /\ answer \in R[run.count]
      /\ run.count \in 0 .. Len(Labels) /\ balances[TESTER] \in Int
  BY <1>0, RunFacts
<1>2. CASE ReadPrice
  <2> DEFINE price == PriceOf(label, MIN_REGISTRATION_DURATION)
  <2>1. run.pc = "price" /\ UNCHANGED chainVars
        /\ run' = [run EXCEPT !.pc = "register", !.total = price.base + price.premium,
                              !.balance = balances[TESTER]]
    BY <1>2 DEF ReadPrice
  <2>2. /\ WellFormed(run') /\ run'.count = run.count /\ run'.disturbed = run.disturbed
        /\ run'.failed = run.failed /\ run'.pc = "register"
        /\ run'.total = price.base + price.premium /\ run'.balance = balances[TESTER]
    BY <1>0, <2>1 DEF WellFormed
  <2>3. /\ ChainTypeOK' /\ answer' = answer /\ expiries' = expiries
        /\ commitments' = commitments /\ balances' = balances /\ now' = now
    BY <1>0, <2>1, SameChain DEF chainVars
  <2>4. OracleOK(R)'
    BY <1>0, <2>1, <2>2, <2>3 DEF OracleOK, BeforeDoubling
  <2>5. ASSUME ~run.disturbed, commitments[Request(label)] # 0 PROVE Expected'
    <3>1. expiries[label] = 0 /\ ~run.failed
      BY <1>0, <2>1, <2>5 DEF Expected
    <3>2. /\ LabelPrice(label, answer) \in Nat
          /\ AttoUSDToWei(PremiumUSD(0, now), answer) \in Nat
          /\ price.base = LabelPrice(label, answer)
          /\ price.premium = AttoUSDToWei(PremiumUSD(0, now), answer)
      BY <1>1, <3>1, FreshPrice
    <3>3. LabelPrice(label, answer) >= 100
      BY <1>1 DEF DearEnough, label
    <3>4. label' = label
      BY <2>2 DEF label
    <3> HIDE DEF price
    <3> QED
      BY <2>2, <2>3, <3>1, <3>2, <3>3, <3>4 DEF Expected
  <2>6. ASSUME ~run.disturbed, commitments[Request(label)] = 0 PROVE Expected'
    <3>1. ~run.failed /\ label' = label
      BY <1>0, <2>2, <2>6 DEF Expected, label
    <3> QED
      BY <2>2, <2>3, <2>6, <3>1 DEF Expected, Request
  <2> QED
    BY <1>0, <2>2, <2>3, <2>4, <2>5, <2>6, StepKeeps
<1>3. CASE RegisterLabel
  <2>1. /\ run.pc = "register" /\ Buy(TESTER, Request(label), WithMargin)
        /\ primary' = label /\ run' = [run EXCEPT !.pc = "registered"]
    BY <1>3 DEF RegisterLabel, Goto
  <2>2. /\ WellFormed(run') /\ run'.count = run.count /\ run'.disturbed = run.disturbed
        /\ run'.failed = run.failed /\ run'.pc = "registered"
        /\ run'.total = run.total /\ run'.balance = run.balance
    BY <1>0, <2>1 DEF WellFormed
  <2>3. /\ Request(label).id = label /\ Request(label).duration = MIN_REGISTRATION_DURATION
        /\ Request(label).owner = TESTER /\ Request(label).resolver = RESOLVER
    BY DEF Request
  <2>4. /\ ChainTypeOK' /\ answer' = answer /\ now' = now
        /\ expiries'[label] = now + MIN_REGISTRATION_DURATION
        /\ tokenOwner'[label] = TESTER /\ records'[label].owner = TESTER
        /\ records'[label].resolver = RESOLVER
        /\ \A r \in Registrations \ {Request(label)} : commitments'[r] = commitments[r]
        /\ \A id \in Names \ {label} : expiries'[id] = expiries[id]
        /\ balances'[TESTER] = balances[TESTER]
                - (PriceOf(label, MIN_REGISTRATION_DURATION).base
                   + PriceOf(label, MIN_REGISTRATION_DURATION).premium)
        /\ commitments[Request(label)] > 0
    <3> HIDE DEF Request
    <3> QED
      BY <1>0, <1>1, <2>1, <2>3, BuyFacts
  <2>5. OracleOK(R)'
    BY <1>0, <2>1, <2>2, <2>4 DEF OracleOK, BeforeDoubling
  <2>6. ASSUME ~run.disturbed PROVE Expected'
    <3> DEFINE base == PriceOf(label, MIN_REGISTRATION_DURATION).base
               premium == PriceOf(label, MIN_REGISTRATION_DURATION).premium
    <3>1. /\ expiries[label] = 0 /\ ~run.failed /\ run.total \in Nat /\ run.total >= 100
          /\ run.balance = balances[TESTER]
          /\ LabelPrice(label, answer) + AttoUSDToWei(PremiumUSD(0, now), answer) <= run.total
      BY <1>0, <2>1, <2>4, <2>6 DEF Expected
    <3>2. /\ base \in Nat /\ premium \in Nat /\ base + premium <= run.total
      BY <1>1, <3>1, FreshPrice
    <3>3. label' = label
      BY <2>2 DEF label
    <3>4. run'.balance - balances'[TESTER] <= run'.total /\ run'.balance \in Int
      <4> HIDE DEF base, premium
      <4>1. balances'[TESTER] = balances[TESTER] - (base + premium)
        BY <2>4 DEF base, premium
      <4> QED
        BY <1>1, <2>2, <3>1, <3>2, <4>1
    <3>5. expiries'[label] >= StartTime + MIN_REGISTRATION_DURATION
      BY <1>1, <2>4
    <3> QED
      BY <2>1, <2>2, <2>4, <3>1, <3>3, <3>4, <3>5 DEF Expected
  <2> QED
    BY <1>0, <2>2, <2>4, <2>5, <2>6, StepKeeps
<1>4. CASE CheckRegistered
  <2> DEFINE ok == /\ Owner(label) = TESTER
                   /\ Unexpired(label) /\ tokenOwner[label] = TESTER
                   /\ records[label].resolver = RESOLVER
                   /\ ~Available(label)
                   /\ run.balance - balances[TESTER] < WithMargin
  <2>1. run.pc = "registered" /\ UNCHANGED chainVars
        /\ run' = [run EXCEPT !.pc = "clear", !.failed = run.failed \/ ~ok]
    BY <1>0, <1>4 DEF CheckRegistered, Check, WellFormed
  <2> HIDE DEF ok
  <2>2. /\ WellFormed(run') /\ run'.count = run.count /\ run'.disturbed = run.disturbed
        /\ run'.failed = (run.failed \/ ~ok) /\ run'.pc = "clear"
    BY <1>0, <2>1 DEF WellFormed
  <2>3. /\ ChainTypeOK' /\ answer' = answer /\ expiries' = expiries
        /\ commitments' = commitments
    BY <1>0, <2>1, SameChain DEF chainVars
  <2>4. OracleOK(R)'
    BY <1>0, <2>1, <2>2, <2>3 DEF OracleOK, BeforeDoubling
  <2>5. ASSUME ~run.disturbed PROVE Expected'
    <3>1. /\ ~run.failed
          /\ records[label].owner = TESTER /\ records[label].resolver = RESOLVER
          /\ tokenOwner[label] = TESTER
          /\ expiries[label] >= StartTime + MIN_REGISTRATION_DURATION
          /\ run.total \in Nat /\ run.total >= 100
          /\ run.balance - balances[TESTER] <= run.total /\ run.balance \in Int
          /\ primary = label
      BY <1>0, <2>1, <2>5 DEF Expected
    <3>2. Unexpired(label) /\ ~Available(label)
      BY <1>1, <3>1 DEF Unexpired, Available
    <3>3. run.balance - balances[TESTER] < WithMargin
      BY <1>1, <3>1, MarginIsMore DEF WithMargin
    <3>4. ok
      BY <3>1, <3>2, <3>3 DEF ok, Owner
    <3>5. label' = label /\ primary' = primary
      BY <2>1, <2>2 DEF label, chainVars
    <3> QED
      BY <2>2, <3>1, <3>4, <3>5 DEF Expected
  <2> QED
    BY <1>0, <2>2, <2>3, <2>4, <2>5, StepKeeps
<1>5. CASE ClearReverse
  <2>1. run.pc = "clear" /\ UNCHANGED marketStateVars
        /\ run' = [run EXCEPT !.pc = "expiry", !.failed = run.failed \/ ~(primary = label)]
    BY <1>0, <1>5 DEF ClearReverse, Check, WellFormed
  <2>2. /\ WellFormed(run') /\ run'.count = run.count /\ run'.disturbed = run.disturbed
        /\ run'.failed = (run.failed \/ ~(primary = label)) /\ run'.pc = "expiry"
    BY <1>0, <2>1 DEF WellFormed
  <2>3. /\ ChainTypeOK' /\ answer' = answer /\ expiries' = expiries
        /\ commitments' = commitments
    BY <1>0, <2>1, SameChain
  <2>4. OracleOK(R)'
    BY <1>0, <2>1, <2>2, <2>3 DEF OracleOK, BeforeDoubling
  <2>5. ASSUME ~run.disturbed PROVE Expected'
    BY <1>0, <2>1, <2>2, <2>5 DEF Expected
  <2> QED
    BY <1>0, <2>2, <2>3, <2>4, <2>5, StepKeeps
<1> QED
  BY <1>2, <1>3, <1>4, <1>5

LEMMA RenewalSteps ==
    ASSUME NEW R, Reached(R), ScriptInv(R), ReadExpiry \/ RenewLabel \/ CheckRenewed
    PROVE  ScriptInv(R)'
<1> USE ScriptConstants, ControllerConstants
<1>0. /\ ChainTypeOK /\ WellFormed(run) /\ OracleOK(R) /\ (run.disturbed \/ Expected)
      /\ Running
  <2>1. run.pc \in {"expiry", "renew", "renewed"}
    BY DEF ReadExpiry, RenewLabel, CheckRenewed
  <2> QED
    BY <2>1 DEF ScriptInv, RunOK, Running
<1>1. /\ label \in Names /\ expiries[label] \in Nat /\ answer \in Nat \ {0}
  BY <1>0, RunFacts
<1>2. CASE ReadExpiry
  <2>1. run.pc = "expiry" /\ UNCHANGED chainVars
        /\ run' = [run EXCEPT !.pc = "renew", !.expiry = expiries[label]]
    BY <1>2 DEF ReadExpiry
  <2>2. /\ WellFormed(run') /\ run'.count = run.count /\ run'.disturbed = run.disturbed
        /\ run'.failed = run.failed /\ run'.pc = "renew" /\ run'.expiry = expiries[label]
    BY <1>0, <2>1 DEF WellFormed
  <2>3. /\ ChainTypeOK' /\ answer' = answer /\ expiries' = expiries
        /\ commitments' = commitments
    BY <1>0, <2>1, SameChain DEF chainVars
  <2>4. OracleOK(R)'
    BY <1>0, <2>1, <2>2, <2>3 DEF OracleOK, BeforeDoubling
  <2>5. ASSUME ~run.disturbed PROVE Expected'
    BY <1>0, <2>1, <2>2, <2>3, <2>5 DEF Expected, label
  <2> QED
    BY <1>0, <2>2, <2>3, <2>4, <2>5, StepKeeps
<1>3. CASE RenewLabel
  <2>1. /\ run.pc = "renew" /\ run' = [run EXCEPT !.pc = "renewed"]
        /\ PaidRenew(TESTER, label, MIN_REGISTRATION_DURATION, WithMargin)
    BY <1>3 DEF RenewLabel, Goto
  <2>2. /\ WellFormed(run') /\ run'.count = run.count /\ run'.disturbed = run.disturbed
        /\ run'.failed = run.failed /\ run'.pc = "renewed" /\ run'.expiry = run.expiry
    BY <1>0, <2>1 DEF WellFormed
  <2>3. /\ ChainTypeOK' /\ answer' = answer /\ commitments' = commitments
        /\ expiries'[label] = expiries[label] + MIN_REGISTRATION_DURATION
        /\ \A other \in Names \ {label} : expiries'[other] = expiries[other]
    BY <1>0, <1>1, <2>1, RenewFacts
  <2>4. OracleOK(R)'
    BY <1>0, <2>1, <2>2, <2>3 DEF OracleOK, BeforeDoubling
  <2>5. ASSUME ~run.disturbed PROVE Expected'
    <3>1. ~run.failed /\ run.expiry = expiries[label]
      BY <1>0, <2>1, <2>5 DEF Expected
    <3>2. label' = label
      BY <2>2 DEF label
    <3> QED
      BY <1>1, <2>2, <2>3, <3>1, <3>2 DEF Expected
  <2> QED
    BY <1>0, <2>2, <2>3, <2>4, <2>5, StepKeeps
<1>4. CASE CheckRenewed
  <2> DEFINE ok == expiries[label] - run.expiry = MIN_REGISTRATION_DURATION
  <2>1. run.pc = "renewed" /\ UNCHANGED chainVars
        /\ run' = [run EXCEPT !.pc = "drill", !.failed = run.failed \/ ~ok]
    BY <1>0, <1>4 DEF CheckRenewed, Check, WellFormed
  <2> HIDE DEF ok
  <2>2. /\ WellFormed(run') /\ run'.count = run.count /\ run'.disturbed = run.disturbed
        /\ run'.failed = (run.failed \/ ~ok) /\ run'.pc = "drill"
    BY <1>0, <2>1 DEF WellFormed
  <2>3. /\ ChainTypeOK' /\ answer' = answer /\ expiries' = expiries
        /\ commitments' = commitments
    BY <1>0, <2>1, SameChain DEF chainVars
  <2>4. OracleOK(R)'
    BY <1>0, <2>1, <2>2, <2>3 DEF OracleOK, BeforeDoubling
  <2>5. ASSUME ~run.disturbed PROVE Expected'
    <3>1. /\ ~run.failed /\ run.expiry \in Int
          /\ expiries[label] = run.expiry + MIN_REGISTRATION_DURATION
      BY <1>0, <2>1, <2>5 DEF Expected
    <3>2. ok
      BY <1>1, <3>1 DEF ok
    <3> QED
      BY <2>2, <3>1, <3>2 DEF Expected
  <2> QED
    BY <1>0, <2>2, <2>3, <2>4, <2>5, StepKeeps
<1> QED
  BY <1>2, <1>3, <1>4

\* Whatever is doubled, twice it costs half as much.
LEMMA HalvedPrice ==
    ASSUME NEW id \in Names, NEW usd \in Nat \ {0}, LabelPrice(id, usd) >= 100
    PROVE  /\ LabelPrice(id, 2 * usd) > (LabelPrice(id, usd) * 49) \div 100
           /\ LabelPrice(id, 2 * usd) < (LabelPrice(id, usd) * 51) \div 100
<1> USE MarketConstants, ScriptConstants
<1> DEFINE x == (RentPrices[id] * MIN_REGISTRATION_DURATION) * AnswerUnit
<1>1. RentPrices[id] * MIN_REGISTRATION_DURATION \in Nat
  BY Product
<1>2. x \in Nat
  BY <1>1, Product
<1>3. LabelPrice(id, usd) = x \div usd /\ LabelPrice(id, 2 * usd) = x \div (2 * usd)
  BY DEF LabelPrice, AttoUSDToWei
<1> HIDE DEF x
<1>4. x \div usd >= 100
  BY <1>3
<1>5. /\ x \div (2 * usd) > ((x \div usd) * 49) \div 100
      /\ x \div (2 * usd) < ((x \div usd) * 51) \div 100
  BY <1>2, <1>4, HalfIsInWindow
<1> QED
  BY <1>3, <1>5

LEMMA DrillSteps ==
    ASSUME NEW R, Reached(R), DearEnough(R), ScriptInv(R),
           ReadOracle \/ DoubleAnswer \/ CheckHalved \/ RestoreAnswer \/ CheckRestored
    PROVE  ScriptInv(R)'
<1> USE ScriptConstants, ControllerConstants
<1>0. /\ ChainTypeOK /\ WellFormed(run) /\ OracleOK(R) /\ (run.disturbed \/ Expected)
      /\ Running
  <2>1. run.pc \in {"drill", "double", "halved", "restore", "restored"}
    BY DEF ReadOracle, DoubleAnswer, CheckHalved, RestoreAnswer, CheckRestored
  <2> QED
    BY <2>1 DEF ScriptInv, RunOK, Running
<1>1. /\ run.count \in DOMAIN Labels /\ run.count \in 0 .. Len(Labels)
      /\ label \in Names /\ expiries[label] \in Nat /\ now \in Nat
      /\ answer \in Nat \ {0} /\ answer \in R[run.count]
      /\ run.count - 1 \in Nat /\ R[run.count - 1] \subseteq R[run.count]
      /\ (run.count - 1) + 1 = run.count
  BY <1>0, RunFacts
<1>2. R \in [Nat -> SUBSET (Nat \ {0})]
      /\ \A usd \in R[run.count - 1] : 2 * usd \in R[run.count]
  BY <1>1 DEF Reached
<1>3. PriceOf(label, MIN_REGISTRATION_DURATION).base = LabelPrice(label, answer)
  BY DEF PriceOf, Price, LabelPrice
<1>4. CASE ReadOracle
  <2>1. run.pc = "drill" /\ UNCHANGED chainVars
        /\ run' = [run EXCEPT !.pc = "double", !.before = answer,
                              !.base = LabelPrice(label, answer)]
    BY <1>3, <1>4 DEF ReadOracle
  <2>2. /\ WellFormed(run') /\ run'.count = run.count /\ run'.disturbed = run.disturbed
        /\ run'.failed = run.failed /\ run'.pc = "double" /\ run'.before = answer
        /\ run'.base = LabelPrice(label, answer)
    BY <1>0, <2>1 DEF WellFormed
  <2>3. /\ ChainTypeOK' /\ answer' = answer /\ expiries' = expiries
        /\ commitments' = commitments
    BY <1>0, <2>1, SameChain DEF chainVars
  <2>4. OracleOK(R)'
    BY <1>0, <2>1, <2>2, <2>3 DEF OracleOK, BeforeDoubling
  <2>5. ASSUME ~run.disturbed PROVE Expected'
    BY <1>0, <2>1, <2>2, <2>3, <2>5 DEF Expected, label
  <2> QED
    BY <1>0, <2>2, <2>3, <2>4, <2>5, StepKeeps
<1>5. CASE DoubleAnswer
  <2>1. /\ run.pc = "double" /\ run' = [run EXCEPT !.pc = "halved"]
        /\ SetAnswer(2 * run.before)
    BY <1>5 DEF DoubleAnswer, Goto
  <2>2. /\ WellFormed(run') /\ run'.count = run.count /\ run'.disturbed = run.disturbed
        /\ run'.failed = run.failed /\ run'.pc = "halved" /\ run'.before = run.before
        /\ run'.base = run.base
    BY <1>0, <2>1 DEF WellFormed
  <2>3. /\ ChainTypeOK' /\ answer' = 2 * run.before /\ expiries' = expiries
        /\ commitments' = commitments
    BY <1>0, <2>1, SetAnswerFacts
  <2>4. OracleOK(R)'
    BY <1>0, <1>2, <2>1, <2>2, <2>3 DEF OracleOK, BeforeDoubling
  <2>5. ASSUME ~run.disturbed PROVE Expected'
    BY <1>0, <2>1, <2>2, <2>3, <2>5 DEF Expected, label
  <2> QED
    BY <1>0, <2>2, <2>3, <2>4, <2>5, StepKeeps
<1>6. CASE CheckHalved
  <2> DEFINE ok == /\ LabelPrice(label, answer) > (run.base * 49) \div 100
                   /\ LabelPrice(label, answer) < (run.base * 51) \div 100
  <2>1. run.pc = "halved" /\ UNCHANGED chainVars
        /\ run' = [run EXCEPT !.pc = "restore", !.failed = run.failed \/ ~ok]
    BY <1>0, <1>3, <1>6 DEF CheckHalved, Check, WellFormed
  <2> HIDE DEF ok
  <2>2. /\ WellFormed(run') /\ run'.count = run.count /\ run'.disturbed = run.disturbed
        /\ run'.failed = (run.failed \/ ~ok) /\ run'.pc = "restore"
        /\ run'.before = run.before
    BY <1>0, <2>1 DEF WellFormed
  <2>3. /\ ChainTypeOK' /\ answer' = answer /\ expiries' = expiries
        /\ commitments' = commitments
    BY <1>0, <2>1, SameChain DEF chainVars
  <2>4. OracleOK(R)'
    BY <1>0, <2>1, <2>2, <2>3 DEF OracleOK, BeforeDoubling
  <2>5. ASSUME ~run.disturbed PROVE Expected'
    <3>1. ~run.failed /\ answer = 2 * run.before /\ run.base = LabelPrice(label, run.before)
      BY <1>0, <2>1, <2>5 DEF Expected
    <3>2. run.before \in R[run.count - 1] /\ run.before \in R[run.count]
      BY <1>0, <1>1, <2>1 DEF OracleOK
    <3>3. run.before \in Nat \ {0}
      BY <1>1, <1>2, <3>2
    <3>4. LabelPrice(label, run.before) >= 100
      BY <1>1, <3>2 DEF DearEnough, label
    <3>5. ok
      BY <1>1, <3>1, <3>3, <3>4, HalvedPrice DEF ok
    <3> QED
      BY <2>2, <3>1, <3>5 DEF Expected
  <2> QED
    BY <1>0, <2>2, <2>3, <2>4, <2>5, StepKeeps
<1>7. CASE RestoreAnswer
  <2>1. /\ run.pc = "restore" /\ run' = [run EXCEPT !.pc = "restored"]
        /\ SetAnswer(run.before)
    BY <1>7 DEF RestoreAnswer, Goto
  <2>2. /\ WellFormed(run') /\ run'.count = run.count /\ run'.disturbed = run.disturbed
        /\ run'.failed = run.failed /\ run'.pc = "restored" /\ run'.before = run.before
    BY <1>0, <2>1 DEF WellFormed
  <2>3. /\ ChainTypeOK' /\ answer' = run.before /\ expiries' = expiries
        /\ commitments' = commitments
    BY <1>0, <2>1, SetAnswerFacts
  <2>4. OracleOK(R)'
    BY <1>0, <1>1, <2>1, <2>2, <2>3 DEF OracleOK, BeforeDoubling
  <2>5. ASSUME ~run.disturbed PROVE Expected'
    BY <1>0, <2>1, <2>2, <2>3, <2>5 DEF Expected
  <2> QED
    BY <1>0, <2>2, <2>3, <2>4, <2>5, StepKeeps
<1>8. CASE CheckRestored
  <2>1. PICK pc \in {"withdraw", "ended"} :
          /\ run.pc = "restored" /\ UNCHANGED chainVars
          /\ run' = [run EXCEPT !.pc = pc, !.failed = run.failed \/ ~(answer = run.before)]
    BY <1>0, <1>8 DEF CheckRestored, Check, WellFormed
  <2>2. /\ WellFormed(run') /\ run'.count = run.count /\ run'.disturbed = run.disturbed
        /\ run'.failed = (run.failed \/ ~(answer = run.before))
        /\ run'.pc \in {"withdraw", "ended"}
    BY <1>0, <2>1 DEF WellFormed
  <2>3. /\ ChainTypeOK' /\ answer' = answer /\ expiries' = expiries
        /\ commitments' = commitments
    BY <1>0, <2>1, SameChain DEF chainVars
  <2>4. OracleOK(R)'
    BY <1>0, <1>1, <2>1, <2>2, <2>3 DEF OracleOK, BeforeDoubling
  <2>5. ASSUME ~run.disturbed PROVE Expected'
    BY <1>0, <2>1, <2>2, <2>5 DEF Expected
  <2> QED
    BY <1>0, <2>2, <2>3, <2>4, <2>5, StepKeeps
<1> QED
  BY <1>4, <1>5, <1>6, <1>7, <1>8

\* The end of a run, whichever way.
LEMMA LastSteps ==
    ASSUME NEW R, Reached(R), ScriptInv(R),
           WithdrawFees \/ CheckWithdrawn \/ Throw \/ Killed
    PROVE  ScriptInv(R)'
<1> USE ScriptConstants, ControllerConstants
<1>0. /\ ChainTypeOK /\ WellFormed(run) /\ OracleOK(R) /\ (run.disturbed \/ Expected)
      /\ Running
  <2>1. Killed \/ run.pc \in {"withdraw", "withdrawn", "register", "renew"}
    BY DEF WithdrawFees, CheckWithdrawn, Throw
  <2> QED
    BY <2>1 DEF ScriptInv, RunOK, Running, Killed
<1>1. CASE WithdrawFees
  <2>1. /\ run.pc = "withdraw" /\ run' = [run EXCEPT !.pc = "withdrawn"]
        /\ Withdraw(CONTROLLER)
    BY <1>1 DEF WithdrawFees, Goto
  <2>2. /\ WellFormed(run') /\ run'.count = run.count /\ run'.disturbed = run.disturbed
        /\ run'.failed = run.failed /\ run'.pc = "withdrawn"
    BY <1>0, <2>1 DEF WellFormed
  <2>3. /\ ChainTypeOK' /\ answer' = answer /\ expiries' = expiries
        /\ commitments' = commitments /\ balances'[CONTROLLER] = 0
    BY <1>0, <2>1, WithdrawFacts
  <2>4. OracleOK(R)'
    BY <1>0, <2>1, <2>2, <2>3 DEF OracleOK, BeforeDoubling
  <2>5. ASSUME ~run.disturbed PROVE Expected'
    BY <1>0, <2>1, <2>2, <2>3, <2>5 DEF Expected
  <2> QED
    BY <1>0, <2>2, <2>3, <2>4, <2>5, StepKeeps
<1>2. CASE CheckWithdrawn
  <2>1. /\ run.pc = "withdrawn" /\ UNCHANGED chainVars
        /\ run' = [run EXCEPT !.pc = "ended",
                              !.failed = run.failed \/ ~(balances[CONTROLLER] = 0)]
    BY <1>0, <1>2 DEF CheckWithdrawn, Check, WellFormed
  <2>2. /\ WellFormed(run') /\ run'.count = run.count /\ run'.disturbed = run.disturbed
        /\ run'.failed = (run.failed \/ ~(balances[CONTROLLER] = 0)) /\ run'.pc = "ended"
    BY <1>0, <2>1 DEF WellFormed
  <2>3. /\ ChainTypeOK' /\ answer' = answer /\ expiries' = expiries
        /\ commitments' = commitments
    BY <1>0, <2>1, SameChain DEF chainVars
  <2>4. OracleOK(R)'
    BY <1>0, <2>1, <2>2, <2>3 DEF OracleOK, BeforeDoubling
  <2>5. ASSUME ~run.disturbed PROVE Expected'
    BY <1>0, <2>1, <2>2, <2>5 DEF Expected
  <2> QED
    BY <1>0, <2>2, <2>3, <2>4, <2>5, StepKeeps
<1>3. CASE Throw \/ Killed
  <2>1. PICK pc \in {"threw", "killed"} : run' = Process(pc, run.count) /\ UNCHANGED chainVars
    BY <1>3 DEF Throw, Killed
  <2>2. /\ WellFormed(run') /\ run'.count = run.count
        /\ ~run'.failed /\ run'.pc \in {"threw", "killed"}
    BY <2>1 DEF WellFormed, Process
  <2>3. /\ ChainTypeOK' /\ answer' = answer /\ expiries' = expiries
        /\ commitments' = commitments
    BY <1>0, <2>1, SameChain DEF chainVars
  <2>4. OracleOK(R)'
    BY <1>0, <2>2, <2>3 DEF OracleOK, BeforeDoubling
  <2>5. Expected'
    BY <2>2 DEF Expected
  <2>6. RunOK'
    BY <2>2 DEF ScriptInv, RunOK, Running
  <2>7. LabelsFresh'
    BY <1>0, <2>2, <2>3, StaysFresh
  <2> QED
    BY <2>3, <2>4, <2>5, <2>6, <2>7 DEF ScriptInv
<1> QED
  BY <1>1, <1>2, <1>3

\* A run begins with a label nobody has asked for.
LEMMA StartStep ==
    ASSUME NEW R, Reached(R), ScriptInv(R), Start
    PROVE  ScriptInv(R)'
<1> USE ScriptConstants, ControllerConstants
<1> DEFINE next == run.count + 1
           id == Labels[next]
<1>1. /\ ChainTypeOK /\ OracleOK(R) /\ LabelsFresh /\ run.count \in 0 .. Len(Labels)
      /\ run.count < Len(Labels) /\ next \in DOMAIN Labels /\ next \in Nat
      /\ now \in Nat /\ StartTime <= now
  BY RunFacts DEF ScriptInv, RunOK, Start
<1>2. /\ id \in Names /\ Request(id) \in Registrations /\ expiries[id] = 0
  BY <1>1 DEF LabelsFresh
<1>3. Available(id)
  BY <1>1, <1>2 DEF Available
<1>4. /\ Commit(Request(id)) /\ UNCHANGED <<marketVars, primary>>
      /\ run' = [Process("price", next) EXCEPT !.failed = ~Available(id)]
  BY DEF Start
<1>5. /\ WellFormed(run') /\ run'.count = next /\ run'.pc = "price" /\ ~run'.failed
  BY <1>3, <1>4 DEF WellFormed, Process
<1> HIDE DEF id
<1>6. /\ ChainTypeOK' /\ answer' = answer /\ expiries' = expiries
      /\ \A other \in Registrations \ {Request(id)} : commitments'[other] = commitments[other]
  BY <1>1, <1>2, <1>4, CommitFacts
<1>7. RunOK'
  BY <1>1, <1>5 DEF RunOK
<1>8. OracleOK(R)'
  <2>1. run.count \in Nat /\ next - 1 = run.count
    BY <1>1
  <2>2. answer \in R[run.count] /\ R[run.count] \subseteq R[next]
    BY <1>1, <2>1 DEF OracleOK, Reached
  <2> QED
    BY <1>5, <1>6, <2>1, <2>2 DEF OracleOK
<1>9. LabelsFresh'
  <2> SUFFICES ASSUME NEW i \in DOMAIN Labels, i > next
               PROVE  expiries'[Labels[i]] = 0 /\ commitments'[Request(Labels[i])] = 0
    BY <1>5 DEF LabelsFresh
  <2>1. i # next /\ i > run.count
    BY <1>1
  <2>2. Request(Labels[i]) \in Registrations \ {Request(id)}
    BY <1>1, <2>1, LabelsDiffer DEF id
  <2> QED
    BY <1>1, <1>6, <2>1, <2>2 DEF LabelsFresh
<1>10. Expected'
  <2>1. label' = id
    BY <1>5 DEF label, id
  <2> QED
    BY <1>2, <1>5, <1>6, <2>1 DEF Expected
<1> QED
  BY <1>6, <1>7, <1>8, <1>9, <1>10 DEF ScriptInv

\* What an act of others can do to the label of the run: nothing, renew it, or register
\* it for the registrant, who committed to it.
LabelUntouched ==
    /\ expiries'[label] = expiries[label] /\ commitments'[Request(label)] = commitments[Request(label)]
    /\ tokenOwner'[label] = tokenOwner[label] /\ records'[label] = records[label]

LabelRenewed ==
    /\ expiries[label] > 0 /\ expiries'[label] \in Nat /\ expiries'[label] >= expiries[label]
    /\ commitments'[Request(label)] = commitments[Request(label)]
    /\ tokenOwner'[label] = tokenOwner[label] /\ records'[label] = records[label]

LabelSold ==
    /\ expiries'[label] = now + MIN_REGISTRATION_DURATION /\ commitments'[Request(label)] = 0
    /\ tokenOwner'[label] = TESTER
    /\ records'[label].owner = TESTER /\ records'[label].resolver = RESOLVER

LEMMA OthersAndTheLabel ==
    ASSUME NEW R, Reached(R), ScriptInv(R), Running, Others
    PROVE  /\ now' = now /\ balances'[TESTER] = balances[TESTER]
           /\ LabelUntouched \/ LabelRenewed \/ LabelSold
<1> USE ScriptConstants, ControllerConstants
<1>1. /\ ChainTypeOK /\ answer \in Nat \ {0} /\ now \in Nat
      /\ run.count \in DOMAIN Labels /\ label \in Names /\ Request(label) \in Registrations
      /\ expiries[label] \in Nat
  BY RunFacts DEF ScriptInv
<1>2. /\ Request(label).id = label /\ Request(label).owner = TESTER
      /\ Request(label).duration = MIN_REGISTRATION_DURATION
      /\ Request(label).resolver = RESOLVER
  BY DEF Request
<1> DEFINE Fate == /\ now' = now /\ balances'[TESTER] = balances[TESTER]
                   /\ LabelUntouched \/ LabelRenewed \/ LabelSold
<1>3. ASSUME NEW sender \in Senders \ {TESTER}, NEW value, NEW r \in Registrations,
             Buy(sender, r, value)
      PROVE  Fate
  <2>1. /\ now' = now /\ commitments'[r] = 0
        /\ expiries'[r.id] = now + r.duration
        /\ tokenOwner'[r.id] = r.owner /\ records'[r.id].owner = r.owner
        /\ r.resolver # NoAddr => records'[r.id].resolver = r.resolver
        /\ \A other \in Registrations \ {r} : commitments'[other] = commitments[other]
        /\ \A id \in Names \ {r.id} : /\ expiries'[id] = expiries[id]
                                      /\ tokenOwner'[id] = tokenOwner[id]
                                      /\ records'[id] = records[id]
        /\ \A other \in Payers \ {sender, CONTROLLER} : balances'[other] = balances[other]
    BY <1>1, <1>3, BuyFacts
  <2>2. balances'[TESTER] = balances[TESTER]
    BY <1>3, <2>1
  <2>3. CASE r.id = label
    <3>1. r = Request(label)
      BY <1>1, <2>3 DEF label
    <3>2. LabelSold
      BY <1>2, <2>1, <3>1 DEF LabelSold
    <3> QED
      BY <2>1, <2>2, <3>2
  <2>4. CASE r.id # label
    <3>1. r # Request(label)
      BY <1>2, <2>4
    <3>2. LabelUntouched
      BY <1>1, <2>1, <2>4, <3>1 DEF LabelUntouched
    <3> QED
      BY <2>1, <2>2, <3>2
  <2> QED
    BY <2>3, <2>4
<1>4. ASSUME NEW sender \in Senders \ {TESTER}, NEW value, NEW id \in Names,
             NEW duration \in Durations, PaidRenew(sender, id, duration, value)
      PROVE  Fate
  <2>1. duration \in Nat
    BY <1>4
  <2>2. /\ now' = now /\ commitments' = commitments
        /\ expiries[id] > 0 /\ expiries'[id] = expiries[id] + duration
        /\ \A other \in Names \ {id} : expiries'[other] = expiries[other]
        /\ tokenOwner' = tokenOwner /\ records' = records
        /\ \A other \in Payers \ {sender, CONTROLLER} : balances'[other] = balances[other]
    BY <1>1, <1>4, <2>1, RenewFacts
  <2>3. balances'[TESTER] = balances[TESTER]
    BY <1>4, <2>2
  <2>4. CASE id = label
    BY <1>1, <2>1, <2>2, <2>3, <2>4 DEF LabelRenewed
  <2>5. CASE id # label
    BY <1>1, <2>2, <2>3, <2>5 DEF LabelUntouched
  <2> QED
    BY <2>4, <2>5
<1>5. ASSUME NEW r \in Registrations \ {Request(Labels[i]) : i \in DOMAIN Labels},
             Commit(r), UNCHANGED marketVars
      PROVE  Fate
  <2>1. /\ now' = now /\ expiries' = expiries /\ tokenOwner' = tokenOwner
        /\ records' = records /\ balances' = balances
        /\ \A other \in Registrations \ {r} : commitments'[other] = commitments[other]
    BY <1>1, <1>5, CommitFacts
  <2>2. Request(label) \in Registrations \ {r}
    BY <1>1, <1>5 DEF label
  <2> QED
    BY <2>1, <2>2 DEF LabelUntouched
<1>6. ASSUME NEW value \in Answers, SetAnswer(value) PROVE Fate
  BY <1>1, <1>6, SetAnswerFacts DEF LabelUntouched
<1>7. ASSUME Withdraw(CONTROLLER) PROVE Fate
  <2>1. TESTER \in Payers \ {CONTROLLER, OWNER}
    OBVIOUS
  <2> QED
    BY <1>1, <1>7, <2>1, WithdrawFacts DEF LabelUntouched
<1>8. Fate
  <2> HIDE DEF Fate
  <2> QED
    BY <1>3, <1>4, <1>5, <1>6, <1>7 DEF Others
<1> QED
  BY <1>8

\* An act of others that does not disturb the run leaves what it relies on as it is.
LEMMA OthersAndChecks ==
    ASSUME NEW R, Reached(R), ScriptInv(R), Others
    PROVE  run'.disturbed \/ Expected'
<1> USE ScriptConstants, ControllerConstants
<1> SUFFICES ASSUME ~run'.disturbed PROVE Expected'
  OBVIOUS
<1>1. /\ ~run.disturbed /\ ~Disturbs
      /\ WellFormed(run') /\ run'.pc = run.pc /\ run'.count = run.count
      /\ run'.failed = run.failed /\ run'.total = run.total /\ run'.balance = run.balance
      /\ run'.expiry = run.expiry /\ run'.before = run.before /\ run'.base = run.base
  BY DEF Others, ScriptInv, RunOK, WellFormed
<1>2. Expected
  BY <1>1 DEF ScriptInv
<1>3. primary' = primary /\ label' = label
  BY <1>1 DEF Others, label
<1>4. CASE ~Running
  BY <1>1, <1>2, <1>4 DEF Running, Expected
<1>5. CASE Running
  <2>1. /\ now' = now /\ balances'[TESTER] = balances[TESTER]
        /\ LabelUntouched \/ LabelRenewed \/ LabelSold
    BY <1>5, OthersAndTheLabel
  <2>2. /\ run.pc \in {"renew", "renewed"} => expiries'[label] = expiries[label]
        /\ run.pc \in {"register", "halved", "restored"} => answer' = answer
        /\ run.pc = "withdrawn" => balances'[CONTROLLER] = balances[CONTROLLER]
    BY <1>1 DEF Disturbs
  <2>3. Request(label') = Request(label)
    BY <1>3
  <2>4. run.pc = "price" => expiries'[label] = 0 \/ commitments'[Request(label)] = 0
    BY <1>2, <2>1 DEF Expected, LabelUntouched, LabelRenewed, LabelSold
  <2>5. run.pc = "register" =>
          \/ commitments'[Request(label)] = 0
          \/ /\ expiries'[label] = 0
             /\ run.total \in Nat /\ run.total >= 100
             /\ run.balance = balances'[TESTER]
             /\ LabelPrice(label, answer') + AttoUSDToWei(PremiumUSD(0, now'), answer')
                  <= run.total
    BY <1>2, <2>1, <2>2 DEF Expected, LabelUntouched, LabelRenewed, LabelSold
  <2>6. run.pc = "registered" =>
          /\ records'[label].owner = TESTER /\ records'[label].resolver = RESOLVER
          /\ tokenOwner'[label] = TESTER
          /\ expiries'[label] >= StartTime + MIN_REGISTRATION_DURATION
    <3>1. StartTime <= now /\ now \in Nat /\ expiries[label] \in Nat
      BY <1>5, RunFacts
    <3> QED
      BY <1>2, <2>1, <3>1 DEF Expected, LabelUntouched, LabelRenewed, LabelSold
  <2> QED
    BY <1>1, <1>2, <1>3, <2>1, <2>2, <2>3, <2>4, <2>5, <2>6 DEF Expected
<1> QED
  BY <1>4, <1>5

\* Whatever the others do, they neither buy nor renew the label of a run to come:
\* nobody asks for it, and it was never registered.
LEMMA OthersStep ==
    ASSUME NEW R, Reached(R), ScriptInv(R), Others
    PROVE  ScriptInv(R)'
<1> USE ScriptConstants, ControllerConstants
<1>1. /\ ChainTypeOK /\ WellFormed(run) /\ OracleOK(R) /\ LabelsFresh
      /\ run.count \in Nat /\ answer \in Nat \ {0} /\ now \in Nat
  BY RunFacts DEF ScriptInv, RunOK
<1>2. /\ WellFormed(run') /\ run'.pc = run.pc /\ run'.count = run.count
      /\ run'.before = run.before
  BY <1>1 DEF Others, WellFormed
<1> DEFINE Kept == /\ ChainTypeOK' /\ answer' \in {answer} \union Answers
                   /\ \A i \in DOMAIN Labels : i > run.count =>
                        /\ expiries'[Labels[i]] = expiries[Labels[i]]
                        /\ commitments'[Request(Labels[i])] = commitments[Request(Labels[i])]
<1>3. ASSUME NEW sender \in Senders, NEW value, NEW r \in Registrations, Buy(sender, r, value)
      PROVE  Kept
  <2>1. /\ ChainTypeOK' /\ answer' = answer /\ commitments[r] > 0
        /\ \A other \in Registrations \ {r} : commitments'[other] = commitments[other]
        /\ \A id \in Names \ {r.id} : expiries'[id] = expiries[id]
    BY <1>1, <1>3, BuyFacts
  <2>2. ASSUME NEW i \in DOMAIN Labels, i > run.count
        PROVE  r # Request(Labels[i]) /\ r.id # Labels[i]
    <3>1. commitments[Request(Labels[i])] = 0
      BY <1>1, <2>2 DEF LabelsFresh
    <3>2. r # Request(Labels[i])
      BY <2>1, <3>1
    <3> QED
      BY <1>3, <2>2, <3>2
  <2>3. ASSUME NEW i \in DOMAIN Labels
        PROVE  Request(Labels[i]) \in Registrations /\ Labels[i] \in Names
    BY <2>3
  <2> QED
    BY <2>1, <2>2, <2>3
<1>4. ASSUME NEW sender \in Senders, NEW value, NEW id \in Names, NEW duration \in Durations,
             PaidRenew(sender, id, duration, value)
      PROVE  Kept
  <2>1. /\ ChainTypeOK' /\ answer' = answer /\ commitments' = commitments /\ expiries[id] > 0
        /\ \A other \in Names \ {id} : expiries'[other] = expiries[other]
    <3>1. duration \in Nat
      OBVIOUS
    <3> QED
      BY <1>1, <1>4, <3>1, RenewFacts
  <2>2. ASSUME NEW i \in DOMAIN Labels, i > run.count
        PROVE  Labels[i] \in Names \ {id}
    <3>1. expiries[Labels[i]] = 0 /\ Labels[i] \in Names
      BY <1>1, <2>2 DEF LabelsFresh
    <3> QED
      BY <2>1, <3>1
  <2> QED
    BY <2>1, <2>2
<1>5. ASSUME NEW r \in Registrations \ {Request(Labels[i]) : i \in DOMAIN Labels},
             Commit(r), UNCHANGED marketVars
      PROVE  Kept
  <2>1. /\ ChainTypeOK' /\ answer' = answer /\ expiries' = expiries
        /\ \A other \in Registrations \ {r} : commitments'[other] = commitments[other]
    BY <1>1, <1>5, CommitFacts
  <2>2. ASSUME NEW i \in DOMAIN Labels PROVE Request(Labels[i]) \in Registrations \ {r}
    BY <1>5
  <2> QED
    BY <2>1, <2>2
<1>6. ASSUME NEW value \in Answers, SetAnswer(value) PROVE Kept
  BY <1>1, <1>6, SetAnswerFacts
<1>7. ASSUME Withdraw(CONTROLLER) PROVE Kept
  BY <1>1, <1>7, WithdrawFacts
<1>8. Kept
  <2> HIDE DEF Kept
  <2> QED
    BY <1>3, <1>4, <1>5, <1>6, <1>7 DEF Others
<1>9. OracleOK(R)'
  <2>1. /\ Answers \subseteq R[run.count]
        /\ run.count > 0 => Answers \subseteq R[run.count - 1]
    <3>1. run.count > 0 => run.count - 1 \in Nat
      BY <1>1
    <3> QED
      BY <1>1, <3>1 DEF Reached
  <2>2. run.pc \in BeforeDoubling => run.count > 0
    BY DEF ScriptInv, RunOK, Running, BeforeDoubling
  <2> QED
    BY <1>1, <1>2, <1>8, <2>1, <2>2 DEF OracleOK
<1>10. RunOK'
  BY <1>2 DEF ScriptInv, RunOK, Running
<1>11. LabelsFresh'
  BY <1>1, <1>2, <1>8 DEF LabelsFresh
<1>12. run'.disturbed \/ Expected'
  BY OthersAndChecks
<1> QED
  BY <1>2, <1>8, <1>9, <1>10, <1>11, <1>12 DEF ScriptInv

\* Time makes a name no dearer.
LEMMA QuietSteps ==
    ASSUME NEW R, Reached(R), ScriptInv(R), TimePasses \/ UNCHANGED verificationStateVars
    PROVE  ScriptInv(R)'
<1> USE ScriptConstants, ControllerConstants
<1>1. /\ ChainTypeOK /\ OracleOK(R) /\ LabelsFresh /\ RunOK
      /\ answer \in Nat \ {0} /\ now \in Nat /\ GRACE_PERIOD <= now
  BY RunFacts DEF ScriptInv
<1>2. /\ run' = run /\ primary' = primary /\ answer' = answer /\ balances' = balances
      /\ expiries' = expiries /\ commitments' = commitments /\ records' = records
      /\ tokenOwner' = tokenOwner
  BY DEF TimePasses, Tick, verificationStateVars, verificationVars, marketStateVars,
         controllerStateVars, registrarStateVars, registryVars, registrarVars, tokenVars,
         controllerVars, marketVars
<1>3. ChainTypeOK' /\ now' \in {now, now + 1}
  BY <1>1, TickFacts, SameChain DEF verificationStateVars
<1>4. OracleOK(R)' /\ LabelsFresh' /\ RunOK'
  BY <1>1, <1>2 DEF OracleOK, LabelsFresh, RunOK, Running
<1>5. ASSUME Expected PROVE Expected'
  <2>1. label' = label
    BY <1>2 DEF label
  <2>2. ASSUME run.pc = "register", commitments[Request(label)] # 0
        PROVE  LabelPrice(label, answer) + AttoUSDToWei(PremiumUSD(0, now'), answer) <= run.total
    <3> DEFINE before == AttoUSDToWei(PremiumUSD(0, now), answer)
               after == AttoUSDToWei(PremiumUSD(0, now'), answer)
    <3>1. LabelPrice(label, answer) + before <= run.total /\ run.total \in Nat
          /\ expiries[label] = 0 /\ Running
      BY <1>5, <2>2 DEF Expected, Running
    <3>2. LabelPrice(label, answer) \in Nat /\ before \in Nat
      BY <1>1, <3>1, FreshPrice, RunFacts
    <3>3. after \in Nat /\ after <= before
      <4>1. CASE now' = now
        BY <3>2, <4>1
      <4>2. CASE now' = now + 1
        <5>1. after <= before
          BY <1>1, <4>2, PremiumFallsWithTime
        <5>2. PremiumUSD(0, now + 1) \in Nat
          BY <1>1, PremiumIs, 0 \in Nat, now + 1 \in Nat
        <5>3. PremiumUSD(0, now + 1) * AnswerUnit \in Nat
          BY <5>2, Product, MarketConstants
        <5>4. after \in Nat
          BY <1>1, <4>2, <5>3, Division DEF AttoUSDToWei
        <5> QED
          BY <5>1, <5>4
      <4> QED
        BY <1>3, <4>1, <4>2
    <3> HIDE DEF before, after
    <3>4. LabelPrice(label, answer) + after <= run.total
      BY <3>1, <3>2, <3>3
    <3> QED
      BY <3>4 DEF after
  <2>3. Request(label') = Request(label)
    BY <2>1
  <2> QED
    BY <1>2, <1>5, <2>1, <2>2, <2>3 DEF Expected
<1> QED
  BY <1>2, <1>3, <1>4, <1>5 DEF ScriptInv

LEMMA ScriptInvStep ==
    ASSUME NEW R, Reached(R), DearEnough(R),
           MaxTime < StartTime + MIN_REGISTRATION_DURATION,
           ScriptInv(R), [VerificationNext]_verificationStateVars
    PROVE  ScriptInv(R)'
BY SaleSteps, RenewalSteps, DrillSteps, LastSteps, StartStep, OthersStep, QuietSteps
   DEF VerificationNext, ScriptStep

\* The script raises no false alarm, for any number of runs, wherever they are cut,
\* unless an act of the others falls between two steps that ChecksHold names: provided
\* the script is over before the name it bought expires, and no answer the runs can
\* leave in the oracle makes a label almost free.
THEOREM NoFalseAlarms ==
    ASSUME NEW CONSTANT R, Reached(R), DearEnough(R),
           MaxTime < StartTime + MIN_REGISTRATION_DURATION
    PROVE  VerificationSpec => []ChecksHold
<1>1. MarketStart /\ VerificationInit => ScriptInv(R)
  BY ScriptInvInit
<1>2. ScriptInv(R) /\ [VerificationNext]_verificationStateVars => ScriptInv(R)'
  BY ScriptInvStep
<1>3. ScriptInv(R) => ChecksHold
  BY DEF ScriptInv, Expected, ChecksHold
<1> QED
  BY <1>1, <1>2, <1>3, PTL DEF VerificationSpec
================================================================================
