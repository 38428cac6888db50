------------------------- MODULE ETHRegistrarController -------------------------
(***************************************************************************)
(* ethregistrar/ETHRegistrarController.sol: anyone buys an available name  *)
(* in two transactions, commit and, after a while, register, so that a     *)
(* purchase seen in flight cannot be overtaken.                            *)
(*                                                                         *)
(* A registration with records hands control to a resolver of the buyer's  *)
(* choice in the middle of register().  It is therefore two steps, and     *)
(* `calls' is the stack of registrations in progress: while it is not      *)
(* empty time stands still, but any contract may run, this one included.   *)
(* A call that cannot finish reverts, so only stacks that empty again are  *)
(* real histories; PendingCallsHold says that no other step is in the way. *)
(*                                                                         *)
(* A commitment is the hash of a registration and stands for it.  Prices,  *)
(* refunds, reverse records and the referrer are left out.                 *)
(***************************************************************************)
EXTENDS BaseRegistrar, Sequences

CONSTANTS
    CONTROLLER,             \* the address of this contract
    Registrations,          \* the requests callers make
    MinCommitmentAge, MaxCommitmentAge,
    MIN_REGISTRATION_DURATION,
    MaxDepth                \* bound on nested registrations

VARIABLES
    commitments,            \* the time of a commitment, 0 if there is none
    calls                   \* registrations waiting for their resolver

controllerVars == <<commitments, calls>>

ControllerAssumption ==
    /\ CONTROLLER \in InitialControllers \ (Senders \union {NoAddr})
    /\ Registrations \subseteq [id : Names, owner : Targets, duration : Nat,
                                resolver : Resolvers, data : BOOLEAN]
    /\ MinCommitmentAge \in Nat /\ MaxCommitmentAge \in Nat
    /\ MaxCommitmentAge > MinCommitmentAge      \* the constructor's check
    /\ MaxCommitmentAge <= StartTime            \* and the one on block.timestamp
    /\ MIN_REGISTRATION_DURATION \in Nat \ {0}
ASSUME ControllerAssumption

ControllerInit ==
    /\ commitments = [r \in Registrations |-> 0]
    /\ calls = <<>>

\* makeCommitment: what it refuses can be committed to, but never registered.
Acceptable(r) ==
    /\ r.data => r.resolver # NoAddr
    /\ r.duration >= MIN_REGISTRATION_DURATION

\* An unexpired commitment cannot be renewed by repeating it.
CanCommit(r) == commitments[r] + MaxCommitmentAge < now

\* Slips: any age will do; too old one block late.
OldEnough_AnyAge(r) == commitments[r] <= now
TooOld_Late(r) == commitments[r] + MaxCommitmentAge < now

OldEnough(r) == commitments[r] + MinCommitmentAge <= now
TooOld(r) == commitments[r] + MaxCommitmentAge <= now

Commit(r) ==
    /\ CanCommit(r)
    /\ commitments' = [commitments EXCEPT ![r] = now]
    /\ UNCHANGED <<registryVars, registrarVars, calls>>

\* The part of register() every registration begins with.
Consume(r) ==
    /\ Acceptable(r)
    /\ r.owner # NoAddr
    /\ CanRegister(CONTROLLER, r.id, r.duration)
    /\ OldEnough(r)
    /\ ~TooOld(r)
    /\ commitments' = [commitments EXCEPT ![r] = 0]
    /\ expiries' = [expiries EXCEPT ![r.id] = now + r.duration]
    /\ UNCHANGED <<operators, now, controllers>>

\* No records to set: the buyer ends with the token and the registry record.
RegisterPlain(r) ==
    /\ ~r.data
    /\ Consume(r)
    /\ MoveToken(r.id, r.owner)
    /\ records' = IF r.resolver = NoAddr
                  THEN WithOwner(records, r.id, r.owner)
                  ELSE WithRecord(records, r.id, r.owner, r.resolver, NoTTL)
    /\ UNCHANGED calls

\* With records: the buyer already owns the record, this contract the token,
\* when the resolver is called.
RegisterBegin(r) ==
    /\ r.data
    /\ Len(calls) < MaxDepth
    /\ Consume(r)
    /\ MoveToken(r.id, CONTROLLER)
    /\ records' = WithRecord(records, r.id, r.owner, r.resolver, NoTTL)
    /\ calls' = Append(calls, r)

\* The resolver returns and the token follows.
RegisterEnd ==
    /\ calls # <<>>
    /\ LET r == calls[Len(calls)] IN
        /\ IsApprovedOrOwner(CONTROLLER, r.id)
        /\ tokenOwner[r.id] = CONTROLLER
        /\ MoveToken(r.id, r.owner)
    /\ calls' = SubSeq(calls, 1, Len(calls) - 1)
    /\ UNCHANGED <<registryVars, now, expiries, controllers, commitments>>

ControllerRenew(id, duration) ==
    /\ Renew(CONTROLLER, id, duration)
    /\ UNCHANGED controllerVars

\* What accounts do in the registrar and the registry, this contract being the
\* only controller; no block ends inside a transaction.
OtherStep ==
    /\ \/ RegistryNext /\ UNCHANGED registrarVars
       \/ HolderStep
       \/ DelegationStep
       \/ calls = <<>> /\ Tick
    /\ UNCHANGED controllerVars

ControllerNext ==
    \/ \E r \in Registrations : Commit(r) \/ RegisterPlain(r) \/ RegisterBegin(r)
    \/ RegisterEnd
    \/ \E id \in Names, duration \in Durations : ControllerRenew(id, duration)
    \/ OtherStep

controllerStateVars == <<registrarStateVars, controllerVars>>

ControllerStart == RegistrarStart /\ ControllerInit

ControllerSpec == ControllerStart /\ [][ControllerNext]_controllerStateVars

(***************************************************************************)
(* Properties                                                              *)
(***************************************************************************)
\* The sale of a name: its registration changes hands by a new registration.
Sold(id) == Available(id) /\ expiries'[id] # expiries[id]

\* A name is only ever sold on a commitment that names the buyer and was made at
\* least the minimum age earlier: a purchase first seen in the mempool cannot be
\* overtaken.  The commitment is spent by the sale.
SoldAsCommitted ==
    [][\A id \in Names : Sold(id) =>
         \E r \in Registrations :
            /\ r.id = id
            /\ commitments[r] > 0 /\ commitments'[r] = 0
            /\ now - commitments[r] \in MinCommitmentAge .. (MaxCommitmentAge - 1)
            /\ expiries'[id] = now + r.duration
            /\ records'[id].owner = r.owner
            /\ tokenOwner'[id] \in {r.owner, CONTROLLER}]_controllerStateVars

\* A name that comes free again is sold on a commitment made after its previous
\* registration ended: no commitment is still good from before.
NoCommitmentFromBefore ==
    [][\A r \in Registrations :
         Sold(r.id) /\ commitments'[r] = 0 /\ commitments[r] > 0
         => commitments[r] > expiries[r.id]]_controllerStateVars

\* Whatever the resolver does when it is called, nested purchases included, every
\* registration in progress still holds its own token and can be completed.
PendingCallsHold ==
    /\ \A i \in 1 .. Len(calls) :
        tokenOwner[calls[i].id] = CONTROLLER /\ Unexpired(calls[i].id)
    /\ \A i, j \in 1 .. Len(calls) : calls[i].id = calls[j].id => i = j
================================================================================
