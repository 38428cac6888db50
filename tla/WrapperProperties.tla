--------------------------- MODULE WrapperProperties ---------------------------
(***************************************************************************)
(* What the wrapper, with the registrar and the registry around it, keeps  *)
(* true.  A bystander is an address that may be given names and never      *)
(* sends a transaction: what others can do to it is what the code lets     *)
(* them do.                                                                *)
(***************************************************************************)
EXTENDS NameWrapper

Bystanders == (Targets \intersect Receivers) \ Senders
Subnodes == Nodes \ {ROOT, ETN}
Burned(n, fuse) == fuse \in Data(n).fuses
Emancipated(n) == Burned(n, PARENT_CANNOT_CONTROL)
Locked(n) == Burned(n, CANNOT_UNWRAP)
Protected(n) == Locked(n) \/ (Emancipated(n) /\ Data(n).owner # NoAddr)
Held(n) == /\ records[n].owner = WRAPPER
           /\ n \in Names => tokenOwner[n] = WRAPPER

\* A permission is given up only on a name that is emancipated and cannot be
\* unwrapped; the stored word obeys this even while it is expired, because
\* renew() brings an expired word back.
FuseInvariant ==
    \A n \in Nodes : CanFusesBeBurned(tokens[n].fuses)

\* No name outlives its parent, not even through renewals, re-registrations,
\* burned tokens and re-wraps; below ROOT the bound is uint64's.
ExpiryHierarchy ==
    \A n \in Nodes \ {ROOT} : tokens[n].expiry <= tokens[Parent[n]].expiry

\* The promise of the fuses: as long as a name is emancipated its parent stays
\* locked, so nobody can unwrap the parent and reach the name from above.
EmancipatedUnderLocked ==
    \A n \in Nodes \ {ROOT} : Emancipated(n) => Locked(Parent[n])

\* An emancipated name with an owner, and every locked name, is in the wrapper's
\* hands in the registry and, for a .etn name, in the registrar, through the
\* end of its registration and the grace period.
ProtectedIsHeld == \A n \in Subnodes : Protected(n) => Held(n)

\* A wrapped .etn name never outlives its registration and grace period.
RegistrationCoversToken ==
    \A n \in Names : tokens[n].expiry <= expiries[n] + GRACE_PERIOD

\* Fuses cannot be unset before the expiry, by no sequence of burning, deleting,
\* unwrapping, re-wrapping and re-creating the name.
FusesStayBurned ==
    [][\A n \in Nodes : tokens[n].expiry >= now => tokens[n].fuses \subseteq tokens'[n].fuses]_vars

\* An expiry is never brought forward.
TokenExpiryNeverShortened ==
    [][\A n \in Nodes : tokens'[n].expiry >= tokens[n].expiry]_vars

\* Nobody but its owner touches a wrapped name that is emancipated, or whose
\* parent is and belongs to a bystander too: token, fuses and registry record of
\* a bystander stay as they are, whatever the parent, earlier owners, approved
\* renewal managers and the registrar's customers do.  Extending it is allowed.
OutOfReach(n) ==
    /\ IsWrapped(n) /\ Data(n).owner \in Bystanders
    /\ \/ Emancipated(n)
       \/ /\ Parent[n] \in Subnodes /\ Emancipated(Parent[n])
          /\ Data(Parent[n]).owner \in Bystanders

BystanderIsSafe ==
    [][\A n \in Subnodes :
         OutOfReach(n) => /\ tokens'[n].owner = tokens[n].owner
                          /\ tokens'[n].fuses \in {tokens[n].fuses, Data(n).fuses}
                          /\ records'[n] = records[n]]_vars

\* From the registration's end to the end of the grace period a wrapped name is
\* frozen: its owner cannot move it, burn fuses, or change its record.
GraceFreezesName ==
    [][\A n \in Names :
         Data(n).owner # NoAddr /\ InGracePeriod(Data(n))
         => /\ tokens'[n].owner = tokens[n].owner
            /\ tokens'[n].fuses = tokens[n].fuses
            /\ records'[n] = records[n]
            /\ tokenOwner'[n] = tokenOwner[n]]_vars

(***************************************************************************)
(* The documented lifecycle of a name                                      *)
(***************************************************************************)
\* The state is read off the registry and the token as the documentation says.
StateOf(n) ==
    IF Locked(n) THEN "Locked"
    ELSE IF IsWrapped(n) THEN IF Emancipated(n) THEN "Emancipated" ELSE "Wrapped"
    ELSE IF Owner(n) \in {NoAddr, WRAPPER} THEN "Unregistered" ELSE "Unwrapped"

Lifecycle == INSTANCE NameLifecycle
    WITH state <- [n \in Nodes |-> StateOf(n)], Permanent <- {ROOT, ETN}

\* Every behaviour of the wrapper, the registrar and the registry is one of the
\* documented state machine: each transaction and each block moves the names as
\* NameLifecycle allows.
LifecycleSpec == Lifecycle!Spec

(***************************************************************************)
(* The inductive invariant behind the safety properties                    *)
(***************************************************************************)
TypeOK == RegistryTypeOK /\ RegistrarTypeOK /\ WrapperTypeOK

\* Nobody can act on the root or the TLD, through any of the contracts.
TLDsHeld ==
    /\ records[ROOT].owner = InitialOwner[ROOT] /\ records[ETN].owner = REGISTRAR
    /\ tokens[ROOT] = LockedForEver /\ tokens[ETN] = LockedForEver

\* Approvals come from accounts that send transactions; the wrapper's own go to
\* its upgrade contract, and none is left on a token it holds.
DelegationsKnown ==
    LET known == (Senders \X Addresses) \union ({WRAPPER} \X (Addresses \ Senders)) IN
    /\ operators \subseteq known
    /\ tokenOperators \subseteq known
    /\ wrapperOperators \subseteq Senders \X Addresses
    /\ \A id \in Names : tokenOwner[id] = WRAPPER => tokenApproved[id] = NoAddr

\* The expiry of a .etn name is the registrar's business alone.
OnlyRenewed == \A n \in Names : CAN_EXTEND_EXPIRY \notin tokens[n].fuses

\* A token is a .etn name's only as an emancipated one, so a transfer in the grace
\* period, which counts it as expired, finds no owner to take it from.
DotEthIsEmancipated ==
    \A n \in Nodes : IS_DOT_ETH \in tokens[n].fuses => PARENT_CANNOT_CONTROL \in tokens[n].fuses

WrapperInv ==
    /\ TypeOK
    /\ TLDsHeld
    /\ DelegationsKnown
    /\ OnlyRenewed
    /\ DotEthIsEmancipated
    /\ FuseInvariant
    /\ RegistrationCoversToken
    /\ ExpiryHierarchy
    /\ EmancipatedUnderLocked
    /\ ProtectedIsHeld
================================================================================
