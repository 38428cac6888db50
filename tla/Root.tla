--------------------------------- MODULE Root ---------------------------------
(***************************************************************************)
(* root/Root.sol with Controllable.sol, and root/RootSecurityController.sol: *)
(* the contract that owns the root of the name tree, who may hand out       *)
(* top-level domains through it, and the lock that ends this for one of     *)
(* them.                                                                   *)
(***************************************************************************)
EXTENDS ENSRegistry

CONSTANTS
    ROOT_CONTRACT,            \* the address of Root
    SECURITY_CONTROLLER,      \* the address of RootSecurityController
    Admins,                   \* the accounts the two contracts may belong to
    InitialAdmin,             \* whom they belong to when the model starts
    InitialRootControllers,   \* the controllers set by the deployment
    ManagedRootControllers    \* the addresses setController is called with

VARIABLES
    rootOwner,        \* Root.owner()
    rootControllers,  \* Root.controllers
    locked,           \* Root.locked
    securityOwner     \* RootSecurityController.owner()

rootVars == <<rootOwner, rootControllers, locked, securityOwner>>

ASSUME RootAssumption ==
    /\ ROOT_CONTRACT \in Addresses \ Senders /\ SECURITY_CONTROLLER \in Addresses \ Senders
    /\ ROOT_CONTRACT \notin {NoAddr, REGISTRY}
    /\ InitialOwner[ROOT] = ROOT_CONTRACT
    /\ InitialAdmin \in Admins

TLDs == {n \in Nodes \ {ROOT} : Parent[n] = ROOT}

RootInit ==
    /\ rootOwner = InitialAdmin /\ securityOwner = InitialAdmin
    /\ rootControllers = InitialRootControllers
    /\ locked = {}

(***************************************************************************)
(* setSubnodeOwner() of Root, called by a controller                       *)
(***************************************************************************)
\* Slip: the lock is looked at for the owner's calls only.
RootGrants_EvenLocked(controller, tld) ==
    /\ controller \in rootControllers
    /\ tld \notin locked \/ controller # rootOwner
    /\ Authorised(ROOT, ROOT_CONTRACT)

RootGrants(controller, tld) ==
    /\ controller \in rootControllers
    /\ tld \notin locked
    /\ Authorised(ROOT, ROOT_CONTRACT)

RootSetSubnodeOwner(sender, tld, owner) ==
    /\ RootGrants(sender, tld)
    /\ records' = WithOwner(records, tld, owner)
    /\ UNCHANGED <<operators, rootVars>>

(***************************************************************************)
(* The calls of the owner of Root                                          *)
(***************************************************************************)
SetRootResolver(sender, resolver) ==
    /\ sender = rootOwner
    /\ Authorised(ROOT, ROOT_CONTRACT)
    /\ records' = WithResolver(records, ROOT, resolver)
    /\ UNCHANGED <<operators, rootVars>>

Lock(sender, tld) ==
    /\ sender = rootOwner
    /\ locked' = locked \union {tld}
    /\ UNCHANGED <<registryVars, rootOwner, rootControllers, securityOwner>>

SetRootController(sender, controller, enabled) ==
    /\ sender = rootOwner
    /\ rootControllers' = IF enabled THEN rootControllers \union {controller}
                                     ELSE rootControllers \ {controller}
    /\ UNCHANGED <<registryVars, rootOwner, locked, securityOwner>>

\* transferOwnership(), and renounceOwnership() for NoAddr.
TransferRoot(sender, to) ==
    /\ sender = rootOwner
    /\ rootOwner' = to
    /\ UNCHANGED <<registryVars, rootControllers, locked, securityOwner>>

(***************************************************************************)
(* RootSecurityController                                                  *)
(***************************************************************************)
DisableTLD(sender, tld) ==
    /\ sender = securityOwner
    /\ RootGrants(SECURITY_CONTROLLER, tld)
    /\ records' = WithResolver(WithOwner(records, tld, SECURITY_CONTROLLER), tld, NoAddr)
    /\ UNCHANGED <<operators, rootVars>>

TransferSecurity(sender, to) ==
    /\ sender = securityOwner
    /\ securityOwner' = to
    /\ UNCHANGED <<registryVars, rootOwner, rootControllers, locked>>

RootNext ==
    \E sender \in Senders :
        \/ \E tld \in TLDs :
            \/ \E owner \in Targets : RootSetSubnodeOwner(sender, tld, owner)
            \/ Lock(sender, tld)
            \/ DisableTLD(sender, tld)
        \/ \E resolver \in Resolvers : SetRootResolver(sender, resolver)
        \/ \E controller \in ManagedRootControllers, enabled \in BOOLEAN :
            SetRootController(sender, controller, enabled)
        \/ \E to \in Admins : TransferRoot(sender, to) \/ TransferSecurity(sender, to)
================================================================================
