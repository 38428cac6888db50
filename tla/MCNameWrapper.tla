----------------------------- MODULE MCNameWrapper -----------------------------
(***************************************************************************)
(* The wrapper with the registrar and the registry around it, on small     *)
(* name trees.  alice does everything the code lets an account do; the     *)
(* bystander is given names and never acts.                                *)
(***************************************************************************)
EXTENDS WrapperProperties

CONSTANTS alice, bob, bystander, root, seller, registry, resolver, nobody, registrar,
          wrapper, successor
CONSTANTS rootNode, etn, name, sub

MCAddresses == {alice, bob, bystander, root, seller, registry, resolver, nobody, registrar,
                wrapper, successor}

\* root / etn / name / sub.
MCParent == [n \in Nodes \ {rootNode} |-> CASE n = etn -> rootNode
                                            [] n = name -> etn
                                            [] n = sub -> name]

MCInitialOwner == [n \in Nodes |-> CASE n = rootNode -> root
                                     [] n = etn -> registrar
                                     [] OTHER -> nobody]

MCNoPairs == {}
WrapperApproved == {<<alice, wrapper>>}
AliceAndBob == {<<alice, bob>>}

NoFuses == {}
Emancipate == {PARENT_CANNOT_CONTROL}
Lock == {CANNOT_UNWRAP}
EmancipateAndLock == {PARENT_CANNOT_CONTROL, CANNOT_UNWRAP}

\* The third word lacks its prerequisite, unless the name is locked already.
OwnerWords2LD == {NoFuses, Lock, {CANNOT_APPROVE},
                  {CANNOT_TRANSFER, CANNOT_SET_RESOLVER, CANNOT_SET_TTL, CANNOT_BURN_FUSES,
                   CANNOT_UNWRAP}}

WholeFamily == {Nodes \ {rootNode, etn}}

\* The words a name's owner, and the owner of its parent, may pass.
OwnerWordsParent == {NoFuses, Lock, {CANNOT_CREATE_SUBDOMAIN, CANNOT_UNWRAP}}
ParentWords == {NoFuses, Emancipate, EmancipateAndLock, {CAN_EXTEND_EXPIRY}}
================================================================================
