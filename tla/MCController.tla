------------------------------ MODULE MCController ------------------------------
(***************************************************************************)
(* The controller on top of the registrar: two names, alice who deals and  *)
(* whose contracts may be called back, and a bystander she buys for.       *)
(***************************************************************************)
EXTENDS ETHRegistrarController

CONSTANTS alice, bystander, root, controller, registry, resolver, nobody, registrar
CONSTANTS rootNode, etn, name, other

MCNodes == {rootNode, etn, name, other}
MCParent == [n \in {etn, name, other} |-> IF n = etn THEN rootNode ELSE etn]
MCAddresses == {alice, bystander, root, controller, registry, resolver, nobody, registrar}
MCInitialOwner == [n \in MCNodes |-> IF n = rootNode THEN root
                                     ELSE IF n = etn THEN registrar ELSE nobody]
MCNoPairs == {}

Request(id, owner, duration, resolverArg, data) ==
    [id |-> id, owner |-> owner, duration |-> duration, resolver |-> resolverArg,
     data |-> data]

\* One name bought twice over, and another while the first is under way; one
\* request is too short.
MCRegistrations ==
    {Request(name, alice, 1, resolver, TRUE), Request(name, bystander, 1, resolver, FALSE),
     Request(name, alice, 0, nobody, FALSE), Request(other, bystander, 2, resolver, TRUE)}
================================================================================
