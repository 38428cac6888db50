---------------------------- MODULE MCBaseRegistrar ----------------------------
(***************************************************************************)
(* The registrar on top of the registry: one .etn name, an account that    *)
(* does everything the code lets it do, the root owner, who may take the   *)
(* .etn node away, and a bystander who is given things and never acts.     *)
(***************************************************************************)
EXTENDS RegistrarProperties

CONSTANTS alice, bystander, root, controller, registry, resolver, nobody, registrar
CONSTANTS rootNode, etn, name

MCNodes == {rootNode, etn, name}
MCParent == [n \in {etn, name} |-> IF n = etn THEN rootNode ELSE etn]
MCAddresses == {alice, bystander, root, controller, registry, resolver, nobody, registrar}
MCInitialOwner == [n \in MCNodes |-> IF n = rootNode THEN root
                                     ELSE IF n = etn THEN registrar ELSE nobody]
MCSenders == {alice, root}
MCTargets == {alice, bystander, root, nobody, registrar}
MCResolvers == {nobody}
MCNoPairs == {}
MCTokenDelegations == {<<alice, root>>}
MCDelegations == {<<root, alice>>}
================================================================================
