-------------------------------- MODULE MCMarket --------------------------------
(***************************************************************************)
(* Two accounts who buy and renew two names of different price, alone and  *)
(* in lists, while the owner moves the oracle and withdraws the takings.    *)
(***************************************************************************)
EXTENDS Market

CONSTANTS alice, bob, root, controller, static, universal, wrapper, owner, registry, registrar,
          nobody
CONSTANTS rootNode, etn, name, other

MCNodes == {rootNode, etn, name, other}
MCParent == [n \in {etn, name, other} |-> IF n = etn THEN rootNode ELSE etn]
MCAddresses == {alice, bob, root, controller, static, universal, wrapper, owner, registry,
                registrar, nobody}
MCInitialOwner == [n \in MCNodes |-> IF n = rootNode THEN root
                                     ELSE IF n = etn THEN registrar ELSE nobody]
MCNoPairs == {}

MCRegistrations ==
    {[id |-> name, owner |-> alice, duration |-> 1, resolver |-> nobody, data |-> FALSE],
     [id |-> other, owner |-> bob, duration |-> 1, resolver |-> nobody, data |-> FALSE]}

MCRentPrices == [n \in {name, other} |-> IF n = name THEN 1 ELSE 2]

\* One name, two, and one listed twice.
MCBatches == {<<name>>, <<name, other>>, <<other, other>>}
================================================================================
