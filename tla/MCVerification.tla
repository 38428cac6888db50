----------------------------- MODULE MCVerification -----------------------------
(***************************************************************************)
(* Two runs of the verification script, beside an account that renews    *)
(* the name and an owner who moves the oracle and withdraws by hand.         *)
(***************************************************************************)
EXTENDS Verification

CONSTANTS tester, bob, root, controller, static, universal, wrapper, owner, registry, registrar,
          resolver, nobody
CONSTANTS rootNode, etn, verify1, verify2
CONSTANTS noName, ownName

MCNodes == {rootNode, etn, verify1, verify2}
MCParent == [n \in {etn, verify1, verify2} |-> IF n = etn THEN rootNode ELSE etn]
MCAddresses == {tester, bob, root, controller, static, universal, wrapper, owner, registry,
                registrar, resolver, nobody}
MCInitialOwner == [n \in MCNodes |-> IF n = rootNode THEN root
                                     ELSE IF n = etn THEN registrar ELSE nobody]
MCNoPairs == {}
MCNoBatches == {}
MCLabels == <<verify1, verify2>>

MCRegistrations == {Request(verify1), Request(verify2)}

\* 408 for a registration at the lower answer of the oracle and 400 at the higher: the
\* difference is just the margin the script leaves, and after two doublings 100 is left.
MCRentPrices == [n \in {verify1, verify2} |-> 1700]
================================================================================
