---------------------------- MODULE MCDNSRegistrar ----------------------------
(***************************************************************************)
(* A top-level domain, a suffix below it and a name below that one.  The   *)
(* administrator owns Root and its security controller, alice may own any  *)
(* node, and the bystander has a name in the DNS and sends nothing.        *)
(***************************************************************************)
EXTENDS DNSRegistrarProperties

CONSTANTS admin, alice, bystander, registry, rootContract, security, registrar, previous,
          resolver, nobody, rootNode, uk, couk, acme

MCNodes == {rootNode, uk, couk, acme}
MCParent == [n \in MCNodes \ {rootNode} |->
               IF n = uk THEN rootNode ELSE IF n = couk THEN uk ELSE couk]
MCInitialOwner == [n \in MCNodes |->
               IF n = rootNode THEN rootContract ELSE IF n = uk THEN previous ELSE nobody]
================================================================================
