------------------------ MODULE DNSRegistrarProperties ------------------------
(***************************************************************************)
(* What the owner of a name in the DNS, and the owner of a top-level       *)
(* domain, are promised by the registrar, the registry and Root together.  *)
(***************************************************************************)
EXTENDS DNSRegistrar

(***************************************************************************)
(* A name follows the newest record of the DNS: of two records claimed one *)
(* after the other the second was signed no earlier than the first, across *)
(* the wrap-around of the 32-bit times (_claim, serialNumberGte).          *)
(***************************************************************************)
NewestRecordWins ==
    [][\A n \in DNSNames : claims'[n].inception >= claims[n].inception]_vars

(***************************************************************************)
(* A locked top-level domain stays with its owner and stays locked,        *)
(* whoever owns or controls Root, disables domains or enables suffixes     *)
(* (Root.lock, Root.setSubnodeOwner), unless its owner is an account that  *)
(* gives it away itself.                                                   *)
(***************************************************************************)
LockedStays ==
    [][\A tld \in locked :
         /\ tld \in locked'
         /\ records[tld].owner \notin Senders => records'[tld] = records[tld]]_vars

(***************************************************************************)
(* Below a node the registrar holds, a name of somebody who sends nothing   *)
(* changes only by the DNS: to the owner of a signed record no older than  *)
(* the one it was claimed with (_claim, enableNode).  A suffix that is     *)
(* such a name is not taken either, and nobody else sets its resolver.     *)
(***************************************************************************)
DNSOwnerDecides ==
    [][\A n \in DNSNames :
         /\ records[Parent[n]].owner = DNS_REGISTRAR
         /\ records[n].owner \notin Senders \union {NoAddr, REGISTRY, PREVIOUS_REGISTRAR}
         => \/ records'[n] = records[n]
            \/ /\ records'[n].owner # records[n].owner
               /\ \E txt \in signed : /\ txt.name = n /\ txt.owner = records'[n].owner
                                      /\ txt.inception >= claims[n].inception]_vars
================================================================================
