---------------------------- MODULE MCPublicResolver ----------------------------
(***************************************************************************)
(* The resolver over the registry, the registrar, the wrapper and the      *)
(* controller: a .etn name anybody may buy and a TLD of the bystander's,   *)
(* who never acts.  alice owns names; bob is somebody she may appoint.     *)
(***************************************************************************)
EXTENDS PublicResolver

CONSTANTS alice, bob, bystander, root, controller, registry, resolver, reverse, nobody,
          registrar, wrapper
CONSTANTS rootNode, etn, name, tld
CONSTANTS empty, twentyBytes, oneByte
CONSTANTS A, TXT, www, zero
CONSTANTS eth, bitcoin

MCNodes == {rootNode, etn, name, tld}
MCParent == [n \in {etn, name, tld} |-> IF n = name THEN etn ELSE rootNode]
MCAddresses == {alice, bob, bystander, root, controller, registry, resolver, reverse, nobody,
                registrar, wrapper}
MCInitialOwner == [n \in MCNodes |-> CASE n = rootNode -> root
                                       [] n = etn -> registrar
                                       [] n = name -> nobody
                                       [] n = tld -> bystander]
NoPairs == {}
WrapperApproved == {<<alice, wrapper>>}
AliceToBob == {<<alice, bob>>}
NoFuses == {{}}

Request(owner, resolverArg, data) ==
    [id |-> name, owner |-> owner, duration |-> 1, resolver |-> resolverArg, data |-> data]

MCRegistrations == {Request(alice, resolver, TRUE), Request(bystander, nobody, FALSE)}

RR(type, noData) == [name |-> www, type |-> type, empty |-> noData]

\* Two sets of records; a deletion; one that deletes a set and writes another.
MCRRLists ==
    {<<RR(A, FALSE), RR(A, FALSE), RR(TXT, FALSE)>>, <<RR(A, TRUE)>>,
     <<RR(TXT, TRUE), RR(A, FALSE)>>}

MCWrittenKeys == {<<"addr", eth>>, <<"dns">>, <<"clear">>}

\* Written; cleared and written again; written on the node bought and on another.
MCMulticalls ==
    {<<SetAddr(name, eth, twentyBytes)>>,
     <<ClearRecords(name), SetAddr(name, eth, twentyBytes)>>,
     <<SetAddr(name, eth, twentyBytes), SetAddr(tld, eth, twentyBytes)>>}
================================================================================
