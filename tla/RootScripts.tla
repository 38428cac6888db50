----------------------------- MODULE RootScripts -----------------------------
(***************************************************************************)
(* deploy/registry, deploy/dnssec-oracle, deploy/root and                  *)
(* deploy/dnsregistrar: one action per script, one disjunct per statement  *)
(* that writes.  A read and the write it guards are one statement when     *)
(* nobody but the running script can change what was read.                 *)
(***************************************************************************)
EXTENDS Deployment

(* registry/00_deploy_registry.ts.  The registry's constructor gives the   *)
(* root node to the account that deploys it.                               *)
DeployRegistry ==
  /\ Runs("ENSRegistry")
  /\ \/ pc = 1 /\ IF Tag("legacy") THEN Deploy("LegacyENSRegistry", << >>) ELSE Skip
     \/ pc = 2 /\ Create("ENSRegistry",
                         IF Tag("legacy") THEN <<At("LegacyENSRegistry")>> ELSE << >>,
                         SetNode("root.", Deployer))
     \/ pc = 3 /\ SendUnless(Tag("use_root") \/ chain.node["root."] # Deployer,
                             TRUE, SetNode("root.", Owner))
     \/ pc = 4 /\ Return(FALSE)

-----------------------------------------------------------------------------
(* dnssec-oracle/ *)

DeployAlgorithms ==
  /\ Runs("Algorithms")
  /\ DeployEach(<<"RSASHA1Algorithm", "RSASHA256Algorithm", "P256SHA256Algorithm">>
                  \o IF Tag("test") THEN <<"DummyAlgorithm">> ELSE << >>)

DeployDigests ==
  /\ Runs("Digests")
  /\ DeployEach(<<"SHA1Digest", "SHA256Digest">>
                  \o IF Tag("test") THEN <<"DummyDigest">> ELSE << >>)

(* What DNSSECImpl is given: the id of an algorithm or digest, and its     *)
(* contract.                                                               *)
Verifiers ==
  <<<<"algorithm 5", "RSASHA1Algorithm">>, <<"algorithm 7", "RSASHA1Algorithm">>,
    <<"algorithm 8", "RSASHA256Algorithm">>, <<"algorithm 13", "P256SHA256Algorithm">>>>
  \o (IF Tag("test") THEN <<<<"algorithm 253", "DummyAlgorithm">>,
                            <<"algorithm 254", "DummyAlgorithm">>>> ELSE << >>)
  \o <<<<"digest 1", "SHA1Digest">>, <<"digest 2", "SHA256Digest">>>>
  \o (IF Tag("test") THEN <<<<"digest 253", "DummyDigest">>>> ELSE << >>)

(* The loops skip what is already set. *)
DeployOracle ==
  /\ Runs("DNSSECImpl")
  /\ LET dnssec == At("DNSSECImpl")
         unset  == {i \in DOMAIN Verifiers :
                      Pointer(dnssec, Verifiers[i][1]) # At(Verifiers[i][2])}
         first  == CHOOSE i \in unset : \A j \in unset : i <= j
     IN  \/ pc = 1 /\ Deploy("DNSSECImpl", << >>)
         \/ pc = 2 /\ unset # {}
                   /\ Tx(OwnedBy("DNSSECImpl", Deployer),
                         SetPointer(dnssec, Verifiers[first][1], At(Verifiers[first][2])),
                         mem, 2)
         \/ pc = 2 /\ unset = {} /\ Return(FALSE)

-----------------------------------------------------------------------------
(* dnsregistrar/ *)

DeployOffchainResolver ==
  /\ Runs("OffchainDNSResolver")
  /\ \/ pc = 1 /\ Deploy("OffchainDNSResolver", <<At("ENSRegistry"), At("DNSSECImpl")>>)
     \/ pc = 2 /\ Return(FALSE)

(* 05_deploy_public_suffix_list.ts; the batches of suffixes are one here.  *)
DeployPublicSuffixList ==
  /\ Runs("SimplePublicSuffixList")
  /\ \/ pc = 1 /\ Deploy("SimplePublicSuffixList", << >>)
     \/ pc = 2 /\ HandOverIfFresh("SimplePublicSuffixList")
     \/ pc = 3 /\ Send(OwnedBy("SimplePublicSuffixList", Owner),
                       SetPointer(At("SimplePublicSuffixList"), "suffixes", Owner))
     \/ pc = 4 /\ Return(FALSE)

(* 10_deploy_dnsregistrar.ts: the first constructor argument is the        *)
(* address in the script's own record.                                     *)
DeployDNSRegistrar ==
  /\ Runs("DNSRegistrar")
  /\ \/ pc = 1 /\ Deploy("DNSRegistrar",
                         <<At("DNSRegistrar"), At("OffchainDNSResolver"), At("DNSSECImpl"),
                           At("SimplePublicSuffixList"), At("ENSRegistry")>>)
     \/ pc = 2 /\ IF ~mem.fresh THEN Return(FALSE)
                  ELSE SendUnless(~OwnedBy("Root", Owner), TRUE,
                                  AddController("Root", At("DNSRegistrar")))
     \/ pc = 3 /\ Return(FALSE)

(* DNSRegistrar.enableNode of com, as its source requires: the node is     *)
(* nobody's or belongs to the registrar named at construction.             *)
PreviousRegistrar == saved["DNSRegistrar"].args[1]
EnableNodeAllowed ==
  /\ chain.node["com."] \in {Nobody, PreviousRegistrar}
  /\ RootAllows(At("DNSRegistrar"))

(* Where the scripts look for Multicall3: at its record's address, or at   *)
(* the canonical one.                                                      *)
MulticallHasCode == At("Multicall3")[2] # 0 \/ "Multicall3" \in chain.code

(* Plausible bug: a suffix that belongs to any registrar is left alone. *)
SuffixIsSet_Any == chain.node["com."] # Nobody

SuffixIsSet == chain.node["com."] = At("DNSRegistrar")

(* 20_set_tlds.ts for all the suffixes at once; SetTlds has its workers    *)
(* and its batches.  A call to an address without code succeeds and does   *)
(* nothing.                                                                *)
EnableTlds ==
  /\ Runs("SetTlds")
  /\ \/ pc = 1 /\ IF \/ SuffixIsSet
                     \/ Pointer(At("SimplePublicSuffixList"), "suffixes") = Nobody
                     \/ ~MulticallHasCode
                  THEN Skip
                  ELSE Send(EnableNodeAllowed, SetNode("com.", At("DNSRegistrar")))
     \/ pc = 2 /\ Return(FALSE)

-----------------------------------------------------------------------------
(* root/ *)

DeployRoot ==
  /\ Runs("Root")
  /\ \/ pc = 1 /\ IF Tag("use_root") THEN Deploy("Root", <<At("ENSRegistry")>>) ELSE Return(FALSE)
     \/ pc = 2 /\ Return(FALSE)

DeployRootSecurityController ==
  /\ Runs("RootSecurityController")
  /\ \/ pc = 1 /\ IF Tag("use_root") THEN Deploy("RootSecurityController", <<At("Root")>>)
                                     ELSE Return(FALSE)
     \/ pc = 2 /\ HandOverIfFresh("RootSecurityController")
     \/ pc = 3 /\ Return(FALSE)

(* 00_setup_root.ts.  The case of the deployer falls through to that of    *)
(* the owner; any other owner of Root leaves the controllers alone.        *)
SetupRoot ==
  /\ Runs("Root:setup")
  /\ \/ pc = 1 /\ IF ~Tag("use_root") THEN Return(FALSE)
                  ELSE SendUnless(chain.node["root."] = At("Root"),
                                  chain.node["root."] = Deployer, SetNode("root.", At("Root")))
     \/ pc = 2 /\ IF OwnedBy("Root", Deployer) THEN Send(TRUE, SetOwner("Root", Owner))
                  ELSE IF OwnedBy("Root", Owner) THEN Skip ELSE Goto(5)
     \/ pc = 3 /\ SendUnless(IsController("Root", Owner), TRUE, AddController("Root", Owner))
     \/ pc = 4 /\ SendUnless(IsController("Root", At("RootSecurityController")), TRUE,
                             AddController("Root", At("RootSecurityController")))
     \/ pc = 5 /\ Return(TRUE)

RootStep ==
  \/ DeployRegistry \/ DeployAlgorithms \/ DeployDigests \/ DeployOracle
  \/ DeployOffchainResolver \/ DeployPublicSuffixList \/ DeployDNSRegistrar \/ EnableTlds
  \/ DeployRoot \/ DeployRootSecurityController \/ SetupRoot
=============================================================================
