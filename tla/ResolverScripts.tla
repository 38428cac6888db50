-------------------------- MODULE ResolverScripts ---------------------------
(***************************************************************************)
(* deploy/resolvers, deploy/reverseregistrar, deploy/reverseresolver,      *)
(* deploy/wrapper and deploy/utils, one action per script.                 *)
(***************************************************************************)
EXTENDS Deployment

(* resolvers/00_deploy_eth_owned_resolver.ts *)
DeployOwnedResolver ==
  /\ Runs("OwnedResolver")
  /\ \/ pc = 1 /\ Deploy("OwnedResolver", << >>)
     \/ pc = 2 /\ IF mem.fresh THEN HandOver("OwnedResolver") ELSE Skip
     \/ pc = 3 /\ SendUnless(chain.resolver["etn."] = At("OwnedResolver"),
                             /\ SecurityControllerAllows
                             /\ chain.node["etn."] = At("BaseRegistrarImplementation"),
                             SetResolver("etn.", At("OwnedResolver")))
     \/ pc = 4 /\ Return(FALSE)

DeployExtendedDNSResolver ==
  Runs("ExtendedDNSResolver") /\ DeployEach(<<"ExtendedDNSResolver">>)

DeployLegacyPublicResolver ==
  /\ Runs("LegacyPublicResolver")
  /\ \/ pc = 1 /\ IF Tag("legacy") THEN Deploy("LegacyPublicResolver", <<At("ENSRegistry")>>)
                                   ELSE Return(FALSE)
     \/ pc = 2 /\ Return(FALSE)

(* resolvers/00_deploy_public_resolver.ts; the label resolver stands for   *)
(* the node resolver.etn and, on the new resolver, for its addr record.    *)
DeployPublicResolver ==
  /\ Runs("PublicResolver")
  /\ LET resolver == At("PublicResolver")
         mine     == chain.node["resolver"] = Owner
     IN  \/ pc = 1 /\ DeployClaiming("PublicResolver",
                                     <<At("ENSRegistry"), At("NameWrapper"),
                                       At("ETHRegistrarController"), At("ReverseRegistrar")>>,
                                     chain)
         \/ pc = 2 /\ IF ~mem.fresh \/ LeavesWiring THEN Return(FALSE)
                      ELSE SendUnless(
                             Pointer(At("ReverseRegistrar"), "defaultResolver") = resolver,
                             OwnedBy("ReverseRegistrar", Owner),
                             SetPointer(At("ReverseRegistrar"), "defaultResolver", resolver))
         \/ pc = 3 /\ IF ~mine THEN Return(FALSE)
                      ELSE SendUnless(chain.resolver["resolver"] = resolver, TRUE,
                                      SetResolver("resolver", resolver))
         \/ pc = 4 /\ SendUnless(Pointer(resolver, "resolver") = resolver, mine,
                                 SetPointer(resolver, "resolver", resolver))
         \/ pc = 5 /\ Return(FALSE)

-----------------------------------------------------------------------------
(* reverseregistrar/ and reverseresolver/ *)

(* 00_deploy_reverse_registrar.ts *)
DeployReverseRegistrar ==
  /\ Runs("ReverseRegistrar")
  /\ \/ pc = 1 /\ Deploy("ReverseRegistrar", <<At("ENSRegistry")>>)
     \/ pc = 2 /\ HandOverIfFresh("ReverseRegistrar")
     \/ pc = 3 /\ IF LeavesWiring THEN Return(FALSE)
                  ELSE Send(RootAllows(Owner), SetNode("reverse.", Owner))
     \/ pc = 4 /\ Send(chain.node["reverse."] = Owner,
                       SetNode("addr.reverse.", At("ReverseRegistrar")))
     \/ pc = 5 /\ Return(TRUE)

(* 01_deploy_default_reverse_registrar.ts *)
DeployDefaultReverseRegistrar ==
  /\ Runs("DefaultReverseRegistrar")
  /\ \/ pc = 1 /\ Deploy("DefaultReverseRegistrar", << >>)
     \/ pc = 2 /\ SendUnless(Owner = Deployer \/ OwnedBy("DefaultReverseRegistrar", Owner),
                             OwnedBy("DefaultReverseRegistrar", Deployer),
                             SetOwner("DefaultReverseRegistrar", Owner))
     \/ pc = 3 /\ Return(FALSE)

(* reverseresolver/00_deploy_default_reverse_resolver.ts *)
DeployDefaultReverseResolver ==
  /\ Runs("DefaultReverseResolver")
  /\ \/ pc = 1 /\ Deploy("DefaultReverseResolver", <<At("DefaultReverseRegistrar")>>)
     \/ pc = 2 /\ IF LeavesWiring \/ ~OwnedBy("Root", Owner) THEN Return(FALSE)
                  ELSE SendUnless(chain.node["reverse."] = Owner, RootAllows(Owner),
                                  SetNode("reverse.", Owner))
     \/ pc = 3 /\ SendUnless(chain.resolver["reverse."] = At("DefaultReverseResolver"),
                             chain.node["reverse."] = Owner,
                             SetResolver("reverse.", At("DefaultReverseResolver")))
     \/ pc = 4 /\ Return(FALSE)

-----------------------------------------------------------------------------
(* wrapper/ *)

(* 00_deploy_static_metadata_service.ts: a placeholder URL, which is       *)
(* nobody's; 02 deploys the service again under the wrapper's URL.         *)
DeployMetadataService ==
  /\ Runs("StaticMetadataService")
  /\ \/ pc = 1 /\ Deploy("StaticMetadataService", <<Nobody>>)
     \/ pc = 2 /\ Return(TRUE)

(* Plausible bug: the script does not report that it is done. *)
NameWrapperIsDone_Unreported == Return(FALSE)

NameWrapperIsDone == Return(TRUE)

(* 01_deploy_name_wrapper.ts.  Only the run that deployed it returns true. *)
DeployNameWrapper ==
  /\ Runs("NameWrapper")
  /\ \/ pc = 1 /\ DeployClaiming("NameWrapper",
                    <<At("ENSRegistry"), At("BaseRegistrarImplementation"),
                      At("StaticMetadataService")>>,
                    [Constructed("NameWrapper", Deployer) EXCEPT
                      !.points = Put(@, <<NewAt("NameWrapper"), "metadataService">>,
                                     At("StaticMetadataService"))])
     \/ pc = 2 /\ HandOverIfFresh("NameWrapper")
     \/ pc = 3 /\ IF LeavesWiring THEN Return(FALSE)
                  ELSE Send(SecurityControllerAllows,
                            AddController("BaseRegistrarImplementation", At("NameWrapper")))
     \/ pc = 4 /\ LET resolver == chain.resolver["etn."]
                  IN  IF resolver = Nobody THEN Return(FALSE)
                      ELSE Send(chain.owner[resolver] = Owner,
                                SetPointer(resolver, "INameWrapper", At("NameWrapper")))
     \/ pc = 5 /\ NameWrapperIsDone

(* 02_update_metadata_service.ts *)
UpdateMetadataService ==
  /\ Runs("UpdateMetadataService")
  /\ \/ pc = 1 /\ Deploy("StaticMetadataService", <<At("NameWrapper")>>)
     \/ pc = 2 /\ IF Pointer(At("NameWrapper"), "metadataService") = At("StaticMetadataService")
                  THEN Return(TRUE)
                  ELSE Send(OwnedBy("NameWrapper", Owner),
                            SetPointer(At("NameWrapper"), "metadataService",
                                       At("StaticMetadataService")))
     \/ pc = 3 /\ Return(TRUE)

-----------------------------------------------------------------------------
(* utils/ *)

(* 00_deploy_batch_gateway_provider.ts aborts without BATCH_GATEWAY_URLS.  *)
DeployGatewayProvider ==
  /\ Runs("BatchGatewayProvider")
  /\ \/ pc = 1 /\ IF env.gateways
                  THEN Create("BatchGatewayProvider", <<Owner>>, Constructed("BatchGatewayProvider", Owner))
                  ELSE Throw
     \/ pc = 2 /\ Return(FALSE)

DeployUniversalResolver ==
  /\ Runs("UniversalResolver")
  /\ \/ pc = 1 /\ DeployClaiming("UniversalResolver",
                                 <<Owner, At("ENSRegistry"), At("BatchGatewayProvider")>>,
                                 chain)
     \/ pc = 2 /\ Return(TRUE)

DeployMigrationHelper ==
  /\ Runs("MigrationHelper")
  /\ \/ pc = 1 /\ Deploy("MigrationHelper", <<At("BaseRegistrarImplementation"), At("NameWrapper")>>)
     \/ pc = 2 /\ SendUnless(Owner = Deployer \/ OwnedBy("MigrationHelper", Owner),
                             OwnedBy("MigrationHelper", Deployer),
                             SetOwner("MigrationHelper", Owner))
     \/ pc = 3 /\ Return(TRUE)

ResolverStep ==
  \/ DeployOwnedResolver \/ DeployExtendedDNSResolver \/ DeployLegacyPublicResolver
  \/ DeployPublicResolver \/ DeployReverseRegistrar \/ DeployDefaultReverseRegistrar
  \/ DeployDefaultReverseResolver \/ DeployMetadataService \/ DeployNameWrapper
  \/ UpdateMetadataService \/ DeployGatewayProvider \/ DeployUniversalResolver
  \/ DeployMigrationHelper
=============================================================================
