-------------------------- MODULE RegistrarScripts --------------------------
(***************************************************************************)
(* deploy/ethregistrar: the .etn registrar, its controllers and the names  *)
(* registered at launch, one action per script.                            *)
(***************************************************************************)
EXTENDS Deployment

DeployBaseRegistrar ==
  /\ Runs("BaseRegistrarImplementation")
  /\ \/ pc = 1 /\ IF Tag("use_root")
                  THEN Deploy("BaseRegistrarImplementation", <<At("ENSRegistry")>>)
                  ELSE Return(FALSE)
     \/ pc = 2 /\ Return(FALSE)

DeployRegistrarSecurityController ==
  /\ Runs("RegistrarSecurityController")
  /\ \/ pc = 1 /\ IF Tag("use_root")
                  THEN Deploy("RegistrarSecurityController", <<At("BaseRegistrarImplementation")>>)
                  ELSE Return(FALSE)
     \/ pc = 2 /\ HandOverIfFresh("RegistrarSecurityController")
     \/ pc = 3 /\ Return(FALSE)

(* Plausible bug: the handover is sent whoever owns the registrar. *)
RegistrarIsSecured_Unknown == FALSE

RegistrarIsSecured ==
  OwnedBy("BaseRegistrarImplementation", At("RegistrarSecurityController"))

(* 00_setup_base_registrar.ts *)
SetupBaseRegistrar ==
  /\ Runs("BaseRegistrarImplementation:setup")
  /\ \/ pc = 1 /\ IF ~Tag("use_root") THEN Return(FALSE)
                  ELSE SendUnless(
                         RegistrarIsSecured,
                         OwnedBy("BaseRegistrarImplementation", Deployer),
                         SetOwner("BaseRegistrarImplementation", At("RegistrarSecurityController")))
     \/ pc = 2 /\ SendUnless(chain.node["etn."] = At("BaseRegistrarImplementation"),
                             RootAllows(Owner), SetNode("etn.", At("BaseRegistrarImplementation")))
     \/ pc = 3 /\ Return(FALSE)

(* 01_deploy_exponential_premium_price_oracle.ts; env.price is what        *)
(* ETN_USD_ORACLE_VALUE gives, or the default.                             *)
DeployPriceOracle ==
  /\ Runs("ExponentialPremiumPriceOracle")
  /\ LET feed  == IF Tag("owned_oracle") THEN "OwnedUsdOracle" ELSE "DummyOracle"
         value == IF Tag("owned_oracle") THEN env.price ELSE "160000000000"
     IN  \/ pc = 1 /\ IF Tag("owned_oracle") \/ net.name # "mainnet" THEN Deploy(feed, <<value>>) ELSE Skip
         \/ pc = 2 /\ IF Tag("owned_oracle") /\ mem.fresh THEN HandOver(feed) ELSE Skip
         \/ pc = 3 /\ Deploy("ExponentialPremiumPriceOracle", <<At(feed)>>)
         \/ pc = 4 /\ Return(FALSE)

(* RegistrarSecurityController.addRegistrarController, sent by the owner.  *)
AddRegistrarController(who) ==
  Send(SecurityControllerAllows, AddController("BaseRegistrarImplementation", who))

(* 02_deploy_legacy_eth_registrar_controller.ts *)
DeployLegacyController ==
  /\ Runs("LegacyETHRegistrarController")
  /\ \/ pc = 1 /\ IF Tag("legacy")
                  THEN Deploy("LegacyETHRegistrarController",
                              <<At("BaseRegistrarImplementation"), At("ExponentialPremiumPriceOracle")>>)
                  ELSE Return(FALSE)
     \/ pc = 2 /\ AddRegistrarController(At("LegacyETHRegistrarController"))
     \/ pc = 3 /\ Return(FALSE)

(* setInterface on the resolver of a top-level node, skipped without one.  *)
SetInterface(n, interface, at) ==
  IF chain.resolver[n] = Nobody THEN Return(FALSE)
  ELSE Send(chain.owner[chain.resolver[n]] = Owner,
            SetPointer(chain.resolver[n], interface, at))

(* setController on a contract the owner account should own.               *)
SetControllerOn(c, who) == Send(OwnedBy(c, Owner), AddController(c, who))

(* 03_deploy_wrapped_eth_registrar_controller.ts *)
DeployWrappedController ==
  /\ Runs("WrappedETHRegistrarController")
  /\ LET controller == At("WrappedETHRegistrarController")
     IN  \/ pc = 1 /\ IF Tag("legacy")
                      THEN Deploy("WrappedETHRegistrarController",
                                  <<At("BaseRegistrarImplementation"),
                                    At("ExponentialPremiumPriceOracle"), At("ReverseRegistrar"),
                                    At("NameWrapper"), At("ENSRegistry")>>)
                      ELSE Return(FALSE)
         \/ pc = 2 /\ HandOverIfFresh("WrappedETHRegistrarController")
         \/ pc = 3 /\ IF LeavesWiring THEN Return(FALSE)
                                      ELSE SetControllerOn("NameWrapper", controller)
         \/ pc = 4 /\ AddRegistrarController(controller)
         \/ pc = 5 /\ SetControllerOn("ReverseRegistrar", controller)
         \/ pc = 6 /\ SetInterface("eth.", "IWrappedETHRegistrarController", controller)

(* 04_deploy_eth_registrar_controller.ts *)
DeployController ==
  /\ Runs("ETHRegistrarController")
  /\ LET controller == At("ETHRegistrarController")
     IN  \/ pc = 1 /\ Deploy("ETHRegistrarController",
                             <<At("BaseRegistrarImplementation"),
                               At("ExponentialPremiumPriceOracle"), At("ReverseRegistrar"),
                               At("DefaultReverseRegistrar"), At("ENSRegistry")>>)
         \/ pc = 2 /\ HandOverIfFresh("ETHRegistrarController")
         \/ pc = 3 /\ IF LeavesWiring THEN Return(FALSE) ELSE AddRegistrarController(controller)
         \/ pc = 4 /\ SetControllerOn("ReverseRegistrar", controller)
         \/ pc = 5 /\ SetControllerOn("DefaultReverseRegistrar", controller)
         \/ pc = 6 /\ SetInterface("etn.", "IETHRegistrarController", controller)
         \/ pc = 7 /\ Return(FALSE)

(* 05_deploy_static_bulk_renewal.ts *)
DeployBulkRenewal ==
  /\ Runs("StaticBulkRenewal")
  /\ \/ pc = 1 /\ Deploy("StaticBulkRenewal", <<At("ETHRegistrarController")>>)
     \/ pc = 2 /\ IF LeavesWiring THEN Return(FALSE)
                  ELSE SetInterface("etn.", "IBulkRenewal", At("StaticBulkRenewal"))
     \/ pc = 3 /\ Return(FALSE)

-----------------------------------------------------------------------------
(* The names registered by the owner account itself, which has to be a     *)
(* controller of the registrar for the time of the script.                 *)

Remember(m) == mem' = m /\ pc' = pc + 1 /\ UNCHANGED <<chain, saved, done, place, outcome>>

Available(l) == chain.token[l] = Nobody

OwnerIsController == IsController("BaseRegistrarImplementation", Owner)

(* BaseRegistrar.register to the owner account. *)
RegisterAllowed(l) ==
  /\ Available(l) /\ OwnerIsController
  /\ chain.node["etn."] = At("BaseRegistrarImplementation")
Registered(l) == [chain EXCEPT !.token[l] = Owner, !.node[l] = Owner]

(* Grant the role unless the account has it; mem.granted remembers who did. *)
Grant(next) ==
  IF OwnerIsController THEN Goto(next)
  ELSE Tx(SecurityControllerAllows, AddController("BaseRegistrarImplementation", Owner),
          [mem EXCEPT !.granted = TRUE], next)

(* Plausible bug: the role is revoked when the last name was registered. *)
RevokeIfGranted_LastName ==
  SendUnless(~mem.available, SecurityControllerAllows,
             DropController("BaseRegistrarImplementation", Owner))

RevokeIfGranted ==
  SendUnless(~mem.granted, SecurityControllerAllows,
             DropController("BaseRegistrarImplementation", Owner))

(* Plausible bug: one name that is available has all of them registered. *)
Pending_All ==
  IF \E i \in DOMAIN Reserved : Available(Reserved[i]) THEN DOMAIN Reserved ELSE {}

Pending == {i \in DOMAIN Reserved : Available(Reserved[i])}

(* mem.left holds the places of the names a script has still to do, of     *)
(* which it takes the first.                                               *)
First == Min(mem.left)
Rest  == mem.left \ {First}

(* 06_register_reserved_names.ts: the names found available are registered *)
(* whatever has become of them since.                                      *)
RegisterReservedNames ==
  /\ Runs("ReservedNames")
  /\ \/ pc = 1 /\ IF ~Tag("use_root") THEN Return(FALSE)
                  ELSE IF Pending = {} THEN Return(TRUE)
                  ELSE Remember([mem EXCEPT !.left = Pending])
     \/ pc = 2 /\ Grant(3)
     \/ pc = 3 /\ IF mem.left = {} THEN Skip
                  ELSE Tx(RegisterAllowed(Reserved[First]), Registered(Reserved[First]),
                          [mem EXCEPT !.left = Rest], 3)
     \/ pc = 4 /\ RevokeIfGranted
     \/ pc = 5 /\ Return(TRUE)

(* 07_enable_wrapping.ts *)
EnableWrapping ==
  /\ Runs("EnableWrapping")
  /\ LET renewal == "UniversalRegistrarRenewalWithReferrer"
     IN  \/ pc = 1 /\ Deploy(renewal, <<At("ETHRegistrarController"), At("NameWrapper")>>)
         \/ pc = 2 /\ SendUnless(Owner = Deployer \/ ~OwnedBy(renewal, Deployer), TRUE,
                                 SetOwner(renewal, Owner))
         \/ pc = 3 /\ IF IsController("NameWrapper", At(renewal)) THEN Return(TRUE)
                      ELSE SetControllerOn("NameWrapper", At(renewal))
         \/ pc = 4 /\ Return(TRUE)

(* 08_register_validator_name.ts: mem.registrant and mem.holder are what   *)
(* was read of the first name left.  A name is registered to the owner     *)
(* account, pointed at the resolver while that account holds its node, and *)
(* handed over, the token first.                                           *)
NameDone == [mem EXCEPT !.left = Rest, !.available = FALSE, !.registrant = Nobody,
                        !.holder = Nobody]

NextName == mem' = NameDone /\ pc' = 2 /\ UNCHANGED <<chain, saved, done, place, outcome>>

(* Plausible bug: the resolver is set in the run that registers the name. *)
HasItsResolver_New(l) == mem.holder # Owner \/ ~mem.available

(* Nothing to point at the resolver, or nobody's to point. *)
HasItsResolver(l) == mem.holder # Owner \/ chain.resolver[l] # Nobody

RegisterInfrastructureNames ==
  /\ Runs("InfrastructureNames")
  /\ LET l         == Infrastructure[First]
         target    == env.target
         handsOver == target # Owner
     IN  \/ pc = 1 /\ IF ~Tag("use_root") THEN Return(FALSE)
                      ELSE IF target = Nobody THEN Throw    \* not a valid address
                      ELSE Remember([mem EXCEPT !.left = DOMAIN Infrastructure])
         \/ pc = 2 /\ mem.left # {} /\ Remember([mem EXCEPT !.available = Available(l)])
         \/ pc = 2 /\ mem.left = {} /\ Goto(9)
         \/ pc = 3 /\ IF mem.available /\ ~mem.granted THEN Grant(4) ELSE Goto(4)
         \/ pc = 4 /\ SendUnless(~mem.available, RegisterAllowed(l), Registered(l))
         \/ pc = 5 /\ IF chain.token[l] \in {Owner, target}
                      THEN Remember([mem EXCEPT !.registrant = chain.token[l],
                                                !.holder = chain.node[l]])
                      ELSE NextName
         \/ pc = 6 /\ SendUnless(HasItsResolver(l),
                                 chain.node[l] = Owner, SetResolver(l, At("PublicResolver")))
         \/ pc = 7 /\ SendUnless(~handsOver \/ mem.registrant # Owner,
                                 chain.token[l] = Owner, [chain EXCEPT !.token[l] = target])
         \/ pc = 8 /\ IF ~handsOver \/ mem.holder # Owner THEN NextName
                      ELSE Tx(chain.node[l] = Owner, SetNode(l, target), NameDone, 2)
         \/ pc = 9 /\ RevokeIfGranted
         \/ pc = 10 /\ Return(TRUE)

RegistrarStep ==
  \/ DeployBaseRegistrar \/ DeployRegistrarSecurityController \/ SetupBaseRegistrar
  \/ DeployPriceOracle \/ DeployLegacyController \/ DeployWrappedController
  \/ DeployController \/ DeployBulkRenewal \/ RegisterReservedNames \/ EnableWrapping
  \/ RegisterInfrastructureNames
=============================================================================
