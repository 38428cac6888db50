------------------------- MODULE RolloutProperties --------------------------
(***************************************************************************)
(* What the deployment promises: to the operator who has to run it again,  *)
(* to the owner account it is handed to, and to whoever is given a name.   *)
(***************************************************************************)
EXTENDS Rollout

IsFull == \A i \in DOMAIN Pipeline : Pipeline[i] \in net.scripts

(* Of a network that is deployed to as a whole: the tag that gives the     *)
(* root to the contract Root is one of its tags, the pipeline does its     *)
(* wiring, and the price is the same in every shell that is as it should   *)
(* be; the name resolver is reserved and is not handed over.               *)
ASSUME WiringAssumption ==
  /\ \A n \in Networks : Scripts \subseteq n.scripts =>
       /\ "use_root" \in n.tags
       /\ n.name # "mainnet" \/ "tenderly" \in n.tags
       /\ \A e, f \in Envs(n) : GoodEnv(e) /\ GoodEnv(f) => e.price = f.price
  /\ \E i \in DOMAIN Reserved : Reserved[i] = "resolver"
  /\ \A i \in DOMAIN Infrastructure : Infrastructure[i] # "resolver"

(* Of every network: a part of the pipeline that has Root or the registrar *)
(* in it is given the tag that gives them their roles, none of it is left  *)
(* to a multisig, and what decides where a contract is or what it is given *)
(* is the same in every shell.                                             *)
ASSUME AddressAssumption ==
  \A n \in Networks :
    /\ n.name # "mainnet" \/ "tenderly" \in n.tags
    /\ n.scripts \cap {"Root", "BaseRegistrarImplementation"} # {} => "use_root" \in n.tags
    /\ \A e, f \in Envs(n) :
         /\ e.safeKey = f.safeKey
         /\ GoodEnv(e) /\ GoodEnv(f) => e.price = f.price

-----------------------------------------------------------------------------
(* What a finished run leaves. *)

HasCode(c) == c \in chain.code \/ At(c)[2] # 0

(* Phase 1 of verify-deployment.ts. *)
Verified ==
  LET resolver == At("PublicResolver")
  IN  /\ chain.node["etn."] = At("BaseRegistrarImplementation")
      /\ chain.resolver["etn."] = At("OwnedResolver")
      /\ OwnedBy("BaseRegistrarImplementation", At("RegistrarSecurityController"))
      /\ chain.resolver["reverse."] = At("DefaultReverseResolver")
      /\ chain.node["addr.reverse."] = At("ReverseRegistrar")
      /\ Pointer(At("ReverseRegistrar"), "defaultResolver") = resolver
      /\ HasCode("Multicall3") /\ HasCode("UniversalSigValidator")
      /\ \A i \in DOMAIN Reserved : ~Available(Reserved[i])
      /\ chain.resolver["resolver"] = resolver
      /\ Pointer(resolver, "resolver") = resolver

(* The owner account owns what the deployment's README says it does. *)
OwnedByOwner ==
  /\ IsController("Root", Owner) /\ chain.node["root."] = At("Root")
  /\ \A c \in {"Root", "RootSecurityController", "RegistrarSecurityController", "NameWrapper",
               "OwnedResolver", "ETHRegistrarController", "ReverseRegistrar",
               "DefaultReverseRegistrar", "SimplePublicSuffixList", "MigrationHelper",
               "BatchGatewayProvider"}
             \cup (IF Tag("owned_oracle") THEN {"OwnedUsdOracle"} ELSE {}) :
       OwnedBy(c, Owner)

(* Names can be registered through the controllers of this deployment and  *)
(* through nothing else.                                                   *)
TakesRegistrations ==
  /\ {c \in DOMAIN chain.owner \cup {Owner} :
        <<At("BaseRegistrarImplementation"), c>> \in chain.controllers}
       = {At(c) : c \in {"NameWrapper", "ETHRegistrarController"}
                          \cup (IF Tag("legacy") THEN {"LegacyETHRegistrarController",
                                                       "WrappedETHRegistrarController"} ELSE {})}
  /\ IsController("ReverseRegistrar", At("ETHRegistrarController"))
  /\ IsController("DefaultReverseRegistrar", At("ETHRegistrarController"))
  /\ chain.node["com."] = At("DNSRegistrar")

Wired == Verified /\ OwnedByOwner /\ TakesRegistrations

(* A run of the whole pipeline that ends, the first or a later one, and    *)
(* after an interruption anywhere but in a gap, leaves the wiring that     *)
(* verify-deployment.ts looks for, the contracts that the deployment's     *)
(* README lists with the owner account, and no controller too many.        *)
FinishedIsWired ==
  outcome = "finished" /\ IsFull /\ lost = {} /\ mishaps \subseteq {"interrupted"} => Wired

-----------------------------------------------------------------------------
(* Running it again. *)

(* The scripts whose skipped wiring a later script cannot do without. *)
Bricking == {"RegistrarSecurityController", "OwnedResolver", "ReverseRegistrar", "NameWrapper",
             "L2ReverseRegistrar"}

(* The top-level domains belong to a DNSRegistrar the current one does not *)
(* know: enableNode reverts.                                               *)
TldsOrphaned ==
  chain.node["com."] \notin {Nobody, At("DNSRegistrar"), PreviousRegistrar}

AwaitsSigners == safe.pending # 0 /\ safe.pending \notin safe.executed

(* 01_deploy_universal_resolver.ts depends on the owner of addr.reverse    *)
(* without naming the script that sets it.                                 *)
LacksReverse == "UniversalResolver" \in net.scripts /\ "ReverseRegistrar" \notin net.scripts

(* A name was taken from under the scripts: the public registered it, or   *)
(* the manager, who had been given the token, took the node by itself.     *)
(* Before it has done so with any name, a node in its hands was handed     *)
(* over and is no excuse; from then on the two are not told apart.         *)
NodeTaken(l) == chain.node[l] = Manager /\ "reclaimed" \in mishaps

Taken == \E l \in Labels : chain.token[l] = Public \/ NodeTaken(l)

(* A run fails for these reasons and no other: its environment, a wiring   *)
(* that was lost in a gap and cannot be done without, top-level domains    *)
(* that two runs have left behind, a name taken from under the scripts,    *)
(* signers that have not acted, and a tag that lacks a dependency.  In     *)
(* particular everything that is already set is found to be.               *)
SafeToRerun ==
  [][outcome = "running" /\ outcome' = "failed" =>
       \/ ~env.gateways \/ env.target = Nobody
       \/ lost \cap Bricking # {}
       \/ "DNSRegistrar" \in DOMAIN saved /\ TldsOrphaned
       \/ Taken
       \/ AwaitsSigners
       \/ LacksReverse]_vars

(* A contract that is recorded keeps its address: only the DNSRegistrar,   *)
(* which is given its own address, the metadata service, which comes       *)
(* twice, and a Multicall3 that is at last canonical are replaced.  Nothing *)
(* is claimed once a run had a wrong shell (another price, among others),  *)
(* or once the script of the NameWrapper or of the OwnedResolver was cut   *)
(* between its deployment and its end.                                     *)
AddressesAreStable ==
  [][\A c \in DOMAIN saved :
       \/ saved'[c].at = saved[c].at
       \/ c \in {"DNSRegistrar", "StaticMetadataService"}
       \/ saved'[c].at = <<"Multicall3", 0>>
       \/ "environment" \in mishaps
       \/ lost \cap {"NameWrapper", "OwnedResolver"} # {}]_vars

-----------------------------------------------------------------------------
(* The names registered at launch. *)

(* The owner account is a controller of the registrar only while one of    *)
(* the two scripts runs that need it; unless the process died in one of    *)
(* them, or a name was taken from under the scripts.  That both handed the *)
(* names over as they should is no excuse.                                 *)
GrantIsTemporary ==
  OwnerIsController =>
    \/ \E s \in NameScripts : Runs(s)
    \/ lost \cap NameScripts # {}
    \/ Taken

(* A name that was handed over resolves, and its node is handed over after *)
(* its token, wherever a run stopped in between.                           *)
HandedOverNamesResolve ==
  \A l \in Labels :
    /\ chain.token[l] = Manager => chain.resolver[l] # Nobody
    /\ chain.node[l] = Manager => chain.token[l] = Manager

-----------------------------------------------------------------------------
(* Completion. *)

Completed ==
  outcome = "finished" /\ ("L2ReverseRegistrar" \in net.scripts => HasCode("L2ReverseRegistrar"))

(* The operator who goes on running the pipeline gets to its end, whoever  *)
(* takes a name in between and whatever the environment was for a time,    *)
(* if no run was interrupted in a gap.                                     *)
Completes ==
  <>(\/ Completed
     \/ lost # {}
     \/ LacksReverse
     \/ Exhausted)

-----------------------------------------------------------------------------
(* What deployments/electroneum/README.md says, and the scripts do not do. *)

(* "The pipeline is safe to rerun after an interruption": one between a    *)
(* deployment and the handover behind "if (!newlyDeployed) return" leaves  *)
(* a contract with the deployer for good, and every later run fails.       *)
RerunCompletes == <>(outcome = "finished")
=============================================================================
