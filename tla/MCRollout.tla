------------------------------ MODULE MCRollout ------------------------------
(***************************************************************************)
(* Networks of rocketh.ts and hardhat.config.ts, and environments for the  *)
(* runs of Rollout.  The last network stands for an L2 tagged testnet,     *)
(* which safeDeploy asks for and no configuration has at present.          *)
(***************************************************************************)
EXTENDS RolloutProperties, SequencesExt

ReservedLabels == <<"wallet", "resolver">>
InfrastructureLabels == <<"validators">>

(* Deploying with --tags: the scripts of the tag and what they depend on. *)
Closure(scripts) ==
  FoldRight(LAMBDA s, needed : IF s \in needed THEN needed \cup Dependencies(s) ELSE needed,
            Pipeline, scripts)

Network(name, tags, owner, scripts) ==
  [name |-> name, tags |-> tags, owner |-> owner, scripts |-> scripts]

Electroneum(scripts) == Network("electroneum", {"use_root", "owned_oracle"}, OwnerKey, scripts)
Testnet  == Network("electroneumTestnet", {"test", "use_root", "owned_oracle"}, Deployer, Scripts)
Hardhat  == Network("hardhat", {"test", "legacy", "use_root"}, OwnerKey, Scripts)
L2Scripts == Closure({"L2ReverseRegistrar"})
Optimism == Network("optimism", {}, OwnerKey, L2Scripts)
L2Testnet == Network("l2testnet", {"testnet"}, OwnerKey, L2Scripts)

Environment(gateways, target, price, node, safeKey) ==
  [gateways |-> gateways, target |-> target, price |-> price, node |-> node, safeKey |-> safeKey]

OnL2(n) == n.name \in {"optimism", "l2testnet"}

(* The last one of an L1 is a shell in which nothing was exported, or what *)
(* was exported is wrong.                                                  *)
RolloutEnvs(n) ==
  IF OnL2(n)
  THEN {Environment(TRUE, n.owner, "set", node, TRUE) : node \in {"accepts", "rejects"}}
  ELSE {Environment(TRUE, Manager, "set", "rejects", FALSE),
        Environment(TRUE, n.owner, "set", "accepts", FALSE),
        Environment(FALSE, Nobody, "default", "mixed", FALSE)}

(* Of the run that compares the code with its documentation: Electroneum   *)
(* up to one script, and shells that are as they should be.                *)
UpToOwnedResolver == {Electroneum(Closure({"OwnedResolver"}))}
GoodEnvs(n) == {e \in RolloutEnvs(n) : GoodEnv(e)}

RolloutNetworks ==
  {Electroneum(Scripts), Testnet, Hardhat, Optimism, L2Testnet}
    \cup {Electroneum(Closure({s})) : s \in Scripts}
=============================================================================
