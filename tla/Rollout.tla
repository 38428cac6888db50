------------------------------- MODULE Rollout -------------------------------
(***************************************************************************)
(* The deployment of the whole system: an operator runs the pipeline, runs *)
(* it again when it has failed, and again when it has not.  A run can be   *)
(* interrupted between any two statements, by the death of the process or  *)
(* a node that does not answer; the public can register names as soon as   *)
(* there is a controller to register them with; the wallet a name was      *)
(* handed to can use it; the signers of a Safe confirm what was proposed.  *)
(***************************************************************************)
EXTENDS RootScripts, RegistrarScripts, ResolverScripts, SharedScripts

CONSTANTS Networks,      \* the networks of rocketh.ts that are deployed to
          Envs(_),       \* of a network: the environments a run may have
          MaxMishaps,    \* how many kinds of mishap happen in a behaviour
          MaxInterruptions, \* how many runs are interrupted
          MaxGenerations \* how many times a contract is deployed

VARIABLES mishaps,       \* what has gone wrong so far
          interruptions, \* how many runs were interrupted
          lost           \* the scripts that were interrupted in a gap

vars == <<net, env, chain, safe, saved, done, place, pc, mem, outcome, mishaps, interruptions, lost>>

-----------------------------------------------------------------------------
(* What the scripts say they depend on. *)
DependsOn ==
  UNION {
    {"DNSSECImpl"} \X {"Algorithms", "Digests"},
    {"OffchainDNSResolver"} \X {"ENSRegistry", "DNSSECImpl"},
    {"Root", "BaseRegistrarImplementation", "LegacyPublicResolver"} \X {"ENSRegistry"},
    {"RootSecurityController"} \X {"Root"},
    {"Root:setup"} \X {"Root", "RootSecurityController"},
    {"DNSRegistrar"} \X {"OffchainDNSResolver", "DNSSECImpl", "SimplePublicSuffixList", "Root",
                         "Root:setup"},
    {"SetTlds"} \X {"SimplePublicSuffixList", "DNSRegistrar", "Multicall3"},
    {"RegistrarSecurityController"} \X {"BaseRegistrarImplementation"},
    {"BaseRegistrarImplementation:setup"} \X {"Root", "Root:setup", "BaseRegistrarImplementation",
                                              "RegistrarSecurityController"},
    {"ReverseRegistrar"} \X {"ENSRegistry", "Root", "Root:setup"},
    {"LegacyETHRegistrarController"} \X {"BaseRegistrarImplementation:setup",
                                         "RegistrarSecurityController",
                                         "ExponentialPremiumPriceOracle"},
    {"StaticMetadataService", "OwnedResolver"} \X {"BaseRegistrarImplementation:setup"},
    {"NameWrapper"} \X {"StaticMetadataService", "ReverseRegistrar", "OwnedResolver",
                        "RegistrarSecurityController"},
    {"WrappedETHRegistrarController"} \X {"NameWrapper", "ReverseRegistrar",
                                          "ExponentialPremiumPriceOracle"},
    {"ETHRegistrarController"} \X {"NameWrapper", "DefaultReverseRegistrar",
                                   "ExponentialPremiumPriceOracle"},
    {"StaticBulkRenewal", "EnableWrapping"} \X {"ETHRegistrarController"},
    {"ReservedNames"} \X {"BaseRegistrarImplementation:setup", "RegistrarSecurityController"},
    {"PublicResolver"} \X {"NameWrapper", "ETHRegistrarController", "ReservedNames"},
    {"InfrastructureNames"} \X {"PublicResolver"},
    {"L2ReverseRegistrar"} \X {"UniversalSigValidator"},
    {"DefaultReverseResolver"} \X {"Root", "Root:setup", "DefaultReverseRegistrar"},
    {"UniversalResolver"} \X {"ENSRegistry", "BatchGatewayProvider"},
    {"MigrationHelper"} \X {"BaseRegistrarImplementation:setup", "NameWrapper"},
    {"UpdateMetadataService"} \X {"NameWrapper"}}

Scripts == {Pipeline[i] : i \in DOMAIN Pipeline}
Dependencies(s) == {d \in Scripts : <<s, d>> \in DependsOn}

(* Each comes after those it depends on; a network deploys with whatever a *)
(* script depends on; no name is reserved twice; a label has no dot, the    *)
(* other nodes have one.                                                   *)
ASSUME DependenciesFirst ==
  \A i, j \in DOMAIN Pipeline : <<Pipeline[i], Pipeline[j]>> \in DependsOn => j < i

ASSUME RolloutAssumption ==
  /\ \A n \in Networks :
       /\ n.owner \in {Deployer, OwnerKey}
       /\ \A s \in n.scripts : Dependencies(s) \subseteq n.scripts
  /\ Reserved \in Seq(STRING) /\ Infrastructure \in Seq(STRING)
  /\ \A i, j \in DOMAIN Reserved : Reserved[i] = Reserved[j] => i = j
  /\ Labels \cap OtherNodes = {}

-----------------------------------------------------------------------------
(* The operator *)

Init ==
  /\ net \in Networks
  /\ env \in Envs(net)
  /\ chain = EmptyChain /\ safe = NewSafe
  /\ saved = << >> /\ done = {}
  /\ place = 0 /\ pc = 0 /\ mem = NoLocals
  /\ outcome = "idle"
  /\ mishaps = {} /\ interruptions = 0 /\ lost = {}

GoodEnv(e) == e.gateways /\ e.target # Nobody /\ e.node # "mixed"

Mishap(kind) ==
  /\ mishaps' = mishaps \cup {kind}
  /\ Cardinality(mishaps') <= MaxMishaps

Exhausted == \E c \in DOMAIN saved : saved[c].at[2] >= MaxGenerations

(* A run takes up what is not recorded as done, in order. *)
Start(e) ==
  /\ outcome # "running"
  /\ ~Exhausted
  /\ Selected # {} /\ place' = Min(Selected)
  /\ env' = e /\ pc' = 1 /\ mem' = NoLocals /\ outcome' = "running"
  /\ IF GoodEnv(e) THEN UNCHANGED mishaps ELSE Mishap("environment")
  /\ UNCHANGED <<net, chain, safe, saved, done, interruptions, lost>>

(* The next statement of the running script. *)
RunScript ==
  /\ outcome = "running"
  /\ \/ RootStep /\ UNCHANGED safe
     \/ RegistrarStep /\ UNCHANGED safe
     \/ ResolverStep /\ UNCHANGED safe
     \/ DeployMulticall /\ UNCHANGED safe
     \/ DeploySigValidator /\ UNCHANGED safe
     \/ DeployL2Registrar
  /\ UNCHANGED <<net, env, mishaps, interruptions, lost>>

(* Between deploying a contract and the last statement behind its "if      *)
(* (!newlyDeployed) return", which the next run skips, the "return true"   *)
(* of the NameWrapper's among them; between granting the temporary role    *)
(* and revoking it; between an act of the Safe and the record of it.       *)
NameScripts == {"ReservedNames", "InfrastructureNames"}
Gap ==
  [RootSecurityController        |-> {2},    RegistrarSecurityController |-> {2},
   SimplePublicSuffixList        |-> {2, 3}, DNSRegistrar                |-> {2},
   OwnedResolver                 |-> {2},    ExponentialPremiumPriceOracle |-> {2},
   ReverseRegistrar              |-> 2..4,   NameWrapper                 |-> 2..5,
   WrappedETHRegistrarController |-> 2..6,   ETHRegistrarController      |-> 2..6,
   PublicResolver                |-> 2..4]
InGap ==
  LET s == Pipeline[place]
  IN  \/ s \in DOMAIN Gap /\ mem.fresh /\ pc \in Gap[s]
      \/ s \in NameScripts /\ mem.granted /\ OwnerIsController
      \/ s = "L2ReverseRegistrar" /\ pc \in (IF Tag("testnet") THEN 3..5 ELSE {5, 7})

(* The process dies, or a request to the node fails for good. *)
Interrupt ==
  /\ outcome = "running"
  /\ Mishap("interrupted")
  /\ interruptions < MaxInterruptions /\ interruptions' = interruptions + 1
  /\ lost' = IF InGap THEN lost \cup {Pipeline[place]} ELSE lost
  /\ outcome' = "interrupted" /\ place' = 0 /\ pc' = 0 /\ mem' = NoLocals
  /\ UNCHANGED <<net, env, chain, safe, saved, done>>

-----------------------------------------------------------------------------
(* The others *)

(* Anybody commits to a name, waits and registers it with a controller.    *)
Squat(l) ==
  /\ Mishap("squatted")
  /\ Available(l)
  /\ chain.node["etn."] = At("BaseRegistrarImplementation")
  /\ \E c \in {"LegacyETHRegistrarController", "ETHRegistrarController"} :
       c \in DOMAIN saved /\ IsController("BaseRegistrarImplementation", At(c))
  /\ chain' = [chain EXCEPT !.token[l] = Public, !.node[l] = Public]
  /\ UNCHANGED <<net, env, safe, saved, done, place, pc, mem, outcome, interruptions, lost>>

(* Who holds a name's token may set the owner of its node. *)
Reclaim(l) ==
  /\ Mishap("reclaimed")
  /\ chain.token[l] = Manager /\ chain.node[l] # Manager
  /\ chain' = SetNode(l, Manager)
  /\ UNCHANGED <<net, env, safe, saved, done, place, pc, mem, outcome, interruptions, lost>>

(* The signers confirm and execute what was proposed to them. *)
Confirm(n) ==
  /\ n \in safe.queue /\ Executable(n)
  /\ safe' = Executed(n) /\ chain' = WithL2Registrar
  /\ UNCHANGED <<net, env, saved, done, place, pc, mem, outcome, mishaps, interruptions, lost>>

Next ==
  \/ \E e \in Envs(net) : Start(e)
  \/ RunScript
  \/ Interrupt
  \/ \E l \in Labels : Squat(l) \/ Reclaim(l)
  \/ \E n \in safe.queue : Confirm(n)

(* The operator runs the pipeline again and again, and not in a bad        *)
(* environment only; a run goes on unless it is interrupted; the signers   *)
(* act on what they can execute.                                           *)
Fairness ==
  /\ SF_vars(\E e \in Envs(net) : GoodEnv(e) /\ Start(e))
  /\ WF_vars(RunScript)
  /\ WF_vars(\E n \in safe.queue : Confirm(n))

Spec == Init /\ [][Next]_vars
FairSpec == Spec /\ Fairness
=============================================================================
