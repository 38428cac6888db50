----------------------------- MODULE Deployment -----------------------------
(***************************************************************************)
(* What every script under deploy/ is written with: the runner (rocketh)   *)
(* that keeps the records of a network, decides whether a contract has to  *)
(* be deployed again and ends the run at the first transaction that        *)
(* reverts, and the chain the scripts write to.                            *)
(*                                                                         *)
(* A run executes scripts of the Pipeline one after another; place is that *)
(* of the running one, pc the statement it has come to, and mem holds its  *)
(* local variables, which are gone when the process dies.  What is on the chain  *)
(* and in the records of the network stays.                                *)
(***************************************************************************)
EXTENDS Naturals, Sequences, FiniteSetsExt, TLC

CONSTANTS Reserved,       \* RESERVED_NAMES, a sequence of labels
          Infrastructure  \* INFRASTRUCTURE_NAMES, a sequence of labels

VARIABLES
  net,      \* the network: its tags and the account named owner
  env,      \* the node and the environment variables of this run
  chain,    \* the contracts' state
  safe,     \* the Safe of an L2: its nonce, its queue, and .pendingSafeTransactions
  saved,    \* deployments/<network>/*.json: address and constructor arguments
  done,     \* .migrations.json: the scripts that returned true
  place,    \* where the running script is in the Pipeline
  pc,       \* the next statement of the running script
  mem,      \* its local variables
  outcome   \* how the run stands: idle, running, finished or failed

script == <<chain, saved, done, place, pc, mem, outcome>>

-----------------------------------------------------------------------------
(* Accounts and addresses are pairs, so that a contract that is deployed   *)
(* again under its name has another address.                               *)

Nobody   == <<"nobody", 0>>
Deployer == <<"deployer", 0>>
OwnerKey == <<"owner", 0>>     \* the account named owner where it is not the deployer's
Manager  == <<"manager", 0>>   \* a wallet that is not one of the two keys
Public   == <<"public", 0>>    \* whoever registers a name
Owner    == net.owner

Tag(t) == t \in net.tags

(* The pipeline leaves the wiring to a multisig on Ethereum's mainnet.     *)
LeavesWiring == net.name = "mainnet" /\ ~Tag("tenderly")

Labels == {Reserved[i] : i \in DOMAIN Reserved}
            \cup {Infrastructure[i] : i \in DOMAIN Infrastructure}

(* The nodes the scripts touch: a label stands for the node <label>.etn,   *)
(* and those with a dot for themselves, com. for the top-level domains of  *)
(* the public suffix list.                                                 *)
OtherNodes == {"root.", "etn.", "eth.", "com.", "reverse.", "addr.reverse."}
Nodes == OtherNodes \cup Labels

(* The scripts in the order of their paths and dependencies. *)
Pipeline ==
  <<"ENSRegistry", "Algorithms", "Digests", "DNSSECImpl", "OffchainDNSResolver",
    "SimplePublicSuffixList", "Root", "RootSecurityController", "Root:setup", "DNSRegistrar",
    "Multicall3", "SetTlds", "BaseRegistrarImplementation", "RegistrarSecurityController",
    "BaseRegistrarImplementation:setup", "ExponentialPremiumPriceOracle",
    "LegacyETHRegistrarController", "ReverseRegistrar", "StaticMetadataService", "OwnedResolver",
    "NameWrapper", "WrappedETHRegistrarController", "DefaultReverseRegistrar",
    "ETHRegistrarController", "StaticBulkRenewal", "ReservedNames", "EnableWrapping",
    "PublicResolver", "InfrastructureNames", "UniversalSigValidator", "L2ReverseRegistrar",
    "ExtendedDNSResolver", "LegacyPublicResolver", "DefaultReverseResolver",
    "BatchGatewayProvider", "UniversalResolver", "MigrationHelper", "UpdateMetadataService">>

EmptyChain ==
  [owner       |-> << >>,                       \* of a contract: owner()
   node        |-> [n \in Nodes |-> Nobody],    \* ENSRegistry.owner
   resolver    |-> [n \in Nodes |-> Nobody],    \* ENSRegistry.resolver
   token       |-> [l \in Labels |-> Nobody],   \* BaseRegistrar.ownerOf
   controllers |-> {},                          \* <<contract, controller>>
   points      |-> << >>,                       \* <<contract, slot>> to an address
   code        |-> {},                          \* the canonical addresses with code
   funded      |-> {}]                          \* the keyless signers that were funded

NoLocals ==
  [fresh |-> FALSE, granted |-> FALSE, available |-> FALSE, left |-> {},
   registrant |-> Nobody, holder |-> Nobody, nonce |-> 0]

-----------------------------------------------------------------------------
(* Reading. *)

(* get(c).address, or nobody when there is no record. *)
At(c) == IF c \in DOMAIN saved THEN saved[c].at ELSE Nobody

OwnedBy(c, who) == At(c) \in DOMAIN chain.owner /\ chain.owner[At(c)] = who

IsController(c, who) == <<At(c), who>> \in chain.controllers

Pointer(at, slot) ==
  IF <<at, slot>> \in DOMAIN chain.points THEN chain.points[<<at, slot>>] ELSE Nobody

(* Writing: the chain after one call. *)

Put(f, key, value) == [x \in DOMAIN f \cup {key} |-> IF x = key THEN value ELSE f[x]]

SetOwner(c, who)       == [chain EXCEPT !.owner[At(c)] = who]
SetNode(n, who)        == [chain EXCEPT !.node[n] = who]
SetResolver(n, at)     == [chain EXCEPT !.resolver[n] = at]
SetPointer(at, slot, v) == [chain EXCEPT !.points = Put(@, <<at, slot>>, v)]
AddController(c, who)  == [chain EXCEPT !.controllers = @ \cup {<<At(c), who>>}]
DropController(c, who) == [chain EXCEPT !.controllers = @ \ {<<At(c), who>>}]

(* Root.setSubnodeOwner called by the owner account. *)
RootAllows(who) == IsController("Root", who) /\ chain.node["root."] = At("Root")

(* A call of RegistrarSecurityController by the owner account, passed on   *)
(* to the registrar.                                                       *)
SecurityControllerAllows ==
  /\ OwnedBy("RegistrarSecurityController", Owner)
  /\ OwnedBy("BaseRegistrarImplementation", At("RegistrarSecurityController"))

-----------------------------------------------------------------------------
(* Statements of the running script. *)

Runs(id) == outcome = "running" /\ Pipeline[place] = id

Goto(k) == pc' = k /\ UNCHANGED <<chain, saved, done, place, mem, outcome>>
Skip    == Goto(pc + 1)

(* An error that is not caught ends the run: what it has done stays. *)
Throw ==
  /\ outcome' = "failed" /\ place' = 0 /\ pc' = 0 /\ mem' = NoLocals
  /\ UNCHANGED <<chain, saved, done>>

(* Of the scripts behind place, those this run has still to execute: what  *)
(* its tags select and is not recorded as done.                            *)
Selected == {i \in DOMAIN Pipeline : Pipeline[i] \in net.scripts \ done}
Later    == {i \in Selected : i > place}

(* The script returns; one that returns true is not run again. *)
Return(true) ==
  /\ done' = IF true THEN done \cup {Pipeline[place]} ELSE done
  /\ place' = IF Later = {} THEN 0 ELSE Min(Later)
  /\ outcome' = IF Later = {} THEN "finished" ELSE "running"
  /\ pc' = 1 /\ mem' = NoLocals
  /\ UNCHANGED <<chain, saved>>

(* A transaction that goes on at next with locals m, or reverts. *)
Tx(allowed, after, m, next) ==
  IF allowed
  THEN chain' = after /\ mem' = m /\ pc' = next /\ UNCHANGED <<saved, done, place, outcome>>
  ELSE Throw

Send(allowed, after) == Tx(allowed, after, mem, pc + 1)

SendUnless(settled, allowed, after) == IF settled THEN Skip ELSE Send(allowed, after)

(* deploy(c, {args}): the record is taken when its arguments are the same, *)
(* and the contract is deployed again when they are not.  mem.fresh is the *)
(* newlyDeployed of the result; built is the chain once the constructor of *)
(* the contract at NewAt(c) has run.                                       *)
NewAt(c) == <<c, 1 + At(c)[2]>>

Create(c, args, built) ==
  LET fresh == c \notin DOMAIN saved \/ saved[c].args # args
  IN  /\ mem' = [mem EXCEPT !.fresh = fresh]
      /\ pc' = pc + 1
      /\ IF fresh THEN /\ saved' = Put(saved, c, [at |-> NewAt(c), args |-> args])
                       /\ chain' = built
                  ELSE UNCHANGED <<saved, chain>>
      /\ UNCHANGED <<done, place, outcome>>

Constructed(c, holder) == [chain EXCEPT !.owner = Put(@, NewAt(c), holder)]

Deploy(c, args) == Create(c, args, Constructed(c, Deployer))

(* A ReverseClaimer: its constructor calls the owner of addr.reverse, and  *)
(* reverts when that is not a ReverseRegistrar.                            *)
DeployClaiming(c, args, built) ==
  IF (c \in DOMAIN saved /\ saved[c].args = args) \/ chain.node["addr.reverse."] = At("ReverseRegistrar")
  THEN Create(c, args, built)
  ELSE Throw

(* The scripts that only deploy. *)
DeployEach(contracts) ==
  IF pc \in DOMAIN contracts THEN Deploy(contracts[pc], << >>) ELSE Return(FALSE)

(* transferOwnership to the owner account, sent by the deployer's. *)
HandOver(c) == SendUnless(Owner = Deployer, OwnedBy(c, Deployer), SetOwner(c, Owner))

(* The same behind "if (!newlyDeployed) return". *)
HandOverIfFresh(c) == IF mem.fresh THEN HandOver(c) ELSE Return(FALSE)
=============================================================================
