---------------------------- MODULE RolloutProofs ----------------------------
(***************************************************************************)
(* Proofs about the deployment, for every network, every list of names,    *)
(* and any number of runs and mishaps: when the owner account is a         *)
(* controller of the registrar, what a name that was handed over has, and  *)
(* what a run of the whole pipeline leaves a network with.                 *)
(***************************************************************************)
EXTENDS RolloutProperties, WellFoundedInduction, TLAPS

(***************************************************************************)
(* Types.  The records a statement updates keep their fields.              *)
(***************************************************************************)
ChainOK ==
  /\ chain = [owner |-> chain.owner, node |-> chain.node, resolver |-> chain.resolver,
              token |-> chain.token, controllers |-> chain.controllers,
              points |-> chain.points, code |-> chain.code, funded |-> chain.funded]
  /\ chain.node = [n \in Nodes |-> chain.node[n]]
  /\ chain.resolver = [n \in Nodes |-> chain.resolver[n]]
  /\ chain.token = [l \in Labels |-> chain.token[l]]
  /\ Nobody \notin DOMAIN chain.owner

SavedOK ==
  \A c \in DOMAIN saved : \E k \in Nat : saved[c].at = <<c, k>>

MemOK ==
  /\ mem = [fresh |-> mem.fresh, granted |-> mem.granted, available |-> mem.available,
            left |-> mem.left, registrant |-> mem.registrant, holder |-> mem.holder,
            nonce |-> mem.nonce]
  /\ mem.granted \in BOOLEAN /\ mem.available \in BOOLEAN
  /\ pc = 1 => mem = NoLocals

RunOK ==
  /\ net \in Networks /\ env \in Envs(net)
  /\ done \subseteq Scripts \ {"BaseRegistrarImplementation:setup", "PublicResolver"}
  /\ outcome = "running" => /\ place \in DOMAIN Pipeline /\ Pipeline[place] \in net.scripts
                            /\ pc \in Nat \ {0}

(***************************************************************************)
(* What the scripts behind have done in this run.                          *)
(***************************************************************************)
Passed(s, statement) ==
  /\ outcome = "running" /\ s \in net.scripts
  /\ \E i \in DOMAIN Pipeline : /\ Pipeline[i] = s
                                /\ place > i \/ (place = i /\ pc > statement)

NodeOfTld == chain.node["etn."] = At("BaseRegistrarImplementation")

OrderOK ==
  /\ Passed("BaseRegistrarImplementation:setup", 2) /\ Tag("use_root") => NodeOfTld
  /\ Passed("PublicResolver", 1) => "PublicResolver" \in DOMAIN saved

RootAtHand ==
  Runs("Root:setup") /\ pc \in {3, 4} => At("Root") # Nobody

(***************************************************************************)
(* The roles of the owner account: given on Root by its setup, and on the  *)
(* current registrar or an earlier one.                                    *)
(***************************************************************************)
RolesOK ==
  \A a : <<a, Owner>> \in chain.controllers =>
    \E k \in Nat :
      \/ a = <<"Root", k>>
      \/ /\ a = <<"BaseRegistrarImplementation", k>>
         /\ "BaseRegistrarImplementation" \in DOMAIN saved
         /\ k <= At("BaseRegistrarImplementation")[2]

\* The running script has the role for the time being.
Granted ==
  /\ mem.granted
  /\ \/ Runs("ReservedNames") /\ pc \in 2 .. 4
     \/ Runs("InfrastructureNames") /\ pc \in 2 .. 9

GrantOK ==
  /\ OwnerIsController => Granted \/ lost \cap NameScripts # {} \/ Taken
  /\ Granted => OwnerIsController /\ SecurityControllerAllows

(***************************************************************************)
(* The names: whose they are, and where the two scripts are with them.     *)
(***************************************************************************)
NamesOK ==
  \A l \in Labels :
    /\ chain.token[l] = Owner => chain.node[l] = Owner
    /\ chain.token[l] = Manager => chain.resolver[l] # Nobody
    /\ chain.node[l] = Manager => chain.token[l] = Manager

FreeOrTaken(l) == Available(l) \/ chain.token[l] = Public

ReservedOK ==
  Runs("ReservedNames") =>
    /\ pc \in 1 .. 5
    /\ pc > 1 => Tag("use_root") /\ mem.left \subseteq DOMAIN Reserved
    /\ pc \in {2, 3} => \A i \in mem.left : FreeOrTaken(Reserved[i])
    /\ pc = 3 => OwnerIsController

InfrastructureOK ==
  LET l == Infrastructure[First]
  IN  Runs("InfrastructureNames") =>
        /\ pc \in 1 .. 10
        /\ pc > 1 => /\ Tag("use_root") /\ env.target # Nobody
                     /\ mem.left \subseteq DOMAIN Infrastructure
        /\ pc \in 3 .. 8 => mem.left # {}
        /\ pc \in {3, 4} /\ mem.available => FreeOrTaken(l)
        /\ pc = 4 /\ mem.available => OwnerIsController
        /\ pc \in {6, 7} => chain.token[l] = mem.registrant
        /\ pc \in {6, 7, 8} =>
             /\ mem.registrant \in {Owner, env.target}
             /\ mem.registrant = Owner => mem.holder = Owner
             /\ mem.holder = Owner => chain.node[l] = Owner \/ NodeTaken(l)
             /\ chain.token[l] # Nobody
        /\ pc \in {7, 8} /\ mem.holder = Owner => chain.resolver[l] # Nobody
        /\ pc = 8 => chain.token[l] = env.target

RolloutInv ==
  /\ ChainOK /\ SavedOK /\ MemOK /\ RunOK
  /\ OrderOK /\ RootAtHand /\ RolesOK /\ GrantOK
  /\ NamesOK /\ ReservedOK /\ InfrastructureOK

-----------------------------------------------------------------------------
(* The pipeline.                                                           *)

LEMMA Places ==
  /\ DOMAIN Pipeline = 1 .. 38
  /\ \A i \in DOMAIN Pipeline :
       /\ Pipeline[i] = "BaseRegistrarImplementation" <=> i = 13
       /\ Pipeline[i] = "BaseRegistrarImplementation:setup" <=> i = 15
       /\ Pipeline[i] = "ReservedNames" <=> i = 26
       /\ Pipeline[i] = "PublicResolver" <=> i = 28
       /\ Pipeline[i] = "InfrastructureNames" <=> i = 29
BY DEF Pipeline

Below == {pair \in Nat \X Nat : pair[1] < pair[2]}

LEMMA MinIsLeast ==
  ASSUME NEW S, S \subseteq Nat, S # {}
  PROVE  Min(S) \in S /\ \A i \in S : Min(S) <= i
<1>0. IsWellFoundedOn(Below, Nat)
  BY NatLessThanWellFounded, Zenon DEF OpToRel, Below
<1>1. PICK m \in S : \A k \in S : ~ (<<k, m>> \in Below)
  BY <1>0, WFMin, Zenon
<1>2. \A k \in S : m <= k
  <2> TAKE k \in S
  <2>1. ~ (k < m)
    BY <1>1 DEF Below
  <2> QED
    BY <2>1
<1> QED
  BY <1>2 DEF Min

LEMMA Constants ==
  ASSUME RunOK
  PROVE  /\ Owner \in {Deployer, OwnerKey}
         /\ Owner \notin {Nobody, Manager, Public}
         /\ \A s \in net.scripts : Dependencies(s) \subseteq net.scripts
<1>1. /\ Owner \in {Deployer, OwnerKey}
      /\ \A s \in net.scripts : Dependencies(s) \subseteq net.scripts
  BY RolloutAssumption DEF RunOK, Owner
<1> QED
  BY <1>1 DEF Deployer, OwnerKey, Nobody, Manager, Public

-----------------------------------------------------------------------------
(* A statement of a script that has nothing to do with names.              *)

(* What it may make of the chain. *)
Harmless(after) ==
  /\ after = [owner |-> after.owner, node |-> after.node, resolver |-> after.resolver,
              token |-> after.token, controllers |-> after.controllers,
              points |-> after.points, code |-> after.code, funded |-> after.funded]
  /\ after.node = [n \in Nodes |-> after.node[n]]
  /\ after.resolver = [n \in Nodes |-> after.resolver[n]]
  /\ after.token = chain.token
  /\ Nobody \notin DOMAIN after.owner
  /\ \A l \in Labels : /\ after.node[l] = chain.node[l]
                       /\ after.resolver[l] = chain.resolver[l] \/ after.resolver[l] # Nobody
  /\ \A a : <<a, Owner>> \in after.controllers =>
        <<a, Owner>> \in chain.controllers \/ \E k \in Nat : a = <<"Root", k>>

(* What it may make of the run. *)
GoesOn ==
  /\ UNCHANGED <<place, done, outcome>>
  /\ pc' \in Nat \ {0, 1}
  /\ mem' = [fresh |-> mem'.fresh, granted |-> mem.granted, available |-> mem.available,
             left |-> mem.left, registrant |-> mem.registrant, holder |-> mem.holder,
             nonce |-> mem'.nonce]

Control == GoesOn \/ Return(TRUE) \/ Return(FALSE) \/ Throw

(* What it may make of the records. *)
Recorded ==
  /\ SavedOK'
  /\ DOMAIN saved \subseteq DOMAIN saved'
  /\ \/ At("BaseRegistrarImplementation")' = At("BaseRegistrarImplementation")
     \/ /\ Runs("BaseRegistrarImplementation")
        /\ At("BaseRegistrarImplementation")' = NewAt("BaseRegistrarImplementation")

Quiet ==
  /\ Harmless(chain') /\ (chain'.node["etn."] = chain.node["etn."])
  /\ Recorded /\ Control

TypesOK == ChainOK /\ SavedOK /\ MemOK /\ RunOK /\ outcome = "running"

LEMMA UnchangedIsHarmless == ChainOK => Harmless(chain)
BY DEF ChainOK, Harmless

LEMMA AtIsAddress ==
  ASSUME SavedOK, NEW c
  PROVE  /\ At(c) = Nobody \/ \E k \in Nat : At(c) = <<c, k>>
         /\ c \in DOMAIN saved /\ c # "nobody" => At(c) # Nobody
         /\ \E k \in Nat \ {0} : NewAt(c) = <<c, k>>
<1>1. At(c) = Nobody \/ \E k \in Nat : At(c) = <<c, k>>
  BY DEF SavedOK, At
<1>2. At(c)[2] \in Nat
  BY <1>1 DEF Nobody
<1>3. ASSUME c \in DOMAIN saved, c # "nobody" PROVE At(c) # Nobody
  <2>1. PICK k \in Nat : At(c) = <<c, k>>
    BY <1>3 DEF SavedOK, At
  <2> QED
    BY <1>3, <2>1 DEF Nobody
<1>4. \E k \in Nat \ {0} : NewAt(c) = <<c, k>>
  BY <1>2 DEF NewAt
<1> QED
  BY <1>1, <1>3, <1>4

LEMMA FixedNodes == {"root.", "etn.", "com.", "reverse.", "addr.reverse."} \subseteq OtherNodes
BY DEF OtherNodes

LEMMA HarmlessWrites ==
  ASSUME ChainOK, SavedOK, NEW c, NEW who, NEW n \in OtherNodes, NEW a, NEW slot
  PROVE  /\ Harmless(SetOwner(c, who))
         /\ Harmless(SetNode(n, who))
         /\ Harmless(SetResolver(n, who))
         /\ Harmless(SetPointer(a, slot, who))
         /\ who # Owner => Harmless(AddController(c, who))
         /\ Harmless(Constructed(c, who))
<1> USE DEF ChainOK, Harmless
<1>1. \A l \in Labels : l # n /\ l \in Nodes
  BY RolloutAssumption DEF Nodes
<1>2. n \in Nodes
  BY DEF Nodes
<1>3. Harmless(SetOwner(c, who))
  BY DEF SetOwner
<1>4. Harmless(SetNode(n, who))
  BY <1>1, <1>2 DEF SetNode
<1>5. Harmless(SetResolver(n, who))
  BY <1>1, <1>2 DEF SetResolver
<1>6. Harmless(SetPointer(a, slot, who))
  BY DEF SetPointer
<1>7. who # Owner => Harmless(AddController(c, who))
  BY DEF AddController
<1>8. Harmless(Constructed(c, who))
  <2>1. NewAt(c) # Nobody
    BY AtIsAddress DEF Nobody
  <2> QED
    BY <2>1 DEF Constructed, Put
<1> QED
  BY <1>3, <1>4, <1>5, <1>6, <1>7, <1>8

LEMMA PointersAreHarmless ==
  ASSUME NEW after, Harmless(after), NEW p
  PROVE  Harmless([after EXCEPT !.points = p]) /\ [after EXCEPT !.points = p].node = after.node
BY DEF Harmless

LEMMA KeptRecords == ASSUME SavedOK, saved' = saved PROVE Recorded
BY DEF Recorded, SavedOK, At

LEMMA KeptLocals ==
  ASSUME MemOK, UNCHANGED <<place, done, outcome, mem>>, pc' \in Nat \ {0, 1} PROVE GoesOn
BY DEF MemOK, GoesOn

LEMMA ControlSteps ==
  ASSUME TypesOK
  PROVE  /\ \A k \in Nat \ {0, 1} : Goto(k) => Quiet
         /\ Skip => Quiet
         /\ Throw => Quiet
         /\ Return(TRUE) => Quiet
         /\ Return(FALSE) => Quiet
<1>1. ASSUME UNCHANGED <<chain, saved>>, Control PROVE Quiet
  BY <1>1, UnchangedIsHarmless, KeptRecords DEF TypesOK, Quiet
<1>2. ASSUME NEW next \in Nat \ {0, 1}, Goto(next) PROVE Quiet
  BY <1>1, <1>2, KeptLocals DEF TypesOK, Goto, Control
<1>3. pc + 1 \in Nat \ {0, 1}
  BY DEF TypesOK, RunOK
<1> QED
  BY <1>1, <1>2, <1>3 DEF Skip, Throw, Return, Control

LEMMA TxIsQuiet ==
  ASSUME TypesOK, NEW allowed, NEW after, NEW next \in Nat \ {0, 1},
         Harmless(after), after.node["etn."] = chain.node["etn."],
         Tx(allowed, after, mem, next)
  PROVE  Quiet
<1>1. CASE allowed
  BY <1>1, KeptRecords, KeptLocals DEF Tx, TypesOK, Quiet, Control
<1>2. CASE ~allowed
  BY <1>2, ControlSteps DEF Tx
<1> QED
  BY <1>1, <1>2

LEMMA SendIsQuiet ==
  ASSUME TypesOK, NEW allowed, NEW after, NEW settled,
         Harmless(after), after.node["etn."] = chain.node["etn."]
  PROVE  /\ Send(allowed, after) => Quiet
         /\ SendUnless(settled, allowed, after) => Quiet
<1>1. pc + 1 \in Nat \ {0, 1}
  BY DEF TypesOK, RunOK
<1>2. Send(allowed, after) => Quiet
  BY <1>1, TxIsQuiet DEF Send
<1> QED
  BY <1>1, <1>2, ControlSteps DEF SendUnless

LEMMA CreateIsQuiet ==
  ASSUME TypesOK, NEW c, NEW args, NEW built,
         c # "BaseRegistrarImplementation" \/ Runs("BaseRegistrarImplementation"),
         Harmless(built), built.node["etn."] = chain.node["etn."],
         Create(c, args, built)
  PROVE  Quiet /\ GoesOn /\ c \in DOMAIN saved'
<1> DEFINE new == [at |-> NewAt(c), args |-> args]
<1>0. PICK fresh : /\ mem' = [mem EXCEPT !.fresh = fresh]
                   /\ IF fresh THEN saved' = Put(saved, c, new) /\ chain' = built
                               ELSE c \in DOMAIN saved /\ UNCHANGED <<saved, chain>>
  BY DEF Create
<1>1. GoesOn
  BY <1>0 DEF Create, GoesOn, TypesOK, RunOK, MemOK
<1>2. CASE fresh
  <2>1. /\ DOMAIN saved' = DOMAIN saved \cup {c}
        /\ \A d \in DOMAIN saved \ {c} : saved'[d] = saved[d]
        /\ saved'[c].at = NewAt(c)
    BY <1>0, <1>2 DEF Put
  <2>2. SavedOK'
    BY <2>1, AtIsAddress DEF SavedOK, TypesOK
  <2>3. Recorded
    BY <2>1, <2>2 DEF Recorded, At
  <2> QED
    BY <1>0, <1>1, <1>2, <2>1, <2>3 DEF Quiet, Control, TypesOK, Harmless, Owner
<1>3. CASE ~fresh
  BY <1>0, <1>1, <1>3, UnchangedIsHarmless
     DEF Quiet, Control, TypesOK, Harmless, Recorded, SavedOK, At, Owner
<1> QED
  BY <1>2, <1>3

LEMMA DeployIsQuiet ==
  ASSUME TypesOK, NEW c, NEW args,
         c # "BaseRegistrarImplementation" \/ Runs("BaseRegistrarImplementation"),
         Deploy(c, args)
  PROVE  Quiet /\ GoesOn /\ c \in DOMAIN saved'
<1>1. Harmless(Constructed(c, Deployer))
  BY FixedNodes, HarmlessWrites DEF TypesOK
<1>2. Constructed(c, Deployer).node = chain.node
  BY DEF Constructed, TypesOK, ChainOK
<1> QED
  BY <1>1, <1>2, CreateIsQuiet DEF Deploy

LEMMA ClaimingIsQuiet ==
  ASSUME TypesOK, NEW c, NEW args, NEW built, c # "BaseRegistrarImplementation",
         Harmless(built), built.node["etn."] = chain.node["etn."],
         DeployClaiming(c, args, built)
  PROVE  Quiet /\ ((GoesOn /\ c \in DOMAIN saved') \/ Throw)
BY CreateIsQuiet, ControlSteps DEF DeployClaiming

LEMMA HandOverIsQuiet ==
  ASSUME TypesOK, NEW c
  PROVE  /\ HandOver(c) => Quiet
         /\ HandOverIfFresh(c) => Quiet
<1>1. Harmless(SetOwner(c, Owner)) /\ SetOwner(c, Owner).node = chain.node
  BY FixedNodes, HarmlessWrites DEF TypesOK, SetOwner, ChainOK
<1>2. HandOver(c) => Quiet
  BY <1>1, SendIsQuiet DEF HandOver
<1> QED
  BY <1>2, ControlSteps DEF HandOverIfFresh

LEMMA AtIsNoKey ==
  ASSUME TypesOK, NEW c, c \notin {"deployer", "owner"} PROVE At(c) # Owner
<1>1. At(c) = Nobody \/ \E k \in Nat : At(c) = <<c, k>>
  BY AtIsAddress DEF TypesOK
<1>2. Owner \in {<<"deployer", 0>>, <<"owner", 0>>} /\ Nobody # Owner
  BY Constants DEF TypesOK, Deployer, OwnerKey
<1> QED
  BY <1>1, <1>2

LEMMA WritesAreQuiet ==
  ASSUME TypesOK, NEW allowed, NEW settled, NEW c, NEW who, NEW a, NEW slot
  PROVE  /\ Send(allowed, SetOwner(c, who)) => Quiet
         /\ SendUnless(settled, allowed, SetOwner(c, who)) => Quiet
         /\ Send(allowed, SetPointer(a, slot, who)) => Quiet
         /\ SendUnless(settled, allowed, SetPointer(a, slot, who)) => Quiet
         /\ Tx(allowed, SetPointer(a, slot, who), mem, 2) => Quiet
         /\ who # Owner => /\ Send(allowed, AddController(c, who)) => Quiet
                           /\ SendUnless(settled, allowed, AddController(c, who)) => Quiet
<1>1. /\ Harmless(SetOwner(c, who)) /\ Harmless(SetPointer(a, slot, who))
      /\ who # Owner => Harmless(AddController(c, who))
  BY FixedNodes, HarmlessWrites DEF TypesOK
<1>2. /\ SetOwner(c, who).node = chain.node /\ SetPointer(a, slot, who).node = chain.node
      /\ AddController(c, who).node = chain.node
  BY DEF SetOwner, SetPointer, AddController, ChainOK, TypesOK
<1> QED
  BY <1>1, <1>2, SendIsQuiet, TxIsQuiet, 2 \in Nat \ {0, 1}

LEMMA NodeWritesAreQuiet ==
  ASSUME TypesOK, NEW allowed, NEW settled, NEW who, NEW n \in OtherNodes
  PROVE  /\ n # "etn." => /\ Send(allowed, SetNode(n, who)) => Quiet
                          /\ SendUnless(settled, allowed, SetNode(n, who)) => Quiet
         /\ SendUnless(settled, allowed, SetResolver(n, who)) => Quiet
<1>1. Harmless(SetNode(n, who)) /\ Harmless(SetResolver(n, who))
  BY HarmlessWrites DEF TypesOK
<1>2. /\ n # "etn." => SetNode(n, who).node["etn."] = chain.node["etn."]
      /\ SetResolver(n, who).node = chain.node
  BY DEF SetNode, SetResolver, ChainOK, TypesOK, Nodes, OtherNodes
<1> QED
  BY <1>1, <1>2, SendIsQuiet

LEMMA RootScriptsAreQuiet ==
  ASSUME TypesOK, RootAtHand, RootStep PROVE Quiet
<1> USE ControlSteps, DeployIsQuiet, HandOverIsQuiet, WritesAreQuiet, FixedNodes
<1>1. CASE DeployRegistry
  <2>1. Harmless(SetNode("root.", Deployer)) /\ SetNode("root.", Deployer).node["etn."] = chain.node["etn."]
    BY HarmlessWrites DEF TypesOK, SetNode, ChainOK, Nodes
  <2> QED
    BY <1>1, <2>1, CreateIsQuiet, NodeWritesAreQuiet DEF DeployRegistry
<1>2. CASE DeployOracle
  BY <1>2 DEF DeployOracle
<1>3. CASE DeployOffchainResolver \/ DeployPublicSuffixList
  BY <1>3 DEF DeployOffchainResolver, DeployPublicSuffixList
<1>4. CASE DeployDNSRegistrar \/ EnableTlds
  BY <1>4, NodeWritesAreQuiet, AtIsNoKey DEF DeployDNSRegistrar, EnableTlds
<1>5. CASE DeployRoot \/ DeployRootSecurityController
  BY <1>5 DEF DeployRoot, DeployRootSecurityController
<1>6. CASE SetupRoot
  <2>1. ASSUME pc = 3 PROVE Harmless(AddController("Root", Owner))
    <3>1. \E k \in Nat : At("Root") = <<"Root", k>>
      BY <1>6, <2>1, AtIsAddress DEF TypesOK, RootAtHand, SetupRoot
    <3> QED
      BY <3>1 DEF AddController, Harmless, TypesOK, ChainOK
  <2>2. AddController("Root", Owner).node = chain.node
    BY DEF AddController, TypesOK, ChainOK
  <2> QED
    BY <1>6, <2>1, <2>2, SendIsQuiet, NodeWritesAreQuiet, AtIsNoKey, 5 \in Nat \ {0, 1}
       DEF SetupRoot
<1>7. CASE DeployAlgorithms \/ DeployDigests
  <2> DEFINE Verifying == {"RSASHA1Algorithm", "RSASHA256Algorithm", "P256SHA256Algorithm",
                           "DummyAlgorithm", "SHA1Digest", "SHA256Digest", "DummyDigest"}
  <2>1. ASSUME NEW contracts \in Seq(Verifying), DeployEach(contracts) PROVE Quiet
    <3>1. ASSUME pc \in DOMAIN contracts PROVE contracts[pc] # "BaseRegistrarImplementation"
      <4>1. contracts[pc] \in Verifying
        BY <2>1, <3>1
      <4> QED
        BY <4>1
    <3> QED
      BY <2>1, <3>1 DEF DeployEach
  <2>2. /\ <<"RSASHA1Algorithm", "RSASHA256Algorithm", "P256SHA256Algorithm">> \in Seq(Verifying)
        /\ <<"SHA1Digest", "SHA256Digest">> \in Seq(Verifying)
        /\ <<"DummyAlgorithm">> \in Seq(Verifying) /\ <<"DummyDigest">> \in Seq(Verifying)
        /\ << >> \in Seq(Verifying)
    OBVIOUS
  <2> HIDE DEF Verifying
  <2>3. \A s, t \in Seq(Verifying) : s \o t \in Seq(Verifying)
    OBVIOUS
  <2> QED
    BY <1>7, <2>1, <2>2, <2>3 DEF DeployAlgorithms, DeployDigests
<1> QED
  BY <1>1, <1>2, <1>3, <1>4, <1>5, <1>6, <1>7 DEF RootStep

LEMMA ResolverScriptsAreQuiet ==
  ASSUME TypesOK, ResolverStep, ~Runs("PublicResolver") PROVE Quiet
<1> USE ControlSteps, DeployIsQuiet, HandOverIsQuiet, WritesAreQuiet, NodeWritesAreQuiet,
        FixedNodes
<1>1. CASE DeployOwnedResolver \/ DeployLegacyPublicResolver
  BY <1>1 DEF DeployOwnedResolver, DeployLegacyPublicResolver
<1>2. CASE DeployExtendedDNSResolver
  <2>1. \A i \in DOMAIN <<"ExtendedDNSResolver">> :
          <<"ExtendedDNSResolver">>[i] # "BaseRegistrarImplementation"
    OBVIOUS
  <2> QED
    BY <1>2, <2>1 DEF DeployExtendedDNSResolver, DeployEach
<1>3. CASE DeployReverseRegistrar
  BY <1>3 DEF DeployReverseRegistrar
<1>4. CASE DeployDefaultReverseRegistrar \/ DeployDefaultReverseResolver
  BY <1>4 DEF DeployDefaultReverseRegistrar, DeployDefaultReverseResolver
<1>5. CASE DeployNameWrapper
  <2>1. /\ Harmless(Constructed("NameWrapper", Deployer))
        /\ Constructed("NameWrapper", Deployer).node = chain.node
    BY HarmlessWrites DEF TypesOK, ChainOK, Constructed
  <2>2. \A p : /\ Harmless([Constructed("NameWrapper", Deployer) EXCEPT !.points = p])
              /\ [Constructed("NameWrapper", Deployer) EXCEPT !.points = p].node = chain.node
    BY <2>1, PointersAreHarmless
  <2> QED
    BY <1>5, <2>1, <2>2, ClaimingIsQuiet, AtIsNoKey DEF DeployNameWrapper, NameWrapperIsDone
<1>6. CASE DeployMetadataService \/ UpdateMetadataService
  BY <1>6 DEF DeployMetadataService, UpdateMetadataService
<1>7. CASE DeployGatewayProvider
  <2>1. /\ Harmless(Constructed("BatchGatewayProvider", Owner))
        /\ Constructed("BatchGatewayProvider", Owner).node = chain.node
    BY HarmlessWrites DEF TypesOK, ChainOK, Constructed
  <2> QED
    BY <1>7, <2>1, CreateIsQuiet DEF DeployGatewayProvider
<1>8. CASE DeployUniversalResolver
  BY <1>8, ClaimingIsQuiet, UnchangedIsHarmless DEF DeployUniversalResolver, TypesOK
<1>9. CASE DeployMigrationHelper
  BY <1>9 DEF DeployMigrationHelper
<1> QED
  BY <1>1, <1>2, <1>3, <1>4, <1>5, <1>6, <1>7, <1>8, <1>9 DEF ResolverStep, DeployPublicResolver

LEMMA SharedScriptsAreQuiet ==
  ASSUME TypesOK,
         DeployMulticall \/ DeploySigValidator \/ DeployL2Registrar
  PROVE  Quiet
<1> USE ControlSteps, DeployIsQuiet
<1>1. ASSUME NEW account, Fund(account) PROVE Quiet
  <2> DEFINE after == [chain EXCEPT !.funded = @ \cup {account}]
  <2>1. Harmless(after) /\ after.node = chain.node
    BY DEF TypesOK, ChainOK, Harmless
  <2> QED
    BY <1>1, <2>1, SendIsQuiet DEF Fund
<1>2. ASSUME NEW site, NEW next \in Nat \ {0, 1},
             Tx(TRUE, [chain EXCEPT !.code = @ \cup {site}], mem, next)
      PROVE  Quiet
  <2> DEFINE after == [chain EXCEPT !.code = @ \cup {site}]
  <2>1. Harmless(after) /\ after.node = chain.node
    BY DEF TypesOK, ChainOK, Harmless
  <2> QED
    BY <1>2, <2>1, TxIsQuiet
<1>3. ASSUME NEW site, NEW mined \in Nat \ {0, 1}, NEW rejected \in Nat \ {0, 1},
             NEW unfunded \in Nat \ {0, 1}, Broadcast(site, mined, rejected, unfunded)
      PROVE  Quiet
  BY <1>2, <1>3 DEF Broadcast
<1>4. ASSUME NEW c, c # "BaseRegistrarImplementation", Record(c) PROVE Quiet
  <2>1. /\ DOMAIN saved' = DOMAIN saved \cup {c}
        /\ \A d \in DOMAIN saved \ {c} : saved'[d] = saved[d]
        /\ saved'[c].at = <<c, 0>>
    BY <1>4 DEF Record, Put
  <2>2. Recorded
    BY <1>4, <2>1, 0 \in Nat DEF Recorded, SavedOK, At, TypesOK
  <2>3. pc + 1 \in Nat \ {0, 1}
    BY DEF TypesOK, RunOK
  <2>4. GoesOn
    BY <1>4, <2>3, KeptLocals DEF Record, TypesOK
  <2> QED
    BY <1>4, <2>2, <2>4, UnchangedIsHarmless DEF Record, Quiet, Control, TypesOK
<1>5. 2 \in Nat \ {0, 1} /\ 3 \in Nat \ {0, 1} /\ 4 \in Nat \ {0, 1} /\ 5 \in Nat \ {0, 1}
      /\ 6 \in Nat \ {0, 1} /\ 7 \in Nat \ {0, 1}
  OBVIOUS
<1>6. CASE DeployMulticall
  BY <1>1, <1>3, <1>4, <1>5, <1>6 DEF DeployMulticall, ProbeMulticall
<1>7. CASE DeploySigValidator
  <2>1. Send(TRUE, [chain EXCEPT !.code = @ \cup {"UniversalSigValidator"}]) => Quiet
    <3>1. pc + 1 \in Nat \ {0, 1}
      BY DEF TypesOK, RunOK
    <3> QED
      BY <1>2, <3>1, Zenon DEF Send
  <2>2. Deploy("UniversalSigValidator", << >>) => Quiet
    BY DeployIsQuiet
  <2>3. /\ Broadcast("DDP", 4, 6, 2) => Quiet
        /\ Fund("DDP") => Quiet
        /\ Goto(4) => Quiet
    BY <1>1, <1>3, <1>5, ControlSteps
  <2> QED
    BY <1>7, <2>1, <2>2, <2>3, ControlSteps DEF DeploySigValidator
<1>8. CASE DeployL2Registrar
  <2>1. CASE SafeExecute
    <3>1. ASSUME Executable(mem.nonce) PROVE Quiet
      BY <1>2, <1>5, <2>1, <3>1 DEF SafeExecute, WithL2Registrar, Tx
    <3> QED
      BY <2>1, <3>1 DEF SafeExecute
  <2>2. CASE SafeCreate
    <3>1. GoesOn
      BY <1>5, <2>2 DEF SafeCreate, GoesOn, TypesOK, MemOK
    <3> QED
      BY <2>2, <3>1, KeptRecords, UnchangedIsHarmless DEF SafeCreate, Quiet, Control, TypesOK
  <2> QED
    BY <1>4, <1>5, <1>8, <2>1, <2>2
       DEF DeployL2Registrar, SafePending, SafePropose, SafeConfirm
<1> QED
  BY <1>6, <1>7, <1>8

LEMMA RegistrarScriptsAreQuiet ==
  ASSUME TypesOK,
         \/ DeployBaseRegistrar \/ DeployRegistrarSecurityController \/ DeployPriceOracle
         \/ DeployLegacyController \/ DeployWrappedController \/ DeployController
         \/ DeployBulkRenewal \/ EnableWrapping
  PROVE  Quiet
<1> USE ControlSteps, DeployIsQuiet, HandOverIsQuiet, WritesAreQuiet
<1>1. CASE DeployBaseRegistrar \/ DeployRegistrarSecurityController
  BY <1>1 DEF DeployBaseRegistrar, DeployRegistrarSecurityController
<1>2. CASE DeployPriceOracle
  <2>1. \A args :
          /\ Deploy("OwnedUsdOracle", args) => Quiet
          /\ Deploy("DummyOracle", args) => Quiet
          /\ Deploy("ExponentialPremiumPriceOracle", args) => Quiet
    OBVIOUS
  <2> QED
    BY <1>2, <2>1 DEF DeployPriceOracle
<1>3. ASSUME NEW who, who # Owner, AddRegistrarController(who) PROVE Quiet
  BY <1>3 DEF AddRegistrarController
<1>4. ASSUME NEW c, NEW who, who # Owner, SetControllerOn(c, who) PROVE Quiet
  BY <1>4 DEF SetControllerOn
<1>5. ASSUME NEW n, NEW interface, NEW at, SetInterface(n, interface, at) PROVE Quiet
  BY <1>5 DEF SetInterface
<1>6. CASE DeployLegacyController
  BY <1>3, <1>6, AtIsNoKey DEF DeployLegacyController
<1>7. CASE DeployWrappedController
  BY <1>3, <1>4, <1>5, <1>7, AtIsNoKey DEF DeployWrappedController
<1>8. CASE DeployController
  BY <1>3, <1>4, <1>5, <1>8, AtIsNoKey DEF DeployController
<1>9. CASE DeployBulkRenewal
  BY <1>5, <1>9 DEF DeployBulkRenewal
<1>10. CASE EnableWrapping
  BY <1>4, <1>10, AtIsNoKey DEF EnableWrapping
<1> QED
  BY <1>1, <1>2, <1>6, <1>7, <1>8, <1>9, <1>10

-----------------------------------------------------------------------------
(* The scripts whose position matters to the names.                        *)

LEMMA SetupOfRoot ==
  ASSUME TypesOK, RootAtHand, SetupRoot PROVE RootAtHand'
<1>1. CASE UNCHANGED saved /\ pc = 2 /\ (OwnedBy("Root", Deployer) \/ OwnedBy("Root", Owner))
  BY <1>1 DEF OwnedBy, TypesOK, ChainOK, RootAtHand, At
<1>2. CASE UNCHANGED saved /\ pc = 3
  BY <1>2 DEF SetupRoot, RootAtHand, At
<1>3. UNCHANGED saved
  BY DEF SetupRoot, SendUnless, Send, Tx, Throw, Skip, Goto, Return
<1>4. CASE pc \notin {2, 3} \/ (pc = 2 /\ ~OwnedBy("Root", Deployer) /\ ~OwnedBy("Root", Owner))
  BY <1>4 DEF SetupRoot, SendUnless, Send, Tx, Throw, Skip, Goto, Return, RootAtHand, Runs
<1> QED
  BY <1>1, <1>2, <1>3, <1>4

LEMMA Sending ==
  ASSUME TypesOK, NEW settled, NEW allowed, NEW after
  PROVE  /\ Send(allowed, after) =>
              /\ UNCHANGED saved
              /\ \/ GoesOn /\ allowed /\ (chain' = after) /\ (pc' = pc + 1) /\ UNCHANGED mem
                 \/ Throw /\ ~allowed
         /\ SendUnless(settled, allowed, after) =>
              /\ UNCHANGED saved
              /\ \/ GoesOn /\ settled /\ UNCHANGED chain /\ (pc' = pc + 1) /\ UNCHANGED mem
                 \/ GoesOn /\ ~settled /\ allowed /\ (chain' = after) /\ (pc' = pc + 1) /\ UNCHANGED mem
                 \/ Throw /\ ~settled /\ ~allowed
<1>1. ASSUME UNCHANGED <<place, done, outcome, mem>>, pc' = pc + 1 PROVE GoesOn
  BY <1>1, KeptLocals DEF TypesOK, RunOK
<1>2. Throw => UNCHANGED saved
  BY DEF Throw
<1> QED
  BY <1>1, <1>2 DEF SendUnless, Send, Tx, Skip, Goto

LEMMA SetupOfRegistrar ==
  ASSUME TypesOK, SetupBaseRegistrar
  PROVE  /\ Harmless(chain') /\ UNCHANGED saved
         /\ \/ GoesOn /\ (pc' = 2 \/ NodeOfTld')
            \/ Return(FALSE) /\ (~Tag("use_root") \/ pc > 2)
            \/ Throw
<1>1. /\ Harmless(SetOwner("BaseRegistrarImplementation", At("RegistrarSecurityController")))
      /\ Harmless(SetNode("etn.", At("BaseRegistrarImplementation")))
      /\ Harmless(chain)
  BY FixedNodes, HarmlessWrites, UnchangedIsHarmless DEF TypesOK
<1>2. CASE Return(FALSE) /\ (~Tag("use_root") \/ pc > 2)
  BY <1>1, <1>2 DEF Return
<1>3. CASE Throw
  BY <1>1, <1>3 DEF Throw
<1>4. CASE pc = 1 /\ Tag("use_root")
  <2> DEFINE after == SetOwner("BaseRegistrarImplementation", At("RegistrarSecurityController"))
  <2>1. SendUnless(RegistrarIsSecured, OwnedBy("BaseRegistrarImplementation", Deployer), after)
    <3>1. pc # 2 /\ pc # 3
      BY <1>4
    <3> QED
      BY <1>4, <3>1, Zenon DEF SetupBaseRegistrar
  <2> HIDE DEF after
  <2>2. UNCHANGED saved /\ ((GoesOn /\ chain' \in {chain, after} /\ pc' = pc + 1) \/ Throw)
    BY <2>1, Sending, Zenon
  <2>3. pc' = pc + 1 => pc' = 2
    BY <1>4
  <2>4. Harmless(after)
    BY <1>1 DEF after
  <2> QED
    BY <1>1, <1>3, <2>2, <2>3, <2>4, Zenon
<1>5. CASE pc = 2
  <2>1. SetNode("etn.", At("BaseRegistrarImplementation")).node["etn."]
          = At("BaseRegistrarImplementation")
    BY DEF SetNode, TypesOK, ChainOK, Nodes, OtherNodes
  <2>2. ASSUME UNCHANGED saved, chain'.node["etn."] = At("BaseRegistrarImplementation")
        PROVE  NodeOfTld'
    BY <2>2 DEF NodeOfTld, At
  <2>3. SendUnless(chain.node["etn."] = At("BaseRegistrarImplementation"),
                   RootAllows(Owner), SetNode("etn.", At("BaseRegistrarImplementation")))
    <3>1. pc # 1 /\ pc # 3
      BY <1>5
    <3> QED
      BY <1>5, <3>1, Zenon DEF SetupBaseRegistrar
  <2>4. \/ Throw
        \/ /\ UNCHANGED saved /\ GoesOn
           /\ \/ UNCHANGED chain /\ chain.node["etn."] = At("BaseRegistrarImplementation")
              \/ chain' = SetNode("etn.", At("BaseRegistrarImplementation"))
    BY <2>3, Sending, Zenon
  <2> QED
    BY <1>1, <1>3, <2>1, <2>2, <2>4
<1>6. \/ pc = 1 /\ ~Tag("use_root") /\ Return(FALSE)
      \/ pc = 1 /\ Tag("use_root")
      \/ pc = 2
      \/ pc = 3 /\ Return(FALSE)
  BY Zenon DEF SetupBaseRegistrar
<1>7. pc = 3 => pc > 2
  OBVIOUS
<1> QED
  BY <1>2, <1>4, <1>5, <1>6, <1>7, Zenon

LEMMA PublicResolverScript ==
  ASSUME TypesOK, OrderOK, DeployPublicResolver
  PROVE  /\ Harmless(chain') /\ chain'.node["etn."] = chain.node["etn."] /\ Recorded
         /\ \/ GoesOn /\ "PublicResolver" \in DOMAIN saved'
            \/ Return(FALSE) /\ pc > 1
            \/ Throw
<1> DEFINE resolver == At("PublicResolver")
<1>1. CASE pc = 1
  <2>1. Quiet /\ ((GoesOn /\ "PublicResolver" \in DOMAIN saved') \/ Throw)
    BY <1>1, ClaimingIsQuiet, UnchangedIsHarmless DEF DeployPublicResolver, TypesOK
  <2> QED
    BY <2>1 DEF Quiet
<1>2. CASE pc > 1
  <2>1. "PublicResolver" \in DOMAIN saved /\ resolver # Nobody
    <3>1. Passed("PublicResolver", 1)
      BY <1>2, Places DEF DeployPublicResolver, Runs, Passed, TypesOK, RunOK
    <3> QED
      BY <3>1, AtIsAddress DEF OrderOK, TypesOK
  <2> DEFINE first  == SetPointer(At("ReverseRegistrar"), "defaultResolver", resolver)
             second == SetResolver("resolver", resolver)
             third  == SetPointer(resolver, "resolver", resolver)
  <2>2. /\ Harmless(first) /\ first.node = chain.node
        /\ Harmless(third) /\ third.node = chain.node
    BY FixedNodes, HarmlessWrites DEF TypesOK, SetPointer, ChainOK
  <2>3. /\ Harmless(second) /\ second.node = chain.node
    <3> HIDE DEF resolver
    <3> QED
      BY <2>1 DEF SetResolver, Harmless, TypesOK, ChainOK, Nodes
  <2>4. Harmless(chain)
    BY UnchangedIsHarmless DEF TypesOK
  <2> HIDE DEF first, second, third
  <2>5. \/ Return(FALSE) \/ Throw
        \/ GoesOn /\ UNCHANGED saved /\ chain' \in {chain, first, second, third}
    <3>1. \/ Return(FALSE)
          \/ \E settled, allowed : \/ SendUnless(settled, allowed, first)
                                  \/ SendUnless(settled, allowed, second)
                                  \/ SendUnless(settled, allowed, third)
      <4>1. pc # 1
        BY <1>2
      <4> QED
        BY <4>1, Zenon DEF DeployPublicResolver, first, second, third
    <3> QED
      BY <3>1, Sending
  <2>6. CASE Return(FALSE) \/ Throw
    BY <1>2, <2>4, <2>6, KeptRecords DEF Return, Throw, TypesOK
  <2>7. CASE GoesOn /\ UNCHANGED saved /\ chain' \in {chain, first, second, third}
    BY <2>1, <2>2, <2>3, <2>4, <2>7, KeptRecords DEF TypesOK
  <2> QED
    BY <2>5, <2>6, <2>7
<1>3. pc = 1 \/ pc > 1
  BY DEF TypesOK, RunOK
<1> QED
  BY <1>1, <1>2, <1>3

-----------------------------------------------------------------------------
(* From one script to the next.                                            *)

LEMMA LaterIsBehind ==
  ASSUME Later # {}
  PROVE  /\ Min(Later) \in DOMAIN Pipeline /\ Pipeline[Min(Later)] \in net.scripts
         /\ Min(Later) > place
         /\ \A i \in DOMAIN Pipeline : Pipeline[i] \in net.scripts \ done /\ i > place => Min(Later) <= i
<1>1. Later \subseteq Nat
  BY Places DEF Later, Selected
<1> QED
  BY <1>1, MinIsLeast DEF Later, Selected

LEMMA PlaceAfter ==
  ASSUME TypesOK, Control, UNCHANGED <<net, env>>,
         Return(TRUE) => Pipeline[place] \notin {"BaseRegistrarImplementation:setup", "PublicResolver"}
  PROVE  RunOK'
<1>1. ASSUME NEW true \in BOOLEAN, Return(true),
             true => Pipeline[place] \notin {"BaseRegistrarImplementation:setup", "PublicResolver"}
      PROVE  RunOK'
  <2>1. done' \subseteq Scripts \ {"BaseRegistrarImplementation:setup", "PublicResolver"}
    BY <1>1 DEF Return, TypesOK, RunOK, Scripts
  <2>2. outcome' = "running" => /\ place' \in DOMAIN Pipeline /\ Pipeline[place'] \in net.scripts
                                /\ pc' = 1
    BY <1>1, LaterIsBehind DEF Return
  <2> QED
    BY <2>1, <2>2 DEF RunOK, TypesOK
<1>2. GoesOn => RunOK'
  BY DEF GoesOn, TypesOK, RunOK
<1>3. Throw => RunOK'
  BY DEF Throw, TypesOK, RunOK
<1> QED
  BY <1>1, <1>2, <1>3 DEF Control

LEMMA Passing ==
  ASSUME TypesOK, Control, UNCHANGED net, NEW k \in Nat \ {0},
         NEW s \in {"BaseRegistrarImplementation:setup", "PublicResolver"}, Passed(s, k)'
  PROVE  \/ Passed(s, k)
         \/ Runs(s) /\ pc <= k /\ ((GoesOn /\ pc' > k) \/ Return(TRUE) \/ Return(FALSE))
<1>1. PICK i \in DOMAIN Pipeline : Pipeline[i] = s /\ (place' > i \/ (place' = i /\ pc' > k))
  BY DEF Passed
<1>2. outcome = "running" /\ s \in net.scripts \ done /\ place \in Nat /\ pc \in Nat /\ i \in Nat
  BY Places DEF Passed, TypesOK, RunOK
<1>3. CASE GoesOn
  <2>1. CASE place > i \/ (place = i /\ pc > k)
    BY <1>1, <1>2, <2>1 DEF Passed
  <2>2. CASE ~(place > i \/ (place = i /\ pc > k))
    <3>1. place = i /\ pc' > k /\ pc <= k
      BY <1>1, <1>2, <1>3, <2>2 DEF GoesOn
    <3> QED
      BY <1>1, <1>2, <1>3, <3>1 DEF Runs
  <2> QED
    BY <2>1, <2>2
<1>4. ASSUME NEW true, Return(true) PROVE Passed(s, k) \/ (Runs(s) /\ pc <= k)
  <2>1. /\ Later # {} /\ place' = Min(Later) /\ pc' = 1
    BY <1>4 DEF Return, Passed
  <2>2. ~(i > place)
    <3>1. SUFFICES ASSUME i > place PROVE FALSE
      OBVIOUS
    <3>2. Min(Later) <= i /\ Min(Later) \in Nat
      BY <1>1, <1>2, <2>1, <3>1, LaterIsBehind, Places
    <3> QED
      BY <1>1, <1>2, <2>1, <3>2
  <2> QED
    BY <1>1, <1>2, <2>2 DEF Passed, Runs
<1>5. ~Throw
  BY DEF Throw, Passed
<1> QED
  BY <1>3, <1>4, <1>5 DEF Control

\* The control of a step in the terms of the next statement.
LEMMA NextStatement ==
  ASSUME TypesOK, Control
  PROVE  /\ MemOK'
         /\ \/ GoesOn
            \/ mem' = NoLocals /\ (outcome' = "running" => pc' = 1)
<1>1. (Return(TRUE) \/ Return(FALSE) \/ Throw)
        => mem' = NoLocals /\ (outcome' = "running" => pc' = 1)
  BY DEF Return, Throw
<1>2. mem' = NoLocals => MemOK'
  BY DEF MemOK, NoLocals
<1>3. GoesOn => MemOK'
  BY DEF GoesOn, MemOK, TypesOK
<1> QED
  BY <1>1, <1>2, <1>3 DEF Control

(* A step that is harmless to the names, of a script that does not have    *)
(* the role: of one of the others, or the first or last of the two.        *)
LEMMA HarmlessSteps ==
  ASSUME TypesOK, RolesOK, GrantOK, NamesOK, ~Granted, UNCHANGED <<net, env, lost, mishaps>>,
         Harmless(chain'), Recorded, Control,
         GoesOn => ~Runs("ReservedNames") /\ ~Runs("InfrastructureNames")
  PROVE  ChainOK' /\ SavedOK' /\ MemOK' /\ RolesOK' /\ GrantOK' /\ NamesOK'
         /\ ReservedOK' /\ InfrastructureOK'
<1> DEFINE registrar == At("BaseRegistrarImplementation")
<1>1. ChainOK' /\ SavedOK' /\ MemOK'
  BY NextStatement DEF Harmless, ChainOK, Recorded, TypesOK
<1>2. Owner' = Owner
  BY DEF Owner
<1>3. registrar[2] \in Nat
  BY AtIsAddress DEF TypesOK, Nobody
<1>4. \/ registrar' = registrar
      \/ registrar' = <<"BaseRegistrarImplementation", 1 + registrar[2]>>
  BY DEF Recorded, NewAt
<1>5. RolesOK'
  BY <1>1, <1>2, <1>3, <1>4 DEF RolesOK, Harmless, Recorded
<1>6. OwnerIsController' => OwnerIsController
  BY <1>2, <1>3, <1>4, AtIsAddress
     DEF RolesOK, Harmless, OwnerIsController, IsController, TypesOK, Nobody
<1>7. Taken => Taken'
  BY DEF Taken, NodeTaken, Harmless
<1>8. ~Granted'
  BY NextStatement DEF GoesOn, Granted, Runs, NoLocals
<1>9. GrantOK'
  BY <1>6, <1>7, <1>8 DEF GrantOK
<1>10. NamesOK'
  BY <1>2 DEF NamesOK, Harmless
<1>11. ReservedOK' /\ InfrastructureOK'
  BY NextStatement DEF GoesOn, ReservedOK, InfrastructureOK, NodeTaken, Runs
<1> QED
  BY <1>1, <1>5, <1>9, <1>10, <1>11

\* The scripts that do not register names.
LEMMA OtherScripts ==
  ASSUME RolloutInv, RunScript, ~Runs("ReservedNames"), ~Runs("InfrastructureNames")
  PROVE  RolloutInv'
<1> DEFINE setup == "BaseRegistrarImplementation:setup"
<1> /\ TypesOK /\ ~Granted /\ UNCHANGED <<net, env, lost, mishaps>>
    /\ (UNCHANGED net => (Tag("use_root") <=> Tag("use_root")'))
  BY DEF RolloutInv, RunScript, TypesOK, Granted, Tag
<1>1. ASSUME Harmless(chain'), Recorded, Control, OrderOK', RootAtHand',
             Return(TRUE) => ~Runs(setup) /\ ~Runs("PublicResolver")
      PROVE  RolloutInv'
  <2>1. RunOK'
    BY <1>1, PlaceAfter DEF Runs, TypesOK
  <2> QED
    BY <1>1, <2>1, HarmlessSteps DEF RolloutInv
<1>2. ASSUME Quiet, ~Runs(setup), ~Runs("PublicResolver"), Runs("Root:setup") => RootAtHand'
      PROVE  RolloutInv'
  <2>1. RootAtHand'
    <3>1. CASE ~Runs("Root:setup")
      BY <1>2, <3>1, NextStatement DEF Quiet, GoesOn, Runs, RootAtHand
    <3> QED
      BY <1>2, <3>1
  <2>2. ASSUME Passed(setup, 2)', Tag("use_root") PROVE NodeOfTld'
    <3>1. Passed(setup, 2)
      BY <1>2, <2>2, Passing, 2 \in Nat \ {0} DEF Quiet
    <3>2. NodeOfTld
      BY <2>2, <3>1 DEF RolloutInv, OrderOK
    <3>3. ~Runs("BaseRegistrarImplementation")
      BY <3>1, Places DEF Passed, Runs, TypesOK, RunOK
    <3> QED
      BY <1>2, <3>2, <3>3 DEF Quiet, Recorded, NodeOfTld
  <2>3. ASSUME Passed("PublicResolver", 1)' PROVE "PublicResolver" \in DOMAIN saved'
    <3>1. Passed("PublicResolver", 1)
      BY <1>2, <2>3, Passing, 1 \in Nat \ {0} DEF Quiet
    <3> QED
      BY <1>2, <3>1 DEF RolloutInv, OrderOK, Quiet, Recorded
  <2>4. OrderOK'
    BY <2>2, <2>3 DEF OrderOK
  <2> QED
    BY <1>1, <1>2, <2>1, <2>4 DEF Quiet
<1>3. CASE SetupBaseRegistrar
  <2>1. Runs(setup)
    BY <1>3 DEF SetupBaseRegistrar
  <2>2. /\ Harmless(chain') /\ UNCHANGED saved /\ Recorded
        /\ \/ GoesOn /\ (pc' = 2 \/ NodeOfTld')
           \/ Return(FALSE) /\ (~Tag("use_root") \/ pc > 2)
           \/ Throw
    BY <1>3, SetupOfRegistrar, KeptRecords DEF TypesOK
  <2>3. ASSUME Passed(setup, 2)', Tag("use_root") PROVE NodeOfTld'
    <3>1. Passed(setup, 2) => NodeOfTld
      BY <2>3 DEF RolloutInv, OrderOK
    <3>2. CASE GoesOn
      <4>1. pc' > 2
        BY <2>1, <2>3, <3>2, Places DEF GoesOn, Passed, Runs, TypesOK, RunOK
      <4> QED
        BY <2>2, <3>2, <4>1 DEF GoesOn, Return, Throw, TypesOK
    <3>3. CASE Return(FALSE) /\ pc > 2
      <4>1. Passed(setup, 2)
        BY <2>1, <3>3, Places DEF Passed, Runs, TypesOK, RunOK
      <4> QED
        BY <2>2, <3>1, <3>3, <4>1 DEF Return, NodeOfTld, At
    <3>4. ~Throw
      BY <2>3 DEF Throw, Passed
    <3> QED
      BY <2>2, <2>3, <3>2, <3>3, <3>4
  <2>4. ASSUME Passed("PublicResolver", 1)' PROVE "PublicResolver" \in DOMAIN saved'
    <3>1. Passed("PublicResolver", 1)
      BY <2>1, <2>2, <2>4, Passing, 1 \in Nat \ {0} DEF Control, Runs
    <3> QED
      BY <2>2, <3>1 DEF RolloutInv, OrderOK
  <2>5. OrderOK' /\ RootAtHand'
    BY <2>1, <2>2, <2>3, <2>4 DEF OrderOK, RootAtHand, GoesOn, Return, Throw, Runs
  <2>6. ~Return(TRUE)
    BY <2>1, <2>2, Places DEF Return, GoesOn, Throw, TypesOK, Runs, RunOK
  <2> QED
    BY <1>1, <2>2, <2>5, <2>6 DEF Control
<1>4. CASE DeployPublicResolver
  <2>1. Runs("PublicResolver")
    BY <1>4 DEF DeployPublicResolver
  <2>2. /\ Harmless(chain') /\ chain'.node["etn."] = chain.node["etn."] /\ Recorded
        /\ \/ GoesOn /\ "PublicResolver" \in DOMAIN saved'
           \/ Return(FALSE) /\ pc > 1
           \/ Throw
    BY <1>4, PublicResolverScript DEF RolloutInv
  <2>3. ASSUME Passed(setup, 2)', Tag("use_root") PROVE NodeOfTld'
    <3>1. Passed(setup, 2)
      BY <2>1, <2>2, <2>3, Passing, 2 \in Nat \ {0} DEF Control, Runs
    <3> QED
      BY <2>1, <2>2, <2>3, <3>1 DEF RolloutInv, OrderOK, Recorded, NodeOfTld, Runs
  <2>4. ASSUME Passed("PublicResolver", 1)' PROVE "PublicResolver" \in DOMAIN saved'
    <3>1. Passed("PublicResolver", 1) \/ GoesOn \/ pc > 1
      BY <2>2, <2>4 DEF Throw, Passed
    <3>2. pc > 1 => Passed("PublicResolver", 1)
      BY <2>1, Places DEF Passed, Runs, TypesOK, RunOK
    <3>3. GoesOn => "PublicResolver" \in DOMAIN saved'
      BY <2>2 DEF GoesOn, Return, Throw
    <3> QED
      BY <2>2, <3>1, <3>2, <3>3 DEF RolloutInv, OrderOK, Recorded
  <2>5. OrderOK' /\ RootAtHand'
    BY <2>1, <2>2, <2>3, <2>4 DEF OrderOK, RootAtHand, GoesOn, Return, Throw, Runs
  <2>6. ~Return(TRUE)
    BY <2>1, <2>2, Places DEF Return, GoesOn, Throw, TypesOK, Runs, RunOK
  <2> QED
    BY <1>1, <2>2, <2>5, <2>6 DEF Control
<1>5. CASE RootStep
  <2>1. /\ ~Runs(setup) /\ ~Runs("PublicResolver")
        /\ Runs("Root:setup") => SetupRoot
    BY <1>5 DEF RootStep, Runs, DeployRegistry, DeployAlgorithms, DeployDigests, DeployOracle,
         DeployOffchainResolver, DeployPublicSuffixList, DeployDNSRegistrar, EnableTlds,
         DeployRoot, DeployRootSecurityController, SetupRoot
  <2> QED
    BY <1>2, <1>5, <2>1, RootScriptsAreQuiet, SetupOfRoot DEF RolloutInv
<1>6. CASE RegistrarStep /\ ~SetupBaseRegistrar
  <2>1. \/ DeployBaseRegistrar \/ DeployRegistrarSecurityController \/ DeployPriceOracle
        \/ DeployLegacyController \/ DeployWrappedController \/ DeployController
        \/ DeployBulkRenewal \/ EnableWrapping
    BY <1>6 DEF RegistrarStep, RegisterReservedNames, RegisterInfrastructureNames
  <2>2. ~Runs(setup) /\ ~Runs("PublicResolver") /\ ~Runs("Root:setup")
    BY <2>1 DEF Runs, DeployBaseRegistrar, DeployRegistrarSecurityController,
         DeployPriceOracle, DeployLegacyController, DeployWrappedController, DeployController,
         DeployBulkRenewal, EnableWrapping
  <2> QED
    BY <1>2, <2>1, <2>2, RegistrarScriptsAreQuiet
<1>7. CASE ResolverStep /\ ~DeployPublicResolver
  <2>1. ~Runs(setup) /\ ~Runs("PublicResolver") /\ ~Runs("Root:setup")
    BY <1>7 DEF ResolverStep, Runs, DeployOwnedResolver, DeployExtendedDNSResolver,
         DeployLegacyPublicResolver, DeployReverseRegistrar, DeployDefaultReverseRegistrar,
         DeployDefaultReverseResolver, DeployMetadataService, DeployNameWrapper,
         UpdateMetadataService, DeployGatewayProvider, DeployUniversalResolver,
         DeployMigrationHelper
  <2> QED
    BY <1>2, <1>7, <2>1, ResolverScriptsAreQuiet
<1>8. CASE DeployMulticall \/ DeploySigValidator \/ DeployL2Registrar
  <2>1. ~Runs(setup) /\ ~Runs("PublicResolver") /\ ~Runs("Root:setup")
    BY <1>8 DEF Runs, DeployMulticall, DeploySigValidator, DeployL2Registrar
  <2> QED
    BY <1>2, <1>8, <2>1, SharedScriptsAreQuiet
<1> QED
  BY <1>3, <1>4, <1>5, <1>6, <1>7, <1>8 DEF RunScript

-----------------------------------------------------------------------------
(* The scripts that register names.                                        *)

NamesRun == outcome = "running" /\ Pipeline[place] \in NameScripts

Aside == UNCHANGED <<net, env, lost, mishaps>>

\* They come behind the setup of the registrar and the public resolver.
LEMMA BehindTheSetup ==
  ASSUME RolloutInv, NamesRun
  PROVE  /\ Tag("use_root") => NodeOfTld
         /\ Runs("InfrastructureNames") => At("PublicResolver") # Nobody
<1>1. \A s \in net.scripts : Dependencies(s) \subseteq net.scripts
  BY Constants DEF RolloutInv
<1>2. /\ "BaseRegistrarImplementation:setup" \in Dependencies("ReservedNames")
      /\ "ReservedNames" \in Dependencies("PublicResolver")
      /\ "PublicResolver" \in Dependencies("InfrastructureNames")
  <2>1. {"BaseRegistrarImplementation:setup", "ReservedNames", "PublicResolver"} \subseteq Scripts
    <3>1. 15 \in DOMAIN Pipeline /\ 26 \in DOMAIN Pipeline /\ 28 \in DOMAIN Pipeline
      BY Places
    <3> QED
      BY <3>1, Places DEF Scripts
  <2> QED
    BY <2>1 DEF Dependencies, DependsOn
<1>3. Pipeline[place] \in net.scripts /\ place \in DOMAIN Pipeline
  BY DEF RolloutInv, RunOK, NamesRun
<1>4. CASE Runs("ReservedNames")
  <2>1. "BaseRegistrarImplementation:setup" \in net.scripts
    BY <1>1, <1>2, <1>3, <1>4 DEF Runs
  <2>2. Passed("BaseRegistrarImplementation:setup", 2)
    <3>1. place = 26 /\ 15 \in DOMAIN Pipeline /\ Pipeline[15] = "BaseRegistrarImplementation:setup"
      BY <1>3, <1>4, Places DEF Runs
    <3> QED
      BY <1>4, <2>1, <3>1 DEF Passed, Runs
  <2> QED
    BY <1>4, <2>2 DEF RolloutInv, OrderOK, Runs
<1>5. CASE Runs("InfrastructureNames")
  <2>1. {"BaseRegistrarImplementation:setup", "PublicResolver"} \subseteq net.scripts
    BY <1>1, <1>2, <1>3, <1>5 DEF Runs
  <2>2. Passed("BaseRegistrarImplementation:setup", 2) /\ Passed("PublicResolver", 1)
    <3>1. /\ place = 29 /\ 15 \in DOMAIN Pipeline /\ 28 \in DOMAIN Pipeline
          /\ Pipeline[15] = "BaseRegistrarImplementation:setup"
          /\ Pipeline[28] = "PublicResolver"
      BY <1>3, <1>5, Places DEF Runs
    <3> QED
      BY <1>5, <2>1, <3>1 DEF Passed, Runs
  <2> QED
    BY <2>2, AtIsAddress DEF RolloutInv, OrderOK
<1> QED
  BY <1>4, <1>5 DEF NamesRun, NameScripts, Runs

\* They end without the role, or because a name was taken.
LEMMA NamesEnd ==
  ASSUME RolloutInv, NamesRun, Aside,
         Return(TRUE) \/ Return(FALSE) \/ Throw,
         Granted => Throw /\ Taken
  PROVE  RolloutInv'
<1> USE DEF RolloutInv
<1>1. TypesOK /\ UNCHANGED <<net, env, lost, mishaps, chain, saved>> /\ Control
  BY DEF TypesOK, NamesRun, Aside, Return, Throw, Control
<1>2. RunOK'
  <2>1. Pipeline[place] \notin {"BaseRegistrarImplementation:setup", "PublicResolver"}
    BY DEF NamesRun, NameScripts
  <2> QED
    BY <1>1, <2>1, PlaceAfter
<1>3. MemOK' /\ mem' = NoLocals /\ (outcome' = "running" => pc' = 1)
  BY <1>1, NextStatement DEF GoesOn, Return, Throw
<1>4. ReservedOK' /\ InfrastructureOK' /\ RootAtHand'
  BY <1>3 DEF ReservedOK, InfrastructureOK, NodeTaken, RootAtHand, Runs
<1>5. /\ Tag("use_root")' <=> Tag("use_root")
      /\ NodeOfTld' <=> NodeOfTld
      /\ OwnerIsController' <=> OwnerIsController
      /\ Taken' <=> Taken
      /\ ~Granted'
  BY <1>1, <1>3 DEF Tag, NodeOfTld, At, OwnerIsController, IsController, Owner, Taken, NodeTaken, Granted, NoLocals
<1>6. OrderOK'
  <2>1. ASSUME NEW k \in Nat \ {0}, NEW s \in {"BaseRegistrarImplementation:setup", "PublicResolver"},
               Passed(s, k)'
        PROVE  Passed(s, k)
    BY <1>1, <2>1, Passing DEF NamesRun, NameScripts, Runs
  <2> QED
    BY <1>1, <1>5, <2>1, 1 \in Nat \ {0}, 2 \in Nat \ {0} DEF OrderOK
<1>7. ChainOK' /\ SavedOK' /\ RolesOK' /\ NamesOK'
  BY <1>1 DEF ChainOK, SavedOK, RolesOK, NamesOK, At, Owner
<1>8. GrantOK'
  BY <1>1, <1>5 DEF GrantOK
<1> QED
  BY <1>2, <1>3, <1>4, <1>6, <1>7, <1>8

\* They go on: what a statement leaves as it is.
LEMMA NamesGoOn ==
  ASSUME RolloutInv, NamesRun, Aside, UNCHANGED <<saved, done, place, outcome>>,
         pc' \in Nat \ {0, 1}, ChainOK', MemOK', chain'.node["etn."] = chain.node["etn."]
  PROVE  SavedOK' /\ RunOK' /\ OrderOK' /\ RootAtHand'
<1> USE DEF RolloutInv
<1>1. SavedOK' /\ RunOK'
  BY DEF SavedOK, RunOK, Aside
<1>2. RootAtHand'
  BY DEF RootAtHand, Runs, NamesRun, NameScripts
<1>3. ASSUME NEW k \in Nat \ {0}, NEW s \in {"BaseRegistrarImplementation:setup", "PublicResolver"},
             Passed(s, k)'
      PROVE  Passed(s, k)
  BY <1>3 DEF Passed, NamesRun, NameScripts, Aside
<1>4. OrderOK'
  BY <1>3, 1 \in Nat \ {0}, 2 \in Nat \ {0} DEF OrderOK, NodeOfTld, At, Tag, Aside
<1> QED
  BY <1>1, <1>2, <1>4

\* One of them writes nothing and goes on.
LEMMA NamesStay ==
  ASSUME RolloutInv, NamesRun, Aside, UNCHANGED <<chain, saved, done, place, outcome>>,
         pc' \in Nat \ {0, 1}, MemOK', Granted' <=> Granted, ReservedOK', InfrastructureOK'
  PROVE  RolloutInv'
<1> USE DEF RolloutInv
<1>1. ChainOK' /\ RolesOK' /\ NamesOK'
  BY DEF ChainOK, RolesOK, NamesOK, At, Owner, Aside
<1>2. GrantOK'
  BY DEF GrantOK, OwnerIsController, IsController, SecurityControllerAllows, OwnedBy, At, Owner,
         Taken, NodeTaken, Aside
<1> QED
  BY <1>1, <1>2, NamesGoOn

\* Writes that leave the owners and the controllers of the contracts alone.
LEMMA RolesStay ==
  ASSUME RolesOK, UNCHANGED <<net, env, lost, saved>>,
         chain'.controllers = chain.controllers, chain'.owner = chain.owner
  PROVE  /\ RolesOK'
         /\ OwnerIsController' <=> OwnerIsController
         /\ SecurityControllerAllows' <=> SecurityControllerAllows
BY DEF RolesOK, OwnerIsController, IsController, SecurityControllerAllows, OwnedBy, At, Owner

LEMMA Granting ==
  ASSUME RolloutInv, NamesRun, Aside, NEW next \in Nat \ {0, 1}, Grant(next)
  PROVE  \/ Throw /\ ~OwnerIsController
         \/ /\ UNCHANGED <<saved, done, place, outcome>> /\ pc' = next
            /\ OwnerIsController' /\ ChainOK' /\ MemOK' /\ RolesOK' /\ NamesOK'
            /\ (chain'.node = chain.node) /\ (chain'.token = chain.token)
            /\ \/ OwnerIsController /\ UNCHANGED <<chain, mem>>
               \/ SecurityControllerAllows' /\ (mem' = [mem EXCEPT !.granted = TRUE])
<1> USE DEF RolloutInv
<1> DEFINE registrar == At("BaseRegistrarImplementation")
<1>1. CASE OwnerIsController
  <2>1. Goto(next)
    BY <1>1 DEF Grant
  <2>2. ChainOK' /\ MemOK' /\ NamesOK'
    BY <2>1 DEF Goto, ChainOK, MemOK, NamesOK, Owner, Aside
  <2> QED
    BY <1>1, <2>1, <2>2, RolesStay DEF Goto, Aside
<1>2. CASE ~OwnerIsController /\ SecurityControllerAllows
  <2>1. /\ chain' = AddController("BaseRegistrarImplementation", Owner)
        /\ mem' = [mem EXCEPT !.granted = TRUE] /\ pc' = next
        /\ UNCHANGED <<saved, done, place, outcome>>
    BY <1>2 DEF Grant, Tx
  <2>2. /\ ChainOK' /\ chain'.node = chain.node /\ chain'.token = chain.token
        /\ chain'.resolver = chain.resolver /\ chain'.owner = chain.owner
        /\ chain'.controllers = chain.controllers \cup {<<registrar, Owner>>}
    BY <2>1 DEF AddController, ChainOK
  <2>3. registrar # Nobody /\ "BaseRegistrarImplementation" \in DOMAIN saved
    BY <1>2 DEF SecurityControllerAllows, OwnedBy, ChainOK, At
  <2>4. RolesOK'
    <3>1. PICK k \in Nat : registrar = <<"BaseRegistrarImplementation", k>>
      BY <2>3, AtIsAddress
    <3>2. UNCHANGED registrar /\ UNCHANGED Owner
      BY <2>1 DEF At, Owner, Aside
    <3> QED
      BY <2>1, <2>2, <2>3, <3>1, <3>2 DEF RolesOK
  <2>5. OwnerIsController' /\ SecurityControllerAllows'
    BY <1>2, <2>1, <2>2 DEF OwnerIsController, IsController, SecurityControllerAllows, OwnedBy,
                            At, Owner, Aside
  <2>6. MemOK' /\ NamesOK'
    BY <2>1, <2>2 DEF MemOK, NamesOK, Owner, Aside
  <2> QED
    BY <2>1, <2>2, <2>4, <2>5, <2>6
<1>3. CASE ~OwnerIsController /\ ~SecurityControllerAllows
  BY <1>3 DEF Grant, Tx
<1> QED
  BY <1>1, <1>2, <1>3

LEMMA Revoking ==
  ASSUME RolloutInv, NamesRun, Aside, RevokeIfGranted, mem.granted => Granted
  PROVE  /\ UNCHANGED <<saved, done, place, outcome, mem>> /\ pc' = pc + 1
         /\ ChainOK' /\ RolesOK' /\ NamesOK'
         /\ (chain'.node = chain.node) /\ (chain'.token = chain.token)
         /\ OwnerIsController' => OwnerIsController /\ ~mem.granted
<1> USE DEF RolloutInv
<1>1. CASE ~mem.granted
  <2>1. UNCHANGED <<chain, saved, done, place, outcome, mem>> /\ pc' = pc + 1
    BY <1>1 DEF RevokeIfGranted, SendUnless, Skip, Goto
  <2> QED
    BY <1>1, <2>1, RolesStay DEF ChainOK, NamesOK, Owner, Aside
<1>2. CASE mem.granted
  <2>1. /\ chain' = DropController("BaseRegistrarImplementation", Owner)
        /\ UNCHANGED <<saved, done, place, outcome, mem>> /\ pc' = pc + 1
    BY <1>2 DEF RevokeIfGranted, SendUnless, Send, Tx, GrantOK
  <2>2. /\ ChainOK' /\ chain'.node = chain.node /\ chain'.token = chain.token
        /\ chain'.resolver = chain.resolver
        /\ chain'.controllers = chain.controllers \ {<<At("BaseRegistrarImplementation"), Owner>>}
    BY <2>1 DEF DropController, ChainOK
  <2>3. RolesOK' /\ NamesOK' /\ ~OwnerIsController'
    BY <2>1, <2>2 DEF RolesOK, NamesOK, OwnerIsController, IsController, At, Owner, Aside
  <2> QED
    BY <2>1, <2>2, <2>3
<1> QED
  BY <1>1, <1>2 DEF MemOK

LEMMA Registering ==
  ASSUME RolloutInv, Aside, UNCHANGED saved,
         NEW l \in Labels, RegisterAllowed(l), chain' = Registered(l)
  PROVE  /\ ChainOK' /\ RolesOK' /\ NamesOK' /\ OwnerIsController'
         /\ SecurityControllerAllows' <=> SecurityControllerAllows
         /\ chain'.node["etn."] = chain.node["etn."]
         /\ \A m \in Labels \ {l} : chain'.token[m] = chain.token[m] /\ chain'.node[m] = chain.node[m]
         /\ Taken => Taken'
<1> USE DEF RolloutInv
<1>0. l \in Nodes /\ "etn." \in Nodes /\ l # "etn."
  BY RolloutAssumption DEF Nodes, OtherNodes
<1>1. /\ ChainOK' /\ chain'.controllers = chain.controllers /\ chain'.owner = chain.owner
      /\ chain'.resolver = chain.resolver
      /\ chain'.token[l] = Owner /\ chain'.node[l] = Owner
      /\ chain'.node["etn."] = chain.node["etn."]
      /\ \A m \in Labels \ {l} : chain'.token[m] = chain.token[m] /\ chain'.node[m] = chain.node[m]
  BY <1>0 DEF Registered, ChainOK, Nodes
<1>2. chain.token[l] = Nobody
  BY DEF RegisterAllowed, Available
<1>3. Owner' = Owner /\ Owner # Manager
  BY Constants DEF Owner, Aside
<1>4. NamesOK'
  BY <1>1, <1>3 DEF NamesOK
<1>5. Taken => Taken'
  <2>1. chain.token[l] # Public /\ chain.node[l] # Manager
    BY <1>2 DEF NamesOK, Nobody, Manager, Public
  <2> QED
    BY <1>1, <2>1 DEF Taken, NodeTaken, Aside
<1> QED
  BY <1>1, <1>4, <1>5, RolesStay DEF RegisterAllowed, Aside

LEMMA ReservedScript ==
  ASSUME RolloutInv, RegisterReservedNames, Aside
  PROVE  RolloutInv'
<1> USE DEF RolloutInv
<1> /\ NamesRun /\ Runs("ReservedNames") /\ ~Runs("InfrastructureNames")
    /\ 3 \in Nat \ {0, 1}
  BY DEF RegisterReservedNames, NamesRun, NameScripts, Runs
<1>0. ASSUME UNCHANGED <<place, outcome>>
      PROVE  /\ Runs("ReservedNames")' /\ ~Runs("InfrastructureNames")' /\ InfrastructureOK'
  BY <1>0 DEF Runs, InfrastructureOK, NodeTaken
<1>1. CASE pc = 1 \/ pc = 5
  <2>1. CASE Return(TRUE) \/ Return(FALSE)
    <3>1. ~Granted
      BY <1>1 DEF Granted
    <3> QED
      BY <2>1, <3>1, NamesEnd
  <2>2. CASE /\ pc = 1 /\ Tag("use_root")
             /\ Remember([mem EXCEPT !.left = Pending])
    <3>1. /\ mem' = [mem EXCEPT !.left = Pending] /\ pc' = 2
          /\ UNCHANGED <<chain, saved, done, place, outcome>>
      BY <2>2 DEF Remember
    <3>2. MemOK' /\ ~mem.granted /\ ~mem'.granted /\ mem'.left = Pending
      BY <2>2, <3>1 DEF MemOK, NoLocals
    <3>3. ReservedOK'
      BY <2>2, <3>1, <3>2 DEF ReservedOK, Pending, FreeOrTaken, Available, Tag, Aside
    <3>4. ~Granted /\ ~Granted'
      BY <3>2 DEF Granted
    <3> QED
      BY <1>0, <3>1, <3>2, <3>3, <3>4, NamesStay
  <2>3. pc \notin {2, 3, 4} /\ ~(pc = 1 /\ pc = 5)
    BY <1>1
  <2> QED
    BY <1>1, <2>1, <2>2, <2>3, Zenon DEF RegisterReservedNames
<1>2. CASE pc = 2
  <2>1. Grant(3)
    BY <1>2 DEF RegisterReservedNames
  <2>2. CASE Throw /\ ~OwnerIsController
    BY <2>2, NamesEnd DEF GrantOK
  <2>3. CASE ~(Throw /\ ~OwnerIsController)
    <3>1. /\ UNCHANGED <<saved, done, place, outcome>> /\ pc' = 3
          /\ OwnerIsController' /\ ChainOK' /\ MemOK' /\ RolesOK' /\ NamesOK'
          /\ chain'.node = chain.node /\ chain'.token = chain.token
          /\ \/ OwnerIsController /\ UNCHANGED <<chain, mem>>
             \/ SecurityControllerAllows' /\ (mem' = [mem EXCEPT !.granted = TRUE])
      BY <2>1, <2>3, Granting
    <3>2. mem'.left = mem.left
      BY <3>1 DEF MemOK
    <3>3. ReservedOK'
      BY <1>2, <3>1, <3>2 DEF ReservedOK, FreeOrTaken, Available, Tag, Aside
    <3>4. GrantOK'
      <4>1. CASE UNCHANGED <<chain, mem>>
        <5>1. /\ Granted' <=> Granted
              /\ SecurityControllerAllows' <=> SecurityControllerAllows
              /\ Taken' <=> Taken
          BY <1>0, <1>2, <3>1, <4>1 DEF Granted, SecurityControllerAllows, OwnedBy, At, Owner,
             Taken, NodeTaken, Aside
        <5>2. OwnerIsController
          BY <3>1, <4>1 DEF OwnerIsController, IsController, At, Owner, Aside
        <5> QED
          BY <3>1, <5>1, <5>2 DEF GrantOK, Aside
      <4>2. CASE SecurityControllerAllows' /\ (mem' = [mem EXCEPT !.granted = TRUE])
        BY <1>0, <3>1, <4>2 DEF GrantOK, Granted, MemOK
      <4> QED
        BY <3>1, <4>1, <4>2
    <3> QED
      BY <1>0, <3>1, <3>3, <3>4, NamesGoOn
  <2> QED
    BY <2>2, <2>3
<1>3. CASE pc = 3 /\ mem.left = {}
  <2>1. Goto(4)
    BY <1>3 DEF RegisterReservedNames, Skip
  <2>2. MemOK' /\ ReservedOK' /\ (Granted' <=> Granted)
    BY <1>0, <1>3, <2>1 DEF Goto, MemOK, ReservedOK, Granted, Tag, Aside
  <2> QED
    BY <1>0, <2>1, <2>2, NamesStay DEF Goto
<1>4. CASE pc = 3 /\ mem.left # {}
  <2> DEFINE l == Reserved[First]
  <2>1. Tx(RegisterAllowed(l), Registered(l), [mem EXCEPT !.left = Rest], 3)
    BY <1>4 DEF RegisterReservedNames
  <2>2. First \in mem.left /\ First \in DOMAIN Reserved /\ l \in Labels
        /\ mem.left \subseteq DOMAIN Reserved
    <3>1. mem.left \subseteq DOMAIN Reserved /\ DOMAIN Reserved \subseteq Nat
      BY <1>4, RolloutAssumption DEF ReservedOK
    <3> QED
      BY <1>4, <3>1, MinIsLeast DEF First, Labels
  <2>3. Tag("use_root") /\ OwnerIsController /\ NodeOfTld /\ FreeOrTaken(l)
        /\ \A i \in mem.left : FreeOrTaken(Reserved[i])
    BY <1>4, <2>2, BehindTheSetup DEF ReservedOK
  <2> HIDE DEF l
  <2>4. CASE ~RegisterAllowed(l)
    <3>1. Throw /\ Taken
      BY <2>1, <2>2, <2>3, <2>4 DEF Tx, RegisterAllowed, NodeOfTld, FreeOrTaken, Taken, NodeTaken
    <3> QED
      BY <3>1, NamesEnd
  <2>5. CASE RegisterAllowed(l)
    <3>1. /\ chain' = Registered(l) /\ mem' = [mem EXCEPT !.left = Rest] /\ pc' = 3
          /\ UNCHANGED <<saved, done, place, outcome>>
      BY <2>1, <2>5 DEF Tx
    <3>2. /\ ChainOK' /\ RolesOK' /\ NamesOK' /\ OwnerIsController'
          /\ SecurityControllerAllows' <=> SecurityControllerAllows
          /\ chain'.node["etn."] = chain.node["etn."]
          /\ \A m \in Labels \ {l} : chain'.token[m] = chain.token[m]
          /\ Taken => Taken'
      BY <2>2, <2>5, <3>1, Registering
    <3>3. MemOK' /\ (mem'.granted <=> mem.granted) /\ mem'.left = mem.left \ {First}
      BY <3>1 DEF MemOK, Rest
    <3>4. ReservedOK'
      <4>1. ASSUME NEW i \in mem'.left PROVE FreeOrTaken(Reserved[i])'
        <5>1. i \in mem.left /\ i \in DOMAIN Reserved /\ i # First
          BY <2>2, <3>3, <4>1
        <5>2. Reserved[i] # l /\ Reserved[i] \in Labels
          BY <2>2, <5>1, RolloutAssumption DEF l, Labels
        <5> QED
          BY <2>3, <3>2, <5>1, <5>2 DEF FreeOrTaken, Available
      <4> QED
        BY <2>2, <2>3, <3>1, <3>2, <3>3, <4>1 DEF ReservedOK, Tag, Aside
    <3>5. GrantOK'
      BY <1>0, <1>4, <2>3, <3>1, <3>2, <3>3 DEF GrantOK, Granted, Aside
    <3> QED
      BY <1>0, <3>1, <3>2, <3>3, <3>4, <3>5, NamesGoOn
  <2> QED
    BY <2>4, <2>5
<1>5. CASE pc = 4
  <2>1. RevokeIfGranted
    BY <1>5 DEF RegisterReservedNames
  <2>2. mem.granted => Granted
    BY <1>5 DEF Granted
  <2>3. /\ UNCHANGED <<saved, done, place, outcome, mem>> /\ pc' = 5
        /\ ChainOK' /\ RolesOK' /\ NamesOK'
        /\ chain'.node = chain.node /\ chain'.token = chain.token
        /\ OwnerIsController' => OwnerIsController /\ ~mem.granted
    BY <1>5, <2>1, <2>2, Revoking
  <2>4. MemOK' /\ ReservedOK'
    BY <1>5, <2>3 DEF MemOK, ReservedOK, Tag, Aside
  <2>5. GrantOK'
    <3>1. ~Granted' /\ (Taken' <=> Taken) /\ (~mem.granted => ~Granted)
      BY <1>0, <2>3 DEF Granted, Taken, NodeTaken, Aside
    <3> QED
      BY <2>3, <3>1 DEF GrantOK, Aside
  <2> QED
    BY <1>0, <2>3, <2>4, <2>5, NamesGoOn
<1> QED
  BY <1>1, <1>2, <1>3, <1>4, <1>5 DEF RegisterReservedNames

\* The writes to a name's node.
LEMMA LabelWrites ==
  ASSUME ChainOK, NEW l \in Labels, NEW who
  PROVE  /\ chain' = SetNode(l, who) =>
              /\ ChainOK' /\ (chain'.token = chain.token) /\ (chain'.resolver = chain.resolver)
              /\ (chain'.controllers = chain.controllers) /\ (chain'.owner = chain.owner)
              /\ (chain'.node[l] = who) /\ (chain'.node["etn."] = chain.node["etn."])
              /\ \A m \in Labels \ {l} : chain'.node[m] = chain.node[m]
         /\ chain' = SetResolver(l, who) =>
              /\ ChainOK' /\ (chain'.token = chain.token) /\ (chain'.node = chain.node)
              /\ (chain'.controllers = chain.controllers) /\ (chain'.owner = chain.owner)
              /\ (chain'.resolver[l] = who)
              /\ \A m \in Labels \ {l} : chain'.resolver[m] = chain.resolver[m]
<1>1. l \in Nodes /\ l # "etn." /\ "etn." \in Nodes /\ Labels \subseteq Nodes
  BY RolloutAssumption DEF Nodes, OtherNodes
<1>2. ASSUME chain' = SetNode(l, who)
      PROVE  /\ ChainOK' /\ (chain'.token = chain.token) /\ (chain'.resolver = chain.resolver)
             /\ (chain'.controllers = chain.controllers) /\ (chain'.owner = chain.owner)
             /\ (chain'.node[l] = who) /\ (chain'.node["etn."] = chain.node["etn."])
             /\ \A m \in Labels \ {l} : chain'.node[m] = chain.node[m]
  BY <1>1, <1>2 DEF SetNode, ChainOK
<1>3. ASSUME chain' = SetResolver(l, who)
      PROVE  /\ ChainOK' /\ (chain'.token = chain.token) /\ (chain'.node = chain.node)
             /\ (chain'.controllers = chain.controllers) /\ (chain'.owner = chain.owner)
             /\ (chain'.resolver[l] = who)
             /\ \A m \in Labels \ {l} : chain'.resolver[m] = chain.resolver[m]
  BY <1>1, <1>3 DEF SetResolver, ChainOK
<1> QED
  BY <1>2, <1>3, Zenon

LEMMA InfrastructureScript ==
  ASSUME RolloutInv, RegisterInfrastructureNames, Aside
  PROVE  RolloutInv'
<1> USE DEF RolloutInv
<1> DEFINE l == Infrastructure[First]
           target == env.target
<1> /\ NamesRun /\ Runs("InfrastructureNames") /\ ~Runs("ReservedNames")
    /\ pc \in 1 .. 10
  BY DEF RegisterInfrastructureNames, NamesRun, NameScripts, Runs, InfrastructureOK, NodeTaken
<1>0. ASSUME UNCHANGED <<place, outcome>>
      PROVE  /\ Runs("InfrastructureNames")' /\ ~Runs("ReservedNames")' /\ ReservedOK'
  BY <1>0 DEF Runs, ReservedOK
<1>1. CASE pc \in {1, 10}
  <2>1. ~Granted
    BY <1>1 DEF Granted
  <2>2. CASE Return(TRUE) \/ Return(FALSE) \/ Throw
    BY <2>1, <2>2, NamesEnd
  <2>3. CASE /\ pc = 1 /\ Tag("use_root") /\ target # Nobody
             /\ Remember([mem EXCEPT !.left = DOMAIN Infrastructure])
    <3>1. /\ mem' = [mem EXCEPT !.left = DOMAIN Infrastructure] /\ pc' = 2
          /\ UNCHANGED <<chain, saved, done, place, outcome>>
      BY <2>3 DEF Remember
    <3>2. MemOK' /\ ~mem.granted /\ ~mem'.granted /\ mem'.left = DOMAIN Infrastructure
      BY <2>3, <3>1 DEF MemOK, NoLocals
    <3>3. InfrastructureOK'
      BY <2>3, <3>1, <3>2 DEF InfrastructureOK, NodeTaken, Tag, Aside
    <3>4. ~Granted'
      BY <3>2 DEF Granted
    <3> QED
      BY <1>0, <2>1, <3>1, <3>2, <3>3, <3>4, NamesStay
  <2>4. pc \notin 2 .. 9
    BY <1>1
  <2>5. \/ Return(TRUE) \/ Return(FALSE) \/ Throw
        \/ /\ pc = 1 /\ Tag("use_root") /\ target # Nobody
           /\ Remember([mem EXCEPT !.left = DOMAIN Infrastructure])
    <3>1. pc \notin {2, 3, 4, 5, 6, 7, 8, 9}
      BY <1>1
    <3> QED
      BY <3>1, Zenon DEF RegisterInfrastructureNames
  <2> QED
    BY <2>2, <2>3, <2>5
\* What is known behind the first statement.
<1>2. ASSUME pc \in 2 .. 9
      PROVE  /\ Tag("use_root") /\ NodeOfTld /\ target # Nobody /\ At("PublicResolver") # Nobody
             /\ mem.left \subseteq DOMAIN Infrastructure /\ (mem.granted <=> Granted)
             /\ mem.left # {} => First \in mem.left /\ l \in Labels
  <2>1. Tag("use_root") /\ target # Nobody /\ mem.left \subseteq DOMAIN Infrastructure
    BY <1>2 DEF InfrastructureOK, NodeTaken
  <2>2. DOMAIN Infrastructure \subseteq Nat
    BY RolloutAssumption
  <2>3. mem.left # {} => First \in mem.left /\ l \in Labels
    BY <2>1, <2>2, MinIsLeast DEF First, Labels
  <2>4. mem.granted <=> Granted
    BY <1>2 DEF Granted
  <2> QED
    BY <2>1, <2>3, <2>4, BehindTheSetup
<1>3. ASSUME UNCHANGED <<chain, saved, done, place, outcome>>, pc \in 2 .. 9, pc' \in 2 .. 9,
             MemOK', mem'.granted = mem.granted, InfrastructureOK'
      PROVE  RolloutInv'
  <2>1. Granted' <=> Granted
    BY <1>0, <1>2, <1>3 DEF Granted
  <2> QED
    BY <1>0, <1>3, <2>1, NamesStay
<1>4. CASE pc = 2
  <2>1. CASE mem.left # {}
    <3>1. /\ mem' = [mem EXCEPT !.available = Available(l)] /\ pc' = 3
          /\ UNCHANGED <<chain, saved, done, place, outcome>>
      BY <1>4, <2>1 DEF RegisterInfrastructureNames, Remember
    <3>2. MemOK' /\ mem'.granted = mem.granted /\ mem'.left = mem.left
          /\ (mem'.available <=> Available(l))
      <4> DEFINE free == Available(l)
      <4>1. free \in BOOLEAN /\ mem' = [mem EXCEPT !.available = free] /\ pc' # 1
        BY <3>1 DEF Available
      <4> HIDE DEF free
      <4>2. MemOK' /\ mem'.granted = mem.granted /\ mem'.left = mem.left /\ mem'.available = free
        BY <4>1 DEF MemOK
      <4> QED
        BY <4>2 DEF free
    <3>3. InfrastructureOK'
      BY <1>2, <1>4, <2>1, <3>1, <3>2 DEF InfrastructureOK, NodeTaken, FreeOrTaken, Available, First, Tag, Aside
    <3> QED
      BY <1>3, <1>4, <3>1, <3>2, <3>3
  <2>2. CASE mem.left = {}
    <3>1. Goto(9)
      BY <1>4, <2>2 DEF RegisterInfrastructureNames
    <3>2. MemOK' /\ InfrastructureOK'
      BY <1>2, <1>4, <3>1 DEF Goto, MemOK, InfrastructureOK, NodeTaken, Tag, Aside
    <3> QED
      BY <1>3, <1>4, <3>1, <3>2 DEF Goto
  <2> QED
    BY <2>1, <2>2
<1>5. CASE pc = 3
  <2>0. mem.left # {} /\ (mem.available => FreeOrTaken(l))
    BY <1>5 DEF InfrastructureOK, NodeTaken
  <2>1. CASE Goto(4) /\ ~(mem.available /\ ~mem.granted)
    <3>1. mem.available => OwnerIsController
      BY <1>2, <1>5, <2>1 DEF GrantOK
    <3>2. MemOK' /\ InfrastructureOK'
      BY <1>2, <1>5, <2>0, <2>1, <3>1
         DEF Goto, MemOK, InfrastructureOK, NodeTaken, FreeOrTaken, Available, First, Tag, Aside,
             OwnerIsController, IsController, At, Owner
    <3> QED
      BY <1>3, <1>5, <2>1, <3>2 DEF Goto
  <2>2. CASE Grant(4) /\ mem.available /\ ~mem.granted
    <3>0. 4 \in Nat \ {0, 1}
      OBVIOUS
    <3>1. CASE Throw /\ ~OwnerIsController
      BY <3>1, NamesEnd DEF GrantOK
    <3>2. CASE ~(Throw /\ ~OwnerIsController)
      <4>1. /\ UNCHANGED <<saved, done, place, outcome>> /\ pc' = 4
            /\ OwnerIsController' /\ ChainOK' /\ MemOK' /\ RolesOK' /\ NamesOK'
            /\ chain'.node = chain.node /\ chain'.token = chain.token
            /\ \/ OwnerIsController /\ UNCHANGED <<chain, mem>>
               \/ SecurityControllerAllows' /\ (mem' = [mem EXCEPT !.granted = TRUE])
        BY <2>2, <3>0, <3>2, Granting
      <4>2. mem'.left = mem.left
        BY <4>1 DEF MemOK
      <4>3. InfrastructureOK'
        BY <1>2, <1>5, <2>0, <2>2, <4>1, <4>2
           DEF InfrastructureOK, NodeTaken, FreeOrTaken, Available, First, Tag, Aside, MemOK
      <4>4. GrantOK'
        <5>1. CASE OwnerIsController /\ UNCHANGED <<chain, mem>>
          BY <1>2, <1>5, <2>2, <4>1, <5>1 DEF GrantOK, Granted, Taken, NodeTaken, Aside
        <5>2. CASE SecurityControllerAllows' /\ (mem' = [mem EXCEPT !.granted = TRUE])
          BY <1>0, <4>1, <5>2 DEF GrantOK, Granted, MemOK
        <5> QED
          BY <4>1, <5>1, <5>2
      <4> QED
        BY <1>0, <3>0, <4>1, <4>3, <4>4, NamesGoOn
    <3> QED
      BY <3>1, <3>2
  <2> QED
    BY <1>5, <2>1, <2>2 DEF RegisterInfrastructureNames
<1>6. CASE pc = 4
  <2>0. mem.left # {} /\ (mem.available => FreeOrTaken(l) /\ OwnerIsController)
    BY <1>6 DEF InfrastructureOK, NodeTaken
  <2>1. CASE ~mem.available
    <3>1. Goto(5)
      BY <1>6, <2>1 DEF RegisterInfrastructureNames, SendUnless, Skip
    <3>2. MemOK' /\ InfrastructureOK'
      BY <1>2, <1>6, <2>0, <2>1, <3>1 DEF Goto, MemOK, InfrastructureOK, NodeTaken, Tag, Aside
    <3> QED
      BY <1>3, <1>6, <3>1, <3>2 DEF Goto
  <2>2. CASE mem.available /\ ~RegisterAllowed(l)
    <3>1. Throw
      BY <1>6, <2>2 DEF RegisterInfrastructureNames, SendUnless, Send, Tx
    <3>2. chain.token[l] = Public /\ l \in Labels
      BY <1>2, <1>6, <2>0, <2>2 DEF RegisterAllowed, FreeOrTaken, NodeOfTld
    <3>3. Taken
      <4> HIDE DEF l
      <4> QED
        BY <3>2 DEF Taken, NodeTaken
    <3> QED
      BY <3>1, <3>3, NamesEnd
  <2>3. CASE mem.available /\ RegisterAllowed(l)
    <3>1. /\ chain' = Registered(l) /\ mem' = mem /\ pc' = 5
          /\ UNCHANGED <<saved, done, place, outcome>>
      BY <1>6, <2>3 DEF RegisterInfrastructureNames, SendUnless, Send, Tx
    <3>2. /\ ChainOK' /\ RolesOK' /\ NamesOK'
          /\ SecurityControllerAllows' <=> SecurityControllerAllows
          /\ OwnerIsController'
          /\ chain'.node["etn."] = chain.node["etn."]
          /\ Taken => Taken'
      <4> HIDE DEF l
      <4> QED
        BY <1>2, <1>6, <2>0, <2>3, <3>1, Registering
    <3>3. MemOK' /\ InfrastructureOK'
      <4>1. MemOK'
        BY <3>1 DEF MemOK
      <4>2. /\ Tag("use_root")' /\ env'.target # Nobody /\ pc' = 5
            /\ mem'.left \subseteq DOMAIN Infrastructure /\ mem'.left # {}
        BY <1>2, <1>6, <2>0, <3>1 DEF Tag, Aside
      <4>3. InfrastructureOK'
        BY <4>2 DEF InfrastructureOK, NodeTaken
      <4> QED
        BY <4>1, <4>3
    <3>4. GrantOK'
      <4>1. Granted' <=> Granted
        BY <1>0, <1>6, <3>1 DEF Granted
      <4> QED
        BY <2>0, <2>3, <3>2, <4>1 DEF GrantOK, Aside
    <3>5. pc' \in Nat \ {0, 1}
      BY <3>1
    <3> QED
      BY <1>0, <3>1, <3>2, <3>3, <3>4, <3>5, NamesGoOn
  <2> QED
    BY <2>1, <2>2, <2>3
<1>7. ASSUME NextName, pc \in {5, 8} PROVE RolloutInv'
  <2>1. /\ UNCHANGED <<chain, saved, done, place, outcome>> /\ pc' = 2
        /\ mem' = NameDone
    BY <1>7 DEF NextName
  <2>2. MemOK' /\ mem'.granted = mem.granted /\ mem'.left \subseteq mem.left
    <3>1. mem' = [fresh |-> mem.fresh, granted |-> mem.granted, available |-> FALSE,
                  left |-> Rest, registrant |-> Nobody, holder |-> Nobody, nonce |-> mem.nonce]
      BY <2>1 DEF NameDone, MemOK
    <3> QED
      BY <2>1, <3>1 DEF MemOK, Rest
  <2>3. InfrastructureOK'
    BY <1>2, <1>7, <2>1, <2>2 DEF InfrastructureOK, NodeTaken, Tag, Aside
  <2> QED
    BY <1>3, <1>7, <2>1, <2>2, <2>3
<1>8. CASE pc = 5
  <2>0. mem.left # {} /\ l \in Labels
    BY <1>2, <1>8 DEF InfrastructureOK, NodeTaken
  <2>1. CASE chain.token[l] \notin {Owner, target}
    BY <1>7, <1>8, <2>1 DEF RegisterInfrastructureNames
  <2>2. CASE chain.token[l] \in {Owner, target}
    <3>1. /\ mem' = [mem EXCEPT !.registrant = chain.token[l], !.holder = chain.node[l]]
          /\ pc' = 6 /\ UNCHANGED <<chain, saved, done, place, outcome>>
      BY <1>8, <2>2 DEF RegisterInfrastructureNames, Remember
    <3>2. MemOK' /\ mem'.granted = mem.granted /\ mem'.left = mem.left
          /\ mem'.registrant = chain.token[l] /\ mem'.holder = chain.node[l]
      <4> DEFINE token == chain.token[l]
                 node  == chain.node[l]
      <4>1. mem' = [mem EXCEPT !.registrant = token, !.holder = node] /\ pc' # 1
        BY <3>1
      <4> HIDE DEF token, node
      <4>2. mem' = [fresh |-> mem.fresh, granted |-> mem.granted, available |-> mem.available,
                    left |-> mem.left, registrant |-> token, holder |-> node, nonce |-> mem.nonce]
        BY <4>1 DEF MemOK
      <4>3. MemOK'
        BY <4>1, <4>2 DEF MemOK
      <4> QED
        BY <4>2, <4>3 DEF token, node
    <3>3. Owner # Nobody /\ target # Nobody /\ (chain.token[l] = Owner => chain.node[l] = Owner)
      BY <1>2, <1>8, <2>0, Constants DEF NamesOK
    <3>4. l' = l /\ Owner' = Owner /\ target' = target
      BY <3>2 DEF First, Owner, Aside
    <3>5. InfrastructureOK'
      <4> HIDE DEF l
      <4>1. l' = Infrastructure[First]' /\ l = Infrastructure[First]
        BY DEF l
      <4> QED
        BY <1>2, <1>8, <2>0, <2>2, <3>1, <3>2, <3>3, <3>4, <4>1 DEF InfrastructureOK, NodeTaken, Tag, Aside
    <3> QED
      BY <1>3, <1>8, <3>1, <3>2, <3>5
  <2> QED
    BY <2>1, <2>2
\* What is known of the name behind the fifth statement.
<1>9. ASSUME pc \in 6 .. 8
      PROVE  /\ mem.left # {} /\ l \in Labels /\ First \in mem.left
             /\ mem.registrant \in {Owner, target}
             /\ mem.registrant = Owner => mem.holder = Owner
             /\ mem.holder = Owner => chain.node[l] = Owner \/ NodeTaken(l)
             /\ chain.token[l] # Nobody
             /\ pc \in {6, 7} => chain.token[l] = mem.registrant
  BY <1>2, <1>9 DEF InfrastructureOK, NodeTaken
<1>10. ASSUME Throw, pc \in 6 .. 8, mem.holder = Owner, chain.node[l] # Owner PROVE RolloutInv'
  <2>1. NodeTaken(l) /\ l \in Labels
    BY <1>9, <1>10
  <2>2. Taken
    <3> HIDE DEF l
    <3> QED
      BY <2>1 DEF Taken
  <2> QED
    BY <1>10, <2>2, NamesEnd
\* A statement that sends nothing to the chain, or nothing about the roles.
<1>11. ASSUME UNCHANGED <<saved, done, place, outcome>>, pc \in 6 .. 8, pc' \in {2, 7, 8},
              MemOK', mem'.granted = mem.granted, ChainOK', NamesOK', InfrastructureOK',
              chain'.node["etn."] = chain.node["etn."], Taken => Taken',
              chain'.controllers = chain.controllers, chain'.owner = chain.owner
       PROVE  RolloutInv'
  <2>1. Granted' <=> Granted
    BY <1>0, <1>2, <1>11 DEF Granted
  <2>2. /\ RolesOK'
        /\ OwnerIsController' <=> OwnerIsController
        /\ SecurityControllerAllows' <=> SecurityControllerAllows
    BY <1>11, RolesStay DEF Aside
  <2>3. GrantOK'
    BY <1>11, <2>1, <2>2 DEF GrantOK, Aside
  <2> QED
    BY <1>0, <1>11, <2>2, <2>3, NamesGoOn
<1>12. pc \in 6 .. 8 => l \in Labels
  BY <1>9
<1> HIDE DEF l
<1>13. ASSUME UNCHANGED mem PROVE l' = l
  BY <1>13 DEF l, First
<1>14. ASSUME pc' \in {7, 8}, UNCHANGED <<net, env, mem>>, pc \in 6 .. 7,
              chain'.token[l] # Nobody, mem.holder = Owner =>
                chain'.node[l] = Owner \/ (chain'.node[l] = Manager /\ "reclaimed" \in mishaps),
              mem.holder = Owner => chain'.resolver[l] # Nobody,
              pc' = 7 => chain'.token[l] = mem.registrant,
              pc' = 8 => chain'.token[l] = target
       PROVE  InfrastructureOK'
  <2>1. l' = l /\ l' = Infrastructure[First]' /\ Owner' = Owner
    BY <1>13, <1>14 DEF l, Owner
  <2>2. /\ Tag("use_root")' /\ env'.target # Nobody
        /\ mem'.left \subseteq DOMAIN Infrastructure /\ mem'.left # {}
        /\ mem'.registrant \in {Owner, target} /\ (mem'.registrant = Owner => mem'.holder = Owner)
    BY <1>2, <1>9, <1>14 DEF Tag
  <2> QED
    BY <1>14, <2>1, <2>2 DEF InfrastructureOK, NodeTaken, Aside
<1>15. CASE pc = 6
  <2>1. SendUnless(HasItsResolver(l), chain.node[l] = Owner, SetResolver(l, At("PublicResolver")))
    BY <1>15 DEF RegisterInfrastructureNames, l
  <2>2. CASE HasItsResolver(l)
    <3>1. UNCHANGED <<chain, saved, done, place, outcome, mem>> /\ pc' = 7
      BY <1>15, <2>1, <2>2 DEF SendUnless, Skip, Goto
    <3>2. MemOK' /\ InfrastructureOK'
      BY <1>9, <1>14, <1>15, <2>2, <3>1 DEF MemOK, NodeTaken, HasItsResolver, Aside
    <3> QED
      BY <1>3, <1>15, <3>1, <3>2
  <2>3. CASE ~HasItsResolver(l) /\ chain.node[l] # Owner
    <3>1. Throw /\ mem.holder = Owner
      BY <2>1, <2>3 DEF SendUnless, Send, Tx, HasItsResolver
    <3> QED
      BY <1>10, <1>15, <2>3, <3>1
  <2>4. CASE ~HasItsResolver(l) /\ chain.node[l] = Owner
    <3>1. /\ chain' = SetResolver(l, At("PublicResolver")) /\ pc' = 7
          /\ UNCHANGED <<saved, done, place, outcome, mem>>
      BY <1>15, <2>1, <2>4 DEF SendUnless, Send, Tx
    <3>2. /\ ChainOK' /\ chain'.node = chain.node /\ chain'.token = chain.token
          /\ chain'.controllers = chain.controllers /\ chain'.owner = chain.owner
          /\ chain'.resolver[l] = At("PublicResolver")
          /\ \A m \in Labels \ {l} : chain'.resolver[m] = chain.resolver[m]
      BY <1>12, <1>15, <3>1, LabelWrites
    <3>3. At("PublicResolver") # Nobody
      BY <1>2, <1>15
    <3>4. NamesOK'
      BY <3>2, <3>3 DEF NamesOK, Owner, Aside
    <3>5. MemOK' /\ InfrastructureOK'
      BY <1>9, <1>14, <1>15, <3>1, <3>2, <3>3 DEF MemOK, NodeTaken, Aside
    <3>6. Taken => Taken'
      BY <3>2 DEF Taken, NodeTaken, Aside
    <3> QED
      BY <1>11, <1>15, <3>1, <3>2, <3>4, <3>5, <3>6
  <2> QED
    BY <2>2, <2>3, <2>4
<1>16. CASE pc = 7
  <2>0. mem.holder = Owner => chain.resolver[l] # Nobody
    BY <1>16 DEF InfrastructureOK, NodeTaken, l
  <2>1. SendUnless(~(target # Owner) \/ mem.registrant # Owner,
                   chain.token[l] = Owner, [chain EXCEPT !.token[l] = target])
    BY <1>16 DEF RegisterInfrastructureNames, l
  <2>2. CASE target = Owner \/ mem.registrant # Owner
    <3>1. UNCHANGED <<chain, saved, done, place, outcome, mem>> /\ pc' = 8
      BY <1>16, <2>1, <2>2 DEF SendUnless, Skip, Goto
    <3>2. MemOK' /\ InfrastructureOK'
      BY <1>9, <1>14, <1>16, <2>0, <2>2, <3>1 DEF MemOK, NodeTaken, Aside
    <3> QED
      BY <1>3, <1>16, <3>1, <3>2
  <2>3. CASE target # Owner /\ mem.registrant = Owner
    <3>0. /\ chain.token[l] = Owner /\ chain.node[l] = Owner /\ mem.holder = Owner
          /\ l \in Labels /\ target # Nobody /\ Owner \notin {Public, Manager}
      BY <1>2, <1>9, <1>16, <2>3, Constants DEF NamesOK
    <3>1. /\ chain' = [chain EXCEPT !.token[l] = target] /\ pc' = 8
          /\ UNCHANGED <<saved, done, place, outcome, mem>>
      BY <1>16, <2>1, <2>3, <3>0 DEF SendUnless, Send, Tx
    <3>2. /\ ChainOK' /\ chain'.node = chain.node /\ chain'.resolver = chain.resolver
          /\ chain'.controllers = chain.controllers /\ chain'.owner = chain.owner
          /\ chain'.token[l] = target
          /\ \A m \in Labels \ {l} : chain'.token[m] = chain.token[m]
      BY <3>0, <3>1 DEF ChainOK
    <3>3. NamesOK'
      BY <2>0, <2>3, <3>0, <3>2 DEF NamesOK, Owner, Aside
    <3>4. MemOK' /\ InfrastructureOK'
      BY <1>9, <1>14, <1>16, <2>0, <3>0, <3>1, <3>2 DEF MemOK, Aside
    <3>5. Taken => Taken'
      BY <3>0, <3>2 DEF Taken, NodeTaken, Aside
    <3> QED
      BY <1>11, <1>16, <3>1, <3>2, <3>3, <3>4, <3>5
  <2> QED
    BY <2>2, <2>3
<1>17. CASE pc = 8
  <2>1. CASE target = Owner \/ mem.holder # Owner
    BY <1>7, <1>17, <2>1 DEF RegisterInfrastructureNames
  <2>2. CASE target # Owner /\ mem.holder = Owner
    <3>1. Tx(chain.node[l] = Owner, SetNode(l, target), NameDone, 2)
      BY <1>17, <2>2 DEF RegisterInfrastructureNames, l
    <3>2. CASE chain.node[l] # Owner
      <4>1. Throw
        BY <3>1, <3>2 DEF Tx
      <4> QED
        BY <1>10, <1>17, <2>2, <3>2, <4>1
    <3>3. CASE chain.node[l] = Owner
      <4>1. /\ chain' = SetNode(l, target) /\ pc' = 2 /\ mem' = NameDone
            /\ UNCHANGED <<saved, done, place, outcome>>
        BY <3>1, <3>3 DEF Tx
      <4>2. /\ ChainOK' /\ chain'.token = chain.token /\ chain'.resolver = chain.resolver
            /\ chain'.controllers = chain.controllers /\ chain'.owner = chain.owner
            /\ chain'.node[l] = target /\ chain'.node["etn."] = chain.node["etn."]
            /\ \A m \in Labels \ {l} : chain'.node[m] = chain.node[m]
        BY <1>12, <1>17, <4>1, LabelWrites
      <4>3. chain.token[l] = target
        BY <1>17 DEF InfrastructureOK, NodeTaken, l
      <4>4. NamesOK'
        BY <2>2, <4>2, <4>3 DEF NamesOK, Owner, Aside
      <4>5. Owner # Manager
        BY Constants
      <4>6. Taken => Taken'
        BY <3>3, <4>2, <4>5 DEF Taken, NodeTaken, Aside
      <4>7. MemOK' /\ mem'.granted = mem.granted /\ mem'.left \subseteq mem.left
        <5>1. mem' = [fresh |-> mem.fresh, granted |-> mem.granted, available |-> FALSE,
                      left |-> Rest, registrant |-> Nobody, holder |-> Nobody, nonce |-> mem.nonce]
          BY <4>1 DEF NameDone, MemOK
        <5> QED
          BY <4>1, <5>1 DEF MemOK, Rest
      <4>8. InfrastructureOK'
        BY <1>2, <1>17, <4>1, <4>7 DEF InfrastructureOK, NodeTaken, Tag, Aside
      <4> QED
        BY <1>11, <1>17, <4>1, <4>2, <4>4, <4>6, <4>7, <4>8
    <3> QED
      BY <3>2, <3>3
  <2> QED
    BY <2>1, <2>2
<1>18. CASE pc = 9
  <2>1. RevokeIfGranted
    BY <1>18 DEF RegisterInfrastructureNames
  <2>2. mem.granted <=> Granted
    BY <1>2, <1>18
  <2>3. /\ UNCHANGED <<saved, done, place, outcome, mem>> /\ pc' = 10
        /\ ChainOK' /\ RolesOK' /\ NamesOK'
        /\ chain'.node = chain.node /\ chain'.token = chain.token
        /\ OwnerIsController' => OwnerIsController /\ ~mem.granted
    BY <1>18, <2>1, <2>2, Revoking
  <2>4. MemOK' /\ InfrastructureOK'
    BY <1>2, <1>18, <2>3 DEF MemOK, InfrastructureOK, NodeTaken, Tag, Aside
  <2>5. GrantOK'
    <3>1. ~Granted' /\ (Taken' <=> Taken)
      BY <1>0, <2>3 DEF Granted, Taken, NodeTaken, Aside
    <3> QED
      BY <2>2, <2>3, <3>1 DEF GrantOK, Aside
  <2> QED
    BY <1>0, <2>3, <2>4, <2>5, NamesGoOn
<1> QED
  BY <1>1, <1>4, <1>5, <1>6, <1>8, <1>15, <1>16, <1>17, <1>18

-----------------------------------------------------------------------------
(* The operator, the public, the wallets and the signers.                  *)

LEMMA Starting ==
  ASSUME RolloutInv, NEW e \in Envs(net), Start(e) PROVE RolloutInv'
<1> USE DEF RolloutInv
<1>1. /\ UNCHANGED <<net, chain, saved, done, lost>> /\ env' = e
      /\ mishaps \subseteq mishaps' /\ outcome # "running" /\ outcome' = "running" /\ pc' = 1 /\ mem' = NoLocals
      /\ Selected # {} /\ place' = Min(Selected)
  BY DEF Start, Mishap
<1>2. place' \in Selected /\ \A i \in Selected : place' <= i
  <2>1. Selected \subseteq Nat
    BY Places DEF Selected
  <2> QED
    BY <1>1, <2>1, MinIsLeast
<1>3. ChainOK' /\ SavedOK' /\ RolesOK' /\ NamesOK'
  BY <1>1 DEF ChainOK, SavedOK, RolesOK, NamesOK, At, Owner
<1>4. MemOK' /\ RunOK'
  BY <1>1, <1>2 DEF MemOK, NoLocals, RunOK, Selected
<1>5. ASSUME NEW k \in Nat \ {0}, NEW s \in {"BaseRegistrarImplementation:setup", "PublicResolver"}
      PROVE  ~Passed(s, k)'
  <2>1. SUFFICES ASSUME Passed(s, k)' PROVE FALSE
    OBVIOUS
  <2>2. PICK i \in DOMAIN Pipeline : Pipeline[i] = s /\ (place' > i \/ (place' = i /\ pc' > k))
    BY <2>1 DEF Passed
  <2>3. i \in Selected /\ i \in Nat /\ place' \in Nat
    BY <1>1, <1>2, <2>1, <2>2, Places DEF Selected, Passed, RunOK
  <2> QED
    BY <1>1, <1>2, <2>2, <2>3
<1>6. OrderOK' /\ RootAtHand'
  BY <1>1, <1>5, 1 \in Nat \ {0}, 2 \in Nat \ {0} DEF OrderOK, RootAtHand
<1>7. GrantOK'
  <2>1. ~Granted /\ ~Granted'
    BY <1>1 DEF Granted, Runs, NoLocals
  <2> QED
    BY <1>1, <2>1 DEF GrantOK, OwnerIsController, IsController, Taken, NodeTaken, At, Owner
<1>8. ReservedOK' /\ InfrastructureOK'
  BY <1>1 DEF ReservedOK, InfrastructureOK, NodeTaken
<1> QED
  BY <1>3, <1>4, <1>6, <1>7, <1>8

LEMMA Interrupting ==
  ASSUME RolloutInv, Interrupt PROVE RolloutInv'
<1> USE DEF RolloutInv
<1>1. /\ UNCHANGED <<net, env, chain, saved, done>>
      /\ outcome = "running" /\ outcome' = "interrupted" /\ mem' = NoLocals /\ pc' = 0
      /\ lost' = IF InGap THEN lost \cup {Pipeline[place]} ELSE lost
      /\ mishaps \subseteq mishaps'
  BY DEF Interrupt, Mishap
<1>2. ChainOK' /\ SavedOK' /\ RolesOK' /\ NamesOK'
  BY <1>1 DEF ChainOK, SavedOK, RolesOK, NamesOK, At, Owner
<1>3. MemOK' /\ RunOK' /\ OrderOK' /\ RootAtHand' /\ ReservedOK' /\ InfrastructureOK' /\ ~Granted'
  BY <1>1 DEF MemOK, NoLocals, RunOK, OrderOK, Passed, RootAtHand, ReservedOK, InfrastructureOK, NodeTaken,
              Runs, Granted
<1>4. Granted => lost' \cap NameScripts # {}
  BY <1>1 DEF Granted, GrantOK, InGap, NameScripts, Runs
<1>5. GrantOK'
  BY <1>1, <1>3, <1>4 DEF GrantOK, OwnerIsController, IsController, Taken, NodeTaken, At, Owner
<1> QED
  BY <1>2, <1>3, <1>5

\* What the others do to the chain.
LEMMA OthersWrite ==
  ASSUME RolloutInv, UNCHANGED <<net, env, saved, done, place, pc, mem, outcome, lost>>,
         ChainOK', NamesOK', ReservedOK', InfrastructureOK', Taken => Taken',
         chain'.node["etn."] = chain.node["etn."],
         chain'.controllers = chain.controllers, chain'.owner = chain.owner
  PROVE  RolloutInv'
<1> USE DEF RolloutInv
<1>1. /\ RolesOK'
      /\ OwnerIsController' <=> OwnerIsController
      /\ SecurityControllerAllows' <=> SecurityControllerAllows
  BY RolesStay
<1>2. SavedOK' /\ MemOK' /\ RunOK'
  BY DEF SavedOK, MemOK, RunOK
<1>3. OrderOK' /\ RootAtHand' /\ (Granted' <=> Granted)
  BY DEF OrderOK, Passed, NodeOfTld, Tag, At, RootAtHand, Runs, Granted
<1>4. GrantOK'
  BY <1>1, <1>3 DEF GrantOK
<1> QED
  BY <1>1, <1>2, <1>3, <1>4

LEMMA Squatting ==
  ASSUME RolloutInv, NEW n \in Labels, Squat(n) PROVE RolloutInv'
<1> USE DEF RolloutInv
<1>0. n \in Nodes /\ n # "etn." /\ "etn." \in Nodes /\ Labels \subseteq Nodes
  BY RolloutAssumption DEF Nodes, OtherNodes
<1>1. /\ UNCHANGED <<net, env, saved, done, place, pc, mem, outcome, lost>>
      /\ mishaps \subseteq mishaps' /\ chain.token[n] = Nobody
      /\ chain' = [chain EXCEPT !.token[n] = Public, !.node[n] = Public]
  BY DEF Squat, Mishap, Available
<1>2. /\ ChainOK' /\ (chain'.controllers = chain.controllers) /\ (chain'.owner = chain.owner)
      /\ (chain'.resolver = chain.resolver) /\ (chain'.node["etn."] = chain.node["etn."])
      /\ (chain'.token[n] = Public) /\ (chain'.node[n] = Public)
      /\ \A m \in Labels \ {n} : chain'.token[m] = chain.token[m] /\ chain'.node[m] = chain.node[m]
  BY <1>0, <1>1 DEF ChainOK
<1>3. Owner \notin {Nobody, Manager, Public} /\ Public # Manager /\ Public # Nobody
  BY Constants DEF Public, Manager, Nobody
<1>4. NamesOK' /\ Taken'
  BY <1>1, <1>2, <1>3 DEF NamesOK, Owner, Taken, NodeTaken
<1>5. ReservedOK'
  <2>1. ASSUME NEW m \in Labels, FreeOrTaken(m) PROVE FreeOrTaken(m)'
    BY <1>2, <2>1 DEF FreeOrTaken, Available
  <2>2. \A i \in DOMAIN Reserved : Reserved[i] \in Labels
    BY DEF Labels
  <2> QED
    BY <1>1, <1>2, <2>1, <2>2 DEF ReservedOK, Runs, Tag, OwnerIsController, IsController, At, Owner
<1>6. InfrastructureOK'
  <2> DEFINE l == Infrastructure[First]
  <2>1. CASE ~Runs("InfrastructureNames") \/ pc < 3 \/ pc > 8
    BY <1>1, <2>1 DEF InfrastructureOK, NodeTaken, Runs, Tag
  <2>2. CASE Runs("InfrastructureNames") /\ pc \in 3 .. 8
    <3>1. mem.left # {} /\ mem.left \subseteq DOMAIN Infrastructure /\ DOMAIN Infrastructure \subseteq Nat
      BY <2>2, RolloutAssumption DEF InfrastructureOK, NodeTaken
    <3>2. l \in Labels
      BY <3>1, MinIsLeast DEF First, Labels
    <3>3. l' = l /\ Owner' = Owner /\ (OwnerIsController' <=> OwnerIsController)
      BY <1>1, <1>2 DEF First, Owner, OwnerIsController, IsController, At
    <3>4. /\ FreeOrTaken(l) => FreeOrTaken(l)'
          /\ chain.token[l] # Nobody => /\ chain'.token[l] = chain.token[l]
                                        /\ chain'.node[l] = chain.node[l]
      <4> HIDE DEF l
      <4> QED
        BY <1>1, <1>2, <3>2, <3>3 DEF FreeOrTaken, Available
    <3> QED
      BY <1>1, <1>2, <2>2, <3>3, <3>4 DEF InfrastructureOK, NodeTaken, Runs, Tag, FreeOrTaken, Available
  <2> QED
    BY <2>1, <2>2 DEF InfrastructureOK, NodeTaken
<1> QED
  BY <1>1, <1>2, <1>4, <1>5, <1>6, OthersWrite

LEMMA Reclaiming ==
  ASSUME RolloutInv, NEW n \in Labels, Reclaim(n) PROVE RolloutInv'
<1> USE DEF RolloutInv
<1>1. /\ UNCHANGED <<net, env, saved, done, place, pc, mem, outcome, lost>>
      /\ "reclaimed" \in mishaps'
      /\ chain.token[n] = Manager /\ chain' = SetNode(n, Manager)
  BY DEF Reclaim, Mishap
<1>2. /\ ChainOK' /\ (chain'.token = chain.token) /\ (chain'.resolver = chain.resolver)
      /\ (chain'.controllers = chain.controllers) /\ (chain'.owner = chain.owner)
      /\ (chain'.node[n] = Manager) /\ (chain'.node["etn."] = chain.node["etn."])
      /\ \A m \in Labels \ {n} : chain'.node[m] = chain.node[m]
  BY <1>1, LabelWrites
<1>3. Owner \notin {Nobody, Manager, Public}
  BY Constants
<1>4. NamesOK' /\ Taken'
  BY <1>1, <1>2, <1>3 DEF NamesOK, Owner, Taken, NodeTaken
<1>5. /\ UNCHANGED Owner /\ (OwnerIsController' <=> OwnerIsController)
      /\ \A l : FreeOrTaken(l)' <=> FreeOrTaken(l)
  BY <1>1, <1>2 DEF Owner, OwnerIsController, IsController, At, FreeOrTaken, Available
<1>6. ReservedOK'
  BY <1>1, <1>5 DEF ReservedOK, Runs, Tag
<1>7. InfrastructureOK'
  <2> DEFINE l == Infrastructure[First]
  <2>1. CASE ~Runs("InfrastructureNames") \/ pc < 3 \/ pc > 8
    BY <1>1, <2>1 DEF InfrastructureOK, NodeTaken, Runs, Tag
  <2>2. CASE Runs("InfrastructureNames") /\ pc \in 3 .. 8
    <3>1. mem.left # {} /\ mem.left \subseteq DOMAIN Infrastructure /\ DOMAIN Infrastructure \subseteq Nat
      BY <2>2, RolloutAssumption DEF InfrastructureOK, NodeTaken
    <3>2. l \in Labels
      BY <3>1, MinIsLeast DEF First, Labels
    <3>3. l' = l
      BY <1>1 DEF First
    <3>4. chain'.node[l] \in {chain.node[l], Manager}
      <4> HIDE DEF l
      <4> QED
        BY <1>2, <3>2
    <3> QED
      BY <1>1, <1>2, <1>5, <2>2, <3>3, <3>4 DEF InfrastructureOK, NodeTaken, Runs, Tag
  <2> QED
    BY <2>1, <2>2 DEF InfrastructureOK, NodeTaken
<1> QED
  BY <1>1, <1>2, <1>4, <1>6, <1>7, OthersWrite

LEMMA Elsewhere ==
  ASSUME RolloutInv, UNCHANGED <<net, env, saved, done, place, pc, mem, outcome, lost, mishaps>>,
         chain' \in {chain, WithL2Registrar}
  PROVE  RolloutInv'
<1> USE DEF RolloutInv
<1>1. /\ ChainOK' /\ (chain'.token = chain.token) /\ (chain'.resolver = chain.resolver)
      /\ (chain'.node = chain.node)
      /\ (chain'.controllers = chain.controllers) /\ (chain'.owner = chain.owner)
  BY DEF WithL2Registrar, ChainOK
<1>2. NamesOK' /\ (Taken => Taken')
  BY <1>1 DEF NamesOK, Owner, Taken, NodeTaken
<1>3. ReservedOK' /\ InfrastructureOK'
  BY <1>1 DEF ReservedOK, InfrastructureOK, NodeTaken, Runs, Tag, OwnerIsController, IsController, At, Owner,
              FreeOrTaken, Available, First
<1> QED
  BY <1>1, <1>2, <1>3, OthersWrite

(* Every step keeps the invariant. *)
LEMMA RolloutStep == RolloutInv /\ [Next]_vars => RolloutInv'
<1> SUFFICES ASSUME RolloutInv, [Next]_vars PROVE RolloutInv'
  OBVIOUS
<1>1. ASSUME NEW e \in Envs(net), Start(e) PROVE RolloutInv'
  BY <1>1, Starting
<1>2. CASE RunScript
  <2>1. outcome = "running" /\ Aside
    BY <1>2 DEF RunScript, Aside
  <2>2. CASE ~Runs("ReservedNames") /\ ~Runs("InfrastructureNames")
    BY <1>2, <2>2, OtherScripts
  <2>3. CASE Runs("ReservedNames") \/ Runs("InfrastructureNames")
    <3>1. RegisterReservedNames \/ RegisterInfrastructureNames
      <4>1. ~RootStep
        BY <2>3 DEF RootStep, Runs, DeployRegistry, DeployAlgorithms, DeployDigests,
           DeployOracle, DeployOffchainResolver, DeployPublicSuffixList, DeployDNSRegistrar,
           EnableTlds, DeployRoot, DeployRootSecurityController, SetupRoot
      <4>2. ~ResolverStep
        BY <2>3 DEF ResolverStep, Runs, DeployOwnedResolver, DeployExtendedDNSResolver,
           DeployLegacyPublicResolver, DeployPublicResolver, DeployReverseRegistrar,
           DeployDefaultReverseRegistrar, DeployDefaultReverseResolver, DeployMetadataService,
           DeployNameWrapper, UpdateMetadataService, DeployGatewayProvider,
           DeployUniversalResolver, DeployMigrationHelper
      <4>3. ~DeployMulticall /\ ~DeploySigValidator /\ ~DeployL2Registrar
        BY <2>3 DEF Runs, DeployMulticall, DeploySigValidator, DeployL2Registrar
      <4>4. ~DeployBaseRegistrar /\ ~DeployRegistrarSecurityController /\ ~SetupBaseRegistrar
            /\ ~DeployPriceOracle /\ ~DeployLegacyController /\ ~DeployWrappedController
            /\ ~DeployController /\ ~DeployBulkRenewal /\ ~EnableWrapping
        BY <2>3 DEF Runs, DeployBaseRegistrar, DeployRegistrarSecurityController,
           SetupBaseRegistrar, DeployPriceOracle, DeployLegacyController,
           DeployWrappedController, DeployController, DeployBulkRenewal, EnableWrapping
      <4> QED
        BY <1>2, <4>1, <4>2, <4>3, <4>4 DEF RunScript, RegistrarStep
    <3> QED
      BY <2>1, <3>1, ReservedScript, InfrastructureScript
  <2> QED
    BY <2>2, <2>3
<1>3. CASE Interrupt
  BY <1>3, Interrupting
<1>4. ASSUME NEW l \in Labels, Squat(l) \/ Reclaim(l) PROVE RolloutInv'
  BY <1>4, Squatting, Reclaiming
<1>5. ASSUME NEW n \in safe.queue, Confirm(n) PROVE RolloutInv'
  BY <1>5, Elsewhere DEF Confirm
<1>6. CASE UNCHANGED vars
  BY <1>6, Elsewhere DEF vars
<1> QED
  BY <1>1, <1>2, <1>3, <1>4, <1>5, <1>6 DEF Next

LEMMA RolloutStart == Init => RolloutInv
<1> SUFFICES ASSUME Init PROVE RolloutInv
  OBVIOUS
<1>1. ChainOK /\ SavedOK /\ MemOK /\ RunOK
  BY DEF Init, ChainOK, EmptyChain, SavedOK, MemOK, NoLocals, RunOK
<1>2. OrderOK /\ RootAtHand /\ RolesOK /\ ReservedOK /\ InfrastructureOK
  BY DEF Init, OrderOK, Passed, RootAtHand, RolesOK, ReservedOK, InfrastructureOK, NodeTaken, Runs, EmptyChain
<1>3. GrantOK
  BY DEF Init, GrantOK, Granted, Runs, OwnerIsController, IsController, EmptyChain
<1>4. NamesOK
  <2>1. Owner # Nobody /\ Manager # Nobody
    BY <1>1, Constants DEF Manager, Nobody
  <2>2. \A l \in Labels : chain.token[l] = Nobody /\ chain.node[l] = Nobody
    BY DEF Init, EmptyChain, Nodes
  <2> QED
    BY <2>1, <2>2 DEF NamesOK
<1> QED
  BY <1>1, <1>2, <1>3, <1>4 DEF RolloutInv

-----------------------------------------------------------------------------
(* The theorems.                                                           *)

(* What holds at every statement of every run: who has a role, how far     *)
(* the scripts have come and what they have found of the names.            *)
THEOREM RolloutInvariant == Spec => []RolloutInv
<1>1. Init => RolloutInv
  BY RolloutStart
<1>2. RolloutInv /\ [Next]_vars => RolloutInv'
  BY RolloutStep
<1> QED
  BY <1>1, <1>2, PTL DEF Spec

(* However often the pipeline is run, and wherever a run fails or dies, the *)
(* owner account is a controller of the registrar only while one of the two *)
(* scripts runs that need it; unless the process died in one of them, the   *)
(* public registered a name, or the manager took the node of one before it  *)
(* was handed over.                                                         *)
THEOREM GrantsAreTemporary == Spec => []GrantIsTemporary
<1>1. RolloutInv => GrantIsTemporary
  BY DEF RolloutInv, GrantOK, Granted, GrantIsTemporary, NameScripts, Taken, NodeTaken
<1> QED
  BY <1>1, RolloutInvariant, PTL

(* A name whose token was handed over resolves, and its node follows its   *)
(* token, wherever a run stopped in between.                               *)
THEOREM NamesHandedOverResolve == Spec => []HandedOverNamesResolve
<1>1. RolloutInv => HandedOverNamesResolve
  BY DEF RolloutInv, NamesOK, HandedOverNamesResolve
<1> QED
  BY <1>1, RolloutInvariant, PTL

-----------------------------------------------------------------------------
(***************************************************************************)
(* The wiring: what is so of a network deployed to as a whole, as long as  *)
(* nothing worse happens than an interruption outside of the gaps.         *)
(***************************************************************************)
Undisturbed == IsFull /\ lost = {} /\ mishaps \subseteq {"interrupted"}

\* The script has come to its end, in this run or for good.
Behind(s) ==
  \/ s \in done \/ outcome = "finished"
  \/ outcome = "running" /\ \E i \in DOMAIN Pipeline : Pipeline[i] = s /\ i < place

\* The same, or it runs and has come past the statement.
Did(s, statement) == Behind(s) \/ (Runs(s) /\ pc > statement)

\* The script that deployed c has come past the statement, in whatever run.
Beyond(c, statement) ==
  c \in DOMAIN saved /\ ~(Runs(c) /\ mem.fresh /\ pc \in 2 .. statement)

OrderlyOK ==
  /\ outcome = "running" => GoodEnv(env) /\ Pipeline[place] \notin done
  /\ "SetTlds" \notin done

(***************************************************************************)
(* The records: the contracts that are deployed once, and with what.       *)
(***************************************************************************)
Sole(c) == <<c, 1>>

Feed == IF Tag("owned_oracle") THEN "OwnedUsdOracle" ELSE "DummyOracle"
HasFeed == Tag("owned_oracle") \/ net.name # "mainnet"
PriceOf(n) == CHOOSE price : \A e \in Envs(n) : GoodEnv(e) => e.price = price
Price == PriceOf(net)

\* The scripts that are named after what their first statement deploys.
OwnName == {"SimplePublicSuffixList", "Root", "RootSecurityController",
            "BaseRegistrarImplementation", "RegistrarSecurityController", "ReverseRegistrar",
            "OwnedResolver", "NameWrapper", "DefaultReverseRegistrar", "ETHRegistrarController",
            "PublicResolver", "DefaultReverseResolver", "BatchGatewayProvider",
            "MigrationHelper"}
LegacyName == {"LegacyETHRegistrarController", "WrappedETHRegistrarController"}

Lasting == OwnName \cup LegacyName
  \cup {"LegacyENSRegistry", "ENSRegistry", "OwnedUsdOracle", "DummyOracle",
        "ExponentialPremiumPriceOracle"}

Arguments(c) ==
  LET registry  == Sole("ENSRegistry")
      registrar == Sole("BaseRegistrarImplementation")
      oracle    == Sole("ExponentialPremiumPriceOracle")
      reverse   == Sole("ReverseRegistrar")
      wrapper   == Sole("NameWrapper")
  IN  CASE c = "ENSRegistry" -> IF Tag("legacy") THEN <<Sole("LegacyENSRegistry")>> ELSE << >>
        [] c \in {"Root", "BaseRegistrarImplementation", "ReverseRegistrar"} -> <<registry>>
        [] c = "RootSecurityController" -> <<Sole("Root")>>
        [] c = "RegistrarSecurityController" -> <<registrar>>
        [] c = "OwnedUsdOracle" -> <<Price>>
        [] c = "DummyOracle" -> <<"160000000000">>
        [] c = "ExponentialPremiumPriceOracle" -> <<IF HasFeed THEN Sole(Feed) ELSE Nobody>>
        [] c = "LegacyETHRegistrarController" -> <<registrar, oracle>>
        [] c = "WrappedETHRegistrarController" -> <<registrar, oracle, reverse, wrapper, registry>>
        [] c = "ETHRegistrarController" ->
             <<registrar, oracle, reverse, Sole("DefaultReverseRegistrar"), registry>>
        [] c = "PublicResolver" ->
             <<registry, wrapper, Sole("ETHRegistrarController"), reverse>>
        [] c = "DefaultReverseResolver" -> <<Sole("DefaultReverseRegistrar")>>
        [] c = "BatchGatewayProvider" -> <<Owner>>
        [] c = "MigrationHelper" -> <<registrar, wrapper>>
        [] OTHER -> << >>

\* The NameWrapper names the metadata service, which is deployed twice.
RecordsOK ==
  \A c \in DOMAIN saved \cap Lasting :
    saved[c].at = Sole(c) /\ (c # "NameWrapper" => saved[c].args = Arguments(c))

Present(s) == Did(s, 1) /\ (s \in LegacyName => Tag("legacy")) => s \in DOMAIN saved

NamedOK == \A s \in OwnName \cup LegacyName : Present(s)

LegacyOK == \A s \in LegacyName : Runs(s) /\ pc > 1 => Tag("legacy")

PresentOK ==
  /\ Tag("legacy") /\ Did("ENSRegistry", 1) => "LegacyENSRegistry" \in DOMAIN saved
  /\ Did("ENSRegistry", 2) => "ENSRegistry" \in DOMAIN saved
  /\ HasFeed /\ Did("ExponentialPremiumPriceOracle", 1) => Feed \in DOMAIN saved
  /\ Did("ExponentialPremiumPriceOracle", 3) => "ExponentialPremiumPriceOracle" \in DOMAIN saved
  /\ Feed \in DOMAIN saved => HasFeed

(***************************************************************************)
(* Who owns what.                                                          *)
(***************************************************************************)
HandedBehind == {"SimplePublicSuffixList", "RootSecurityController", "RegistrarSecurityController",
                 "ReverseRegistrar", "OwnedResolver", "NameWrapper",
                 "WrappedETHRegistrarController", "ETHRegistrarController"}

HandedOver(c) ==
  /\ Beyond(c, 2) => OwnedBy(c, Owner)
  /\ Runs(c) /\ mem.fresh /\ pc = 2 => OwnedBy(c, Deployer)

HandedOK == \A c \in HandedBehind : HandedOver(c)

Held == {"Root", "DefaultReverseRegistrar", "MigrationHelper", "BatchGatewayProvider",
         "LegacyETHRegistrarController"}

HolderOK(c) ==
  /\ c \in DOMAIN saved => OwnedBy(c, Deployer) \/ OwnedBy(c, Owner)
  /\ \/ c = "BatchGatewayProvider" /\ c \in DOMAIN saved
     \/ c \in {"DefaultReverseRegistrar", "MigrationHelper"} /\ Did(c, 2)
     => OwnedBy(c, Owner)

OwnersOK == \A c \in Held : HolderOK(c)

HandsFeedOver == Runs("ExponentialPremiumPriceOracle") /\ mem.fresh /\ pc = 2

FeedOK ==
  Tag("owned_oracle") /\ Feed \in DOMAIN saved =>
    OwnedBy(Feed, IF HandsFeedOver THEN Deployer ELSE Owner)

(***************************************************************************)
(* What is set where.                                                      *)
(***************************************************************************)
RootOK ==
  /\ Did("Root:setup", 1) => /\ {"Root", "ENSRegistry"} \subseteq DOMAIN saved
                             /\ chain.node["root."] = At("Root")
  /\ Did("Root:setup", 2) => OwnedBy("Root", Owner)
  /\ Did("Root:setup", 3) => IsController("Root", Owner)

SuffixesOK ==
  Beyond("SimplePublicSuffixList", 3) =>
    Pointer(At("SimplePublicSuffixList"), "suffixes") # Nobody

SharedOK ==
  /\ Behind("Multicall3") \/ "Multicall3" \in DOMAIN saved => HasCode("Multicall3")
  /\ Behind("UniversalSigValidator") \/ "UniversalSigValidator" \in DOMAIN saved =>
       HasCode("UniversalSigValidator")
  /\ Runs("Multicall3") /\ pc = 5 => "Multicall3" \in chain.code
  /\ Runs("Multicall3") /\ pc = 8 => "Multicall3" \in DOMAIN saved
  /\ Runs("UniversalSigValidator") /\ pc = 7 => "UniversalSigValidator" \in DOMAIN saved

TldsOK == Did("SetTlds", 1) => chain.node["com."] = At("DNSRegistrar")

RegistrarOK ==
  /\ Did("BaseRegistrarImplementation:setup", 1) =>
       /\ {"BaseRegistrarImplementation", "RegistrarSecurityController"} \subseteq DOMAIN saved
       /\ OwnedBy("BaseRegistrarImplementation", At("RegistrarSecurityController"))
  /\ Did("BaseRegistrarImplementation:setup", 2) =>
       "BaseRegistrarImplementation" \in DOMAIN saved /\ NodeOfTld

\* Of two contracts on record.
Uses(c, controller) ==
  {c, controller} \subseteq DOMAIN saved /\ IsController(c, At(controller))

Registers(controller) == Uses("BaseRegistrarImplementation", controller)

\* The script of the controller has made it one of c by then.
Takes(controller, statement, c) == Beyond(controller, statement) => Uses(c, controller)

ControllersOK ==
  /\ Tag("legacy") /\ Did("LegacyETHRegistrarController", 2) =>
       Registers("LegacyETHRegistrarController")
  /\ Takes("NameWrapper", 3, "BaseRegistrarImplementation")
  /\ Takes("WrappedETHRegistrarController", 4, "BaseRegistrarImplementation")
  /\ Takes("ETHRegistrarController", 3, "BaseRegistrarImplementation")
  /\ Takes("ETHRegistrarController", 4, "ReverseRegistrar")
  /\ Takes("ETHRegistrarController", 5, "DefaultReverseRegistrar")

Registrants == {Sole("NameWrapper"), Sole("ETHRegistrarController")}
  \cup (IF Tag("legacy") THEN {Sole("LegacyETHRegistrarController"),
                               Sole("WrappedETHRegistrarController")} ELSE {})

NoOthers ==
  \A c : <<Sole("BaseRegistrarImplementation"), c>> \in chain.controllers =>
    c \in Registrants \cup {Owner}

ReverseOK ==
  /\ Beyond("ReverseRegistrar", 3) => chain.node["reverse."] = Owner
  /\ Beyond("ReverseRegistrar", 4) => chain.node["addr.reverse."] = At("ReverseRegistrar")

TldResolverOK ==
  Did("OwnedResolver", 3) =>
    "OwnedResolver" \in DOMAIN saved /\ chain.resolver["etn."] = At("OwnedResolver")

WrapperOK ==
  "NameWrapper" \in DOMAIN saved =>
    "NameWrapper" \in done \/ (Runs("NameWrapper") /\ mem.fresh /\ pc \in 2 .. 5)

PublicResolverOK ==
  /\ Beyond("PublicResolver", 2) =>
       /\ "ReverseRegistrar" \in DOMAIN saved
       /\ Pointer(At("ReverseRegistrar"), "defaultResolver") = At("PublicResolver")
  /\ Beyond("PublicResolver", 3) => chain.resolver["resolver"] = At("PublicResolver")
  /\ Beyond("PublicResolver", 4) => Pointer(At("PublicResolver"), "resolver") = At("PublicResolver")

ReverseResolverOK ==
  Did("DefaultReverseResolver", 3) =>
    /\ "DefaultReverseResolver" \in DOMAIN saved
    /\ chain.resolver["reverse."] = At("DefaultReverseResolver")

(***************************************************************************)
(* The names.                                                              *)
(***************************************************************************)
LentOK ==
  /\ OwnerIsController => Granted
  /\ chain.token["resolver"] \in {Nobody, Owner}
  /\ Behind("ReservedNames") => \A i \in DOMAIN Reserved : ~Available(Reserved[i])

LaunchOK ==
  Runs("ReservedNames") /\ pc > 1 =>
    \A i \in DOMAIN Reserved : Available(Reserved[i]) <=> pc \in {2, 3} /\ i \in mem.left

HandoverOK ==
  LET l == Infrastructure[First]
  IN  Runs("InfrastructureNames") =>
        /\ pc \in {3, 4} /\ mem.available => Available(l)
        /\ pc \in {6, 7, 8} /\ mem.holder = Owner => chain.node[l] = Owner

WiredInv ==
  /\ OrderlyOK /\ RecordsOK /\ NamedOK /\ LegacyOK /\ PresentOK
  /\ HandedOK /\ OwnersOK /\ FeedOK
  /\ RootOK /\ SuffixesOK /\ SharedOK /\ TldsOK /\ RegistrarOK
  /\ ControllersOK /\ NoOthers
  /\ ReverseOK /\ TldResolverOK /\ WrapperOK /\ PublicResolverOK /\ ReverseResolverOK
  /\ LentOK /\ LaunchOK /\ HandoverOK

-----------------------------------------------------------------------------
(* A statement of a run that nothing has disturbed.                        *)

Statement ==
  /\ RolloutInv /\ RolloutInv' /\ WiredInv /\ Undisturbed
  /\ outcome = "running" /\ UNCHANGED <<net, env, lost, mishaps>>

LEMMA WholeNetwork ==
  ASSUME RolloutInv, Undisturbed
  PROVE  /\ Tag("use_root") /\ ~LeavesWiring
         /\ \A e \in Envs(net) : GoodEnv(e) => e.price = Price
         /\ \A s \in Scripts : s \in net.scripts
<1>1. Scripts \subseteq net.scripts /\ net \in Networks
  BY DEF Undisturbed, IsFull, Scripts, RolloutInv, RunOK
<1>2. \A e, f \in Envs(net) : GoodEnv(e) /\ GoodEnv(f) => e.price = f.price
  BY <1>1, WiringAssumption
<1>3. \E price : \A e \in Envs(net) : GoodEnv(e) => e.price = price
  <2>1. CASE \E f \in Envs(net) : GoodEnv(f)
    BY <1>2, <2>1
  <2> QED
    BY <2>1
<1>4. \A e \in Envs(net) : GoodEnv(e) => e.price = Price
  BY <1>3 DEF Price, PriceOf
<1> QED
  BY <1>1, <1>4, WiringAssumption DEF Tag, LeavesWiring

LEMMA Positions ==
  \A i \in DOMAIN Pipeline :
    /\ Pipeline[i] = "ENSRegistry" <=> i = 1
    /\ Pipeline[i] = "SimplePublicSuffixList" <=> i = 6
    /\ Pipeline[i] = "Root" <=> i = 7
    /\ Pipeline[i] = "RootSecurityController" <=> i = 8
    /\ Pipeline[i] = "Root:setup" <=> i = 9
    /\ Pipeline[i] = "DNSRegistrar" <=> i = 10
    /\ Pipeline[i] = "Multicall3" <=> i = 11
    /\ Pipeline[i] = "SetTlds" <=> i = 12
    /\ Pipeline[i] = "BaseRegistrarImplementation" <=> i = 13
    /\ Pipeline[i] = "RegistrarSecurityController" <=> i = 14
    /\ Pipeline[i] = "BaseRegistrarImplementation:setup" <=> i = 15
    /\ Pipeline[i] = "ExponentialPremiumPriceOracle" <=> i = 16
    /\ Pipeline[i] = "LegacyETHRegistrarController" <=> i = 17
    /\ Pipeline[i] = "ReverseRegistrar" <=> i = 18
    /\ Pipeline[i] = "OwnedResolver" <=> i = 20
    /\ Pipeline[i] = "NameWrapper" <=> i = 21
    /\ Pipeline[i] = "WrappedETHRegistrarController" <=> i = 22
    /\ Pipeline[i] = "DefaultReverseRegistrar" <=> i = 23
    /\ Pipeline[i] = "ETHRegistrarController" <=> i = 24
    /\ Pipeline[i] = "ReservedNames" <=> i = 26
    /\ Pipeline[i] = "PublicResolver" <=> i = 28
    /\ Pipeline[i] = "InfrastructureNames" <=> i = 29
    /\ Pipeline[i] = "UniversalSigValidator" <=> i = 30
    /\ Pipeline[i] = "DefaultReverseResolver" <=> i = 34
    /\ Pipeline[i] = "BatchGatewayProvider" <=> i = 35
    /\ Pipeline[i] = "MigrationHelper" <=> i = 37
BY DEF Pipeline

LEMMA OneEach == \A i, j \in DOMAIN Pipeline : Pipeline[i] = Pipeline[j] => i = j
BY DEF Pipeline

LEMMA BehindIt ==
  ASSUME NEW i \in DOMAIN Pipeline, outcome = "running", i < place PROVE Behind(Pipeline[i])
BY DEF Behind

\* What a run has behind it when it comes to a script.
LEMMA InOrder ==
  ASSUME RolloutInv, outcome = "running"
  PROVE  /\ Runs("Root") => Behind("ENSRegistry")
         /\ Runs("RootSecurityController") => Behind("Root")
         /\ Runs("Root:setup") => Behind("ENSRegistry") /\ Behind("Root")
         /\ Runs("SetTlds") => Behind("SimplePublicSuffixList") /\ Behind("Multicall3")
         /\ Runs("BaseRegistrarImplementation") => Behind("ENSRegistry")
         /\ Runs("RegistrarSecurityController") => Behind("BaseRegistrarImplementation")
         /\ Runs("BaseRegistrarImplementation:setup") =>
              Behind("BaseRegistrarImplementation") /\ Behind("RegistrarSecurityController")
         /\ place > 15 /\ place \in DOMAIN Pipeline =>
              /\ Behind("ENSRegistry") /\ Behind("Root:setup")
              /\ Behind("BaseRegistrarImplementation") /\ Behind("RegistrarSecurityController")
              /\ Behind("BaseRegistrarImplementation:setup")
         /\ place > 16 => Behind("ExponentialPremiumPriceOracle")
         /\ place > 20 => Behind("ReverseRegistrar") /\ Behind("OwnedResolver")
         /\ place > 21 => Behind("NameWrapper")
         /\ place > 23 => Behind("DefaultReverseRegistrar")
         /\ place > 26 => Behind("ETHRegistrarController") /\ Behind("ReservedNames")
<1>1. place \in DOMAIN Pipeline /\ place \in Nat
  BY Places DEF RolloutInv, RunOK
<1>2. \A i \in DOMAIN Pipeline : i < place => Behind(Pipeline[i])
  BY BehindIt
<1>3. {1, 6, 7, 11, 13, 14, 9, 15, 16, 18, 20, 21, 23, 24, 26} \subseteq DOMAIN Pipeline
  BY Places
<1> QED
  BY <1>1, <1>2, <1>3, Positions DEF Runs

\* How far the scripts are after a statement, of a run of whatever part of the pipeline.
Remains == UNCHANGED <<place, done, outcome>> /\ pc' \in Nat \ {0, 1}
Moves == Remains \/ Return(TRUE) \/ Return(FALSE) \/ Throw

LEMMA Moving ==
  ASSUME RolloutInv, outcome = "running", Pipeline[place] \notin done, UNCHANGED net, Moves,
         NEW s \in Scripts, s \in net.scripts
  PROVE  /\ Runs(s) => ~Behind(s)
         /\ ~Runs(s) /\ Behind(s)' => Behind(s)
         /\ ~Runs(s) /\ Runs(s)' => (pc' = 1) /\ (mem' = NoLocals)
         /\ Runs(s) /\ Remains => Runs(s)' /\ ~Behind(s)'
         /\ Runs(s) /\ Throw => ~Runs(s)' /\ ~Behind(s)'
         /\ Runs(s) /\ (Return(TRUE) \/ Return(FALSE)) => ~Runs(s)'
<1>0. /\ place \in DOMAIN Pipeline /\ place \in Nat /\ DOMAIN Pipeline \subseteq Nat
      /\ outcome = "running" /\ Pipeline[place] \notin done
      /\ Pipeline[place] \in net.scripts
  BY Places DEF RolloutInv, RunOK
<1>1. Runs(s) => ~Behind(s)
  BY <1>0, OneEach DEF Runs, Behind
<1>2. ASSUME Remains
      PROVE  (Runs(s)' <=> Runs(s)) /\ (Behind(s)' <=> Behind(s))
  BY <1>2 DEF Remains, Runs, Behind
<1>3. ASSUME Throw
      PROVE  ~Runs(s)' /\ (Behind(s)' <=> s \in done)
  BY <1>3 DEF Throw, Runs, Behind
<1>4. ASSUME NEW true, Return(true)
      PROVE  /\ Runs(s)' => (pc' = 1) /\ (mem' = NoLocals)
             /\ ~Runs(s) /\ Behind(s)' => Behind(s)
             /\ Runs(s) => ~Runs(s)'
  <2>1. /\ done' \subseteq done \cup {Pipeline[place]}
        /\ place' = IF Later = {} THEN 0 ELSE Min(Later)
        /\ outcome' = IF Later = {} THEN "finished" ELSE "running"
        /\ pc' = 1 /\ mem' = NoLocals
    BY <1>4 DEF Return
  <2>2. PICK i \in DOMAIN Pipeline : Pipeline[i] = s
    BY DEF Scripts
  <2>3. s \in net.scripts
    OBVIOUS
  <2>4. CASE Later = {}
    <3>1. i > place => s \in done
      BY <2>2, <2>3, <2>4 DEF Later, Selected
    <3>2. i < place => Behind(s)
      BY <1>0, <2>2 DEF Behind
    <3>3. i = place => Runs(s)
      BY <1>0, <2>2 DEF Runs
    <3> QED
      BY <1>0, <2>1, <2>4, <3>1, <3>2, <3>3 DEF Behind, Runs
  <2>5. CASE Later # {}
    <3>1. /\ Min(Later) \in DOMAIN Pipeline /\ Min(Later) > place
          /\ \A j \in DOMAIN Pipeline : Pipeline[j] \in net.scripts \ done /\ j > place => Min(Later) <= j
      BY <2>5, LaterIsBehind
    <3>2. i > place /\ i < Min(Later) => s \in done
      BY <1>0, <2>2, <2>3, <3>1
    <3>3. i < place => Behind(s)
      BY <1>0, <2>2 DEF Behind
    <3>4. i = place => Runs(s)
      BY <1>0, <2>2 DEF Runs
    <3>5. Behind(s)' => s \in done' \/ i < Min(Later)
      BY <2>1, <2>2, <2>5, OneEach DEF Behind
    <3>6. s \in done' => s \in done \/ Runs(s)
      BY <1>0, <2>1 DEF Runs
    <3>7. Runs(s) => ~Runs(s)'
      BY <1>0, <2>1, <2>5, <3>1, OneEach DEF Runs
    <3> QED
      BY <1>0, <2>1, <3>1, <3>2, <3>3, <3>4, <3>5, <3>6, <3>7 DEF Behind
  <2> QED
    BY <2>4, <2>5
<1>5. s \in done => Behind(s)
  BY DEF Behind
<1>6. CASE Remains
  BY <1>1, <1>2, <1>6 DEF Remains, Throw, Return
<1>7. CASE Throw
  BY <1>1, <1>3, <1>5, <1>7 DEF Remains, Throw, Return
<1>8. CASE Return(TRUE) \/ Return(FALSE)
  <2>1. ~Remains /\ ~Throw
    BY <1>8 DEF Remains, Throw, Return
  <2> QED
    BY <1>1, <1>4, <1>8, <2>1
<1> QED
  BY <1>6, <1>7, <1>8 DEF Moves

LEMMA Progress ==
  ASSUME Statement, Control, NEW s \in Scripts
  PROVE  /\ Runs(s) => ~Behind(s)
         /\ ~Runs(s) /\ Behind(s)' => Behind(s)
         /\ ~Runs(s) /\ Runs(s)' => (pc' = 1) /\ (mem' = NoLocals)
         /\ Runs(s) /\ GoesOn => Runs(s)' /\ ~Behind(s)'
         /\ Runs(s) /\ Throw => ~Runs(s)' /\ ~Behind(s)'
         /\ Runs(s) /\ (Return(TRUE) \/ Return(FALSE)) => ~Runs(s)'
<1>1. s \in net.scripts
  BY WholeNetwork DEF Statement
<1>2. Moves /\ (GoesOn => Remains)
  BY DEF Control, Moves, GoesOn, Remains
<1>3. Pipeline[place] \notin done
  BY DEF Statement, WiredInv, OrderlyOK
<1> QED
  BY <1>1, <1>2, <1>3, Moving DEF Statement

\* The same in the terms of a statement, for the scripts that do not run.
LEMMA Standing ==
  ASSUME Statement, Control, NEW s \in Scripts, ~Runs(s), NEW k \in Nat \ {0}
  PROVE  /\ Did(s, k)' => Did(s, k)
         /\ s \in DOMAIN saved => Beyond(s, k)
         /\ ~(Runs(s) /\ mem.fresh /\ pc = 2)'
<1>1. Runs(s)' => (pc' = 1) /\ (mem' = NoLocals)
  BY Progress
<1>2. Behind(s)' => Behind(s)
  BY Progress
<1> QED
  BY <1>1, <1>2 DEF Did, Beyond

\* And for the one that does.
LEMMA Advancing ==
  ASSUME Statement, Control, NEW s \in Scripts, Runs(s)
  PROVE  /\ \A k : Did(s, k) <=> pc > k
         /\ Throw => \A k : ~Did(s, k)'
         /\ GoesOn => \A k : Did(s, k)' <=> pc' > k
         /\ Throw \/ Return(TRUE) \/ Return(FALSE) =>
              \A k : Beyond(s, k)' <=> s \in DOMAIN saved'
         /\ GoesOn => \A k : Beyond(s, k)' <=> s \in DOMAIN saved' /\ ~(mem'.fresh /\ pc' \in 2 .. k)
         /\ Throw \/ Return(TRUE) \/ Return(FALSE) => ~Runs(s)'
         /\ GoesOn => Runs(s)'
<1>1. /\ ~Behind(s)
      /\ GoesOn => Runs(s)' /\ ~Behind(s)'
      /\ Throw => ~Runs(s)' /\ ~Behind(s)'
      /\ Return(TRUE) \/ Return(FALSE) => ~Runs(s)'
  BY Progress
<1> QED
  BY <1>1 DEF Did, Beyond

-----------------------------------------------------------------------------
(* What a statement leaves as it was.                                      *)

Slots == {"suffixes", "defaultResolver", "resolver"}

\* It sets the owners of contracts in C, nodes in N, resolvers of R, slots of P, and makes X
\* controllers of the registrar.
Touches(after, C, N, R, P, X) ==
  /\ \A c \in DOMAIN saved \ C :
       At(c) \in DOMAIN chain.owner =>
         At(c) \in DOMAIN after.owner /\ after.owner[At(c)] = chain.owner[At(c)]
  /\ after.token = chain.token
  /\ \A n \in Nodes \ N : after.node[n] = chain.node[n]
  /\ \A n \in Nodes \ R : after.resolver[n] = chain.resolver[n]
  /\ \A slot \in Slots \ P : \A a :
       <<a, slot>> \in DOMAIN chain.points =>
         /\ <<a, slot>> \in DOMAIN after.points
         /\ after.points[<<a, slot>>] = chain.points[<<a, slot>>]
  /\ chain.controllers \subseteq after.controllers
  /\ \A x : <<Sole("BaseRegistrarImplementation"), x>> \in after.controllers =>
       <<Sole("BaseRegistrarImplementation"), x>> \in chain.controllers \/ x \in X
  /\ chain.code \subseteq after.code

\* It deploys none but contracts in D, and those that last once.
Deploys(D) ==
  /\ RecordsOK'
  /\ DOMAIN saved \subseteq DOMAIN saved' /\ DOMAIN saved' \subseteq DOMAIN saved \cup D
  /\ \A c \in DOMAIN saved : c \in Lasting \/ c \notin D => saved'[c] = saved[c]

Leaves(C, D, N, R, P, X) ==
  Control /\ Deploys(D) /\ Touches(chain', C \cup (D \ Lasting), N, R, P, X)

LEMMA Constant ==
  ASSUME UNCHANGED net
  PROVE  /\ Owner' = Owner /\ Price' = Price /\ Feed' = Feed /\ HasFeed' = HasFeed
         /\ \A t : Tag(t)' = Tag(t)
         /\ \A c : Arguments(c)' = Arguments(c)
         /\ Registrants' = Registrants
         /\ LeavesWiring' = LeavesWiring
<1>1. Owner' = Owner /\ Price' = Price /\ \A t : Tag(t)' = Tag(t)
  BY DEF Owner, Price, Tag
<1>2. Tag("owned_oracle")' = Tag("owned_oracle") /\ Tag("legacy")' = Tag("legacy")
      /\ Tag("tenderly")' = Tag("tenderly")
  BY <1>1
<1>3. Feed' = Feed /\ HasFeed' = HasFeed /\ LeavesWiring' = LeavesWiring /\ Registrants' = Registrants
  BY <1>2 DEF Feed, HasFeed, LeavesWiring, Registrants
<1>4. \A c : Arguments(c)' = Arguments(c)
  BY <1>1, <1>2, <1>3 DEF Arguments
<1> QED
  BY <1>1, <1>3, <1>4

LEMMA NoDeployment ==
  ASSUME Statement, UNCHANGED saved, NEW D PROVE Deploys(D)
<1>1. \A c : Arguments(c)' = Arguments(c)
  BY Constant DEF Statement
<1> QED
  BY <1>1 DEF Deploys, Statement, WiredInv, RecordsOK

LEMMA Untouched ==
  ASSUME NEW C, NEW N, NEW R, NEW P, NEW X PROVE Touches(chain, C, N, R, P, X)
BY DEF Touches

LEMMA Still ==
  ASSUME Statement, Control, UNCHANGED <<chain, saved>>,
         NEW C, NEW D, NEW N, NEW R, NEW P, NEW X
  PROVE  Leaves(C, D, N, R, P, X)
BY NoDeployment, Untouched DEF Leaves

LEMMA Sent ==
  ASSUME Statement, Control, UNCHANGED saved, NEW after, chain' \in {chain, after},
         NEW C, NEW D, NEW N, NEW R, NEW P, NEW X, Touches(after, C \cup (D \ Lasting), N, R, P, X)
  PROVE  Leaves(C, D, N, R, P, X)
BY NoDeployment, Untouched DEF Leaves

LEMMA Touching ==
  ASSUME RolloutInv, NEW C, NEW N, NEW R, NEW P, NEW X, NEW a, NEW x
  PROVE  /\ \A c \in C : c \in DOMAIN saved => Touches(SetOwner(c, x), C, N, R, P, X)
         /\ \A n \in N : Touches(SetNode(n, x), C, N, R, P, X)
         /\ \A n \in R : Touches(SetResolver(n, x), C, N, R, P, X)
         /\ \A slot : slot \in P \/ slot \notin Slots => Touches(SetPointer(a, slot, x), C, N, R, P, X)
         /\ \A c : x \in X \/ At(c) # Sole("BaseRegistrarImplementation") =>
              Touches(AddController(c, x), C, N, R, P, X)
         /\ Touches([chain EXCEPT !.code = @ \cup {x}], C, N, R, P, X)
         /\ Touches([chain EXCEPT !.funded = @ \cup {x}], C, N, R, P, X)
<1> USE DEF Touches, RolloutInv, ChainOK
<1>1. ASSUME NEW c \in C, c \in DOMAIN saved PROVE Touches(SetOwner(c, x), C, N, R, P, X)
  <2>1. \A d \in DOMAIN saved : d # c => At(d) # At(c)
    BY <1>1 DEF SavedOK, At
  <2> QED
    BY <1>1, <2>1 DEF SetOwner
<1>2. ASSUME NEW n \in N PROVE Touches(SetNode(n, x), C, N, R, P, X)
  BY DEF SetNode
<1>3. ASSUME NEW n \in R PROVE Touches(SetResolver(n, x), C, N, R, P, X)
  BY DEF SetResolver
<1>4. ASSUME NEW slot, slot \in P \/ slot \notin Slots PROVE Touches(SetPointer(a, slot, x), C, N, R, P, X)
  BY <1>4 DEF SetPointer, Put
<1>5. ASSUME NEW c, x \in X \/ At(c) # Sole("BaseRegistrarImplementation")
      PROVE  Touches(AddController(c, x), C, N, R, P, X)
  BY <1>5 DEF AddController
<1>6. Touches([chain EXCEPT !.code = @ \cup {x}], C, N, R, P, X)
  OBVIOUS
<1>7. Touches([chain EXCEPT !.funded = @ \cup {x}], C, N, R, P, X)
  OBVIOUS
<1> QED
  BY <1>1, <1>2, <1>3, <1>4, <1>5, <1>6, <1>7

\* The chain with one more contract.
LEMMA Built ==
  ASSUME RolloutInv, NEW c, NEW x, NEW C, NEW N, NEW R, NEW P, NEW X,
         c \in C \/ c \notin DOMAIN saved
  PROVE  Touches(Constructed(c, x), C, N, R, P, X)
<1>1. \A d \in DOMAIN saved \ C : At(d) # NewAt(c)
  BY DEF RolloutInv, SavedOK, At, NewAt
<1>2. /\ Constructed(c, x).owner = Put(chain.owner, NewAt(c), x)
      /\ Constructed(c, x).token = chain.token /\ Constructed(c, x).node = chain.node
      /\ Constructed(c, x).resolver = chain.resolver /\ Constructed(c, x).points = chain.points
      /\ Constructed(c, x).controllers = chain.controllers /\ Constructed(c, x).code = chain.code
  BY DEF Constructed, RolloutInv, ChainOK
<1> QED
  BY <1>1, <1>2 DEF Touches, Put

\* Deploying what lasts: once, and the record is taken from then on.
LEMMA Lasts ==
  ASSUME Statement, NEW c \in Lasting, NEW args, NEW built, Create(c, args, built),
         IF c = "NameWrapper" THEN c \notin DOMAIN saved ELSE args = Arguments(c)
  PROVE  /\ Deploys({c}) /\ (pc' = pc + 1) /\ c \in DOMAIN saved' /\ (saved'[c].at = Sole(c))
         /\ IF c \in DOMAIN saved THEN UNCHANGED <<saved, chain>> /\ ~mem'.fresh
                                  ELSE (chain' = built) /\ mem'.fresh
<1> DEFINE new == [at |-> NewAt(c), args |-> args]
<1>1. \A d : Arguments(d)' = Arguments(d)
  BY Constant DEF Statement
<1>2. CASE c \in DOMAIN saved
  <2>1. saved[c].args = args /\ saved[c].at = Sole(c)
    BY <1>2 DEF Statement, WiredInv, RecordsOK
  <2>2. UNCHANGED <<saved, chain>> /\ ~mem'.fresh /\ pc' = pc + 1
    BY <1>2, <2>1 DEF Create, Statement, RolloutInv, MemOK
  <2> QED
    BY <1>2, <2>1, <2>2, NoDeployment
<1>3. CASE c \notin DOMAIN saved
  <2>1. /\ saved' = Put(saved, c, new) /\ chain' = built /\ mem'.fresh /\ pc' = pc + 1
    BY <1>3 DEF Create, Statement, RolloutInv, MemOK
  <2>2. NewAt(c) = Sole(c)
    BY <1>3 DEF NewAt, At, Nobody, Sole
  <2>3. /\ DOMAIN saved' = DOMAIN saved \cup {c} /\ saved'[c].at = Sole(c) /\ saved'[c].args = args
        /\ \A d \in DOMAIN saved : saved'[d] = saved[d]
    BY <1>3, <2>1, <2>2 DEF Put
  <2>4. RecordsOK'
    BY <1>1, <1>3, <2>3 DEF Statement, WiredInv, RecordsOK
  <2> QED
    BY <1>3, <2>1, <2>3, <2>4 DEF Deploys
<1> QED
  BY <1>2, <1>3

\* Deploying anything else.
LEMMA Replaceable ==
  ASSUME Statement, NEW c, c \notin Lasting, NEW args, NEW built, Create(c, args, built)
  PROVE  Deploys({c}) /\ (pc' = pc + 1) /\ c \in DOMAIN saved' /\ chain' \in {chain, built}
<1>1. \A d : Arguments(d)' = Arguments(d)
  BY Constant DEF Statement
<1>2. \/ UNCHANGED <<saved, chain>> /\ c \in DOMAIN saved
      \/ saved' = Put(saved, c, [at |-> NewAt(c), args |-> args]) /\ chain' = built
  BY DEF Create
<1>3. /\ DOMAIN saved' = DOMAIN saved \cup {c}
      /\ \A d \in DOMAIN saved \ {c} : saved'[d] = saved[d]
  BY <1>2 DEF Put
<1>4. RecordsOK'
  BY <1>1, <1>3 DEF Statement, WiredInv, RecordsOK
<1> QED
  BY <1>2, <1>3, <1>4 DEF Deploys, Create

LEMMA ScriptNames ==
  /\ OwnName \cup LegacyName \cup HandedBehind \cup Held \subseteq Scripts
  /\ {"ENSRegistry", "ExponentialPremiumPriceOracle", "Root:setup", "SetTlds", "Multicall3",
      "UniversalSigValidator", "DNSRegistrar", "BaseRegistrarImplementation:setup",
      "ReservedNames", "InfrastructureNames", "SimplePublicSuffixList"} \subseteq Scripts
<1>1. \A i \in 1 .. 38 : Pipeline[i] \in Scripts
  BY Places DEF Scripts
<1>2. /\ Pipeline[1] = "ENSRegistry" /\ Pipeline[6] = "SimplePublicSuffixList"
      /\ Pipeline[7] = "Root" /\ Pipeline[8] = "RootSecurityController"
      /\ Pipeline[9] = "Root:setup" /\ Pipeline[10] = "DNSRegistrar"
      /\ Pipeline[11] = "Multicall3" /\ Pipeline[12] = "SetTlds"
      /\ Pipeline[13] = "BaseRegistrarImplementation"
      /\ Pipeline[14] = "RegistrarSecurityController"
      /\ Pipeline[15] = "BaseRegistrarImplementation:setup"
      /\ Pipeline[16] = "ExponentialPremiumPriceOracle"
      /\ Pipeline[17] = "LegacyETHRegistrarController" /\ Pipeline[18] = "ReverseRegistrar"
      /\ Pipeline[20] = "OwnedResolver" /\ Pipeline[21] = "NameWrapper"
      /\ Pipeline[22] = "WrappedETHRegistrarController"
      /\ Pipeline[23] = "DefaultReverseRegistrar" /\ Pipeline[24] = "ETHRegistrarController"
      /\ Pipeline[26] = "ReservedNames" /\ Pipeline[28] = "PublicResolver"
      /\ Pipeline[29] = "InfrastructureNames" /\ Pipeline[30] = "UniversalSigValidator"
      /\ Pipeline[34] = "DefaultReverseResolver" /\ Pipeline[35] = "BatchGatewayProvider"
      /\ Pipeline[37] = "MigrationHelper"
  BY DEF Pipeline
<1> QED
  BY <1>1, <1>2 DEF OwnName, LegacyName, HandedBehind, Held

-----------------------------------------------------------------------------
(* What stays as it was.                                                   *)

LEMMA Keeps ==
  ASSUME Statement, NEW C, NEW D, NEW N, NEW R, NEW P, NEW X, Leaves(C, D, N, R, P, X)
  PROVE  /\ Control /\ RecordsOK' /\ DOMAIN saved \subseteq DOMAIN saved'
         /\ \A c \in DOMAIN saved' : c \in DOMAIN saved \/ c \in D
         /\ \A c \in Lasting : c \in DOMAIN saved => (At(c) = Sole(c)) /\ (At(c)' = At(c))
         /\ \A c \in DOMAIN saved : c \notin D => At(c)' = At(c)
         /\ \A c \in DOMAIN saved : \A who :
              c \notin C /\ (c \in Lasting \/ c \notin D) /\ OwnedBy(c, who) => OwnedBy(c, who)'
         /\ \A c, controller \in Lasting : Uses(c, controller) => Uses(c, controller)'
         /\ \A slot \in Slots : \A a :
              slot \notin P /\ Pointer(a, slot) # Nobody => Pointer(a, slot)' = Pointer(a, slot)
         /\ \A n \in Nodes : /\ n \notin N => chain'.node[n] = chain.node[n]
                             /\ n \notin R => chain'.resolver[n] = chain.resolver[n]
         /\ chain'.token = chain.token /\ chain.code \subseteq chain'.code
<1>1. \A c \in Lasting : c \in DOMAIN saved => (At(c) = Sole(c)) /\ (At(c)' = At(c))
  BY DEF Leaves, Deploys, Statement, WiredInv, RecordsOK, At
<1>2. \A c \in DOMAIN saved : c \notin D => At(c)' = At(c)
  BY DEF Leaves, Deploys, At
<1>3. \A c \in DOMAIN saved : \A who :
        c \notin C /\ (c \in Lasting \/ c \notin D) /\ OwnedBy(c, who) => OwnedBy(c, who)'
  BY <1>1, <1>2 DEF Leaves, Touches, OwnedBy
<1>4. \A c, controller \in Lasting : Uses(c, controller) => Uses(c, controller)'
  BY <1>1 DEF Leaves, Deploys, Touches, Uses, IsController
<1>5. \A slot \in Slots : \A a :
        slot \notin P /\ Pointer(a, slot) # Nobody => Pointer(a, slot)' = Pointer(a, slot)
  BY DEF Leaves, Touches, Pointer
<1> QED
  BY <1>1, <1>2, <1>3, <1>4, <1>5 DEF Leaves, Deploys, Touches

LEMMA OnRecord ==
  ASSUME RolloutInv, NEW c, NEW who, OwnedBy(c, who) PROVE c \in DOMAIN saved
BY DEF RolloutInv, ChainOK, OwnedBy, At

\* One conjunct after the other, when neither its script runs nor is written what it speaks of.
LEMMA Keeping ==
  ASSUME Statement, NEW C, NEW D, NEW N, NEW R, NEW P, NEW X, Leaves(C, D, N, R, P, X)
  PROVE  /\ (Return(TRUE) => ~Runs("SetTlds")) => OrderlyOK'
         /\ RecordsOK'
         /\ (\A s \in LegacyName : Runs(s) /\ GoesOn => Tag("legacy")) => LegacyOK'
         /\ \A s \in OwnName \cup LegacyName : ~Runs(s) => Present(s)'
         /\ ~Runs("ENSRegistry") /\ ~Runs("ExponentialPremiumPriceOracle")
            /\ {"OwnedUsdOracle", "DummyOracle"} \cap D = {} => PresentOK'
         /\ \A c \in HandedBehind : ~Runs(c) /\ c \notin C /\ c \notin D => HandedOver(c)'
         /\ \A c \in Held : ~Runs(c) /\ c \notin C /\ c \notin D => HolderOK(c)'
         /\ ~Runs("ExponentialPremiumPriceOracle")
            /\ {"OwnedUsdOracle", "DummyOracle"} \cap (C \cup D) = {} => FeedOK'
         /\ ~Runs("Root:setup") /\ "Root" \notin C /\ "root." \notin N => RootOK'
         /\ ~Runs("SimplePublicSuffixList") /\ "SimplePublicSuffixList" \notin D
            /\ "suffixes" \notin P => SuffixesOK'
         /\ ~Runs("Multicall3") /\ ~Runs("UniversalSigValidator")
            /\ {"Multicall3", "UniversalSigValidator"} \cap D = {} => SharedOK'
         /\ ~Runs("SetTlds") /\ "com." \notin N
            /\ ("DNSRegistrar" \notin D \/ ~Behind("SetTlds")) => TldsOK'
         /\ ~Runs("BaseRegistrarImplementation:setup") /\ "BaseRegistrarImplementation" \notin C
            /\ "etn." \notin N => RegistrarOK'
<1> USE DEF Statement
<1>0. /\ Control /\ place \in DOMAIN Pipeline /\ place \in Nat /\ DOMAIN Pipeline \subseteq Nat
      /\ UNCHANGED <<net, env>> /\ outcome = "running" /\ pc \in Nat
  BY Keeps, Places DEF RolloutInv, RunOK
<1>c. /\ Owner' = Owner /\ Feed' = Feed /\ HasFeed' = HasFeed /\ \A t : Tag(t)' = Tag(t)
  BY Constant
<1>s. \A s \in Scripts \ {Pipeline[place]} : \A k \in Nat \ {0} :
        /\ Did(s, k)' => Did(s, k)
        /\ s \in DOMAIN saved => Beyond(s, k)
        /\ ~(Runs(s) /\ mem.fresh /\ pc = 2)'
  BY <1>0, Standing DEF Runs
<1>n. {1, 2, 3, 4, 5} \subseteq Nat \ {0}
  OBVIOUS
<1>1. ASSUME Return(TRUE) => ~Runs("SetTlds") PROVE OrderlyOK'
  <2>1. "SetTlds" \notin done'
    BY <1>0, <1>1 DEF Control, GoesOn, Throw, Return, Runs, WiredInv, OrderlyOK
  <2>2. outcome' = "running" => Pipeline[place'] \notin done'
    <3>1. CASE GoesOn \/ Throw
      BY <1>0, <3>1 DEF GoesOn, Throw, WiredInv, OrderlyOK
    <3>2. ASSUME NEW true, Return(true), outcome' = "running" PROVE Pipeline[place'] \notin done'
      <4>1. /\ Later # {} /\ place' = Min(Later) /\ done' \subseteq done \cup {Pipeline[place]}
        BY <3>2 DEF Return
      <4>2. Later \subseteq Nat
        BY <1>0 DEF Later, Selected
      <4>3. Min(Later) \in Later
        BY <4>1, <4>2, MinIsLeast
      <4> QED
        BY <1>0, <4>1, <4>2, <4>3, OneEach DEF Later, Selected
    <3> QED
      BY <1>0, <3>1, <3>2 DEF Control
  <2> QED
    BY <1>0, <2>1, <2>2 DEF WiredInv, OrderlyOK
<1>2. RecordsOK'
  BY Keeps
<1>3. ASSUME NEW s \in OwnName \cup LegacyName, ~Runs(s) PROVE Present(s)'
  <2>1. s \in Scripts
    BY ScriptNames DEF OwnName, LegacyName
  <2>2. Present(s)
    BY DEF WiredInv, NamedOK
  <2> QED
    BY <1>0, <1>3, <1>c, <1>n, <1>s, <2>1, <2>2, Keeps DEF Present, Runs
<1>4. ASSUME ~Runs("ENSRegistry"), ~Runs("ExponentialPremiumPriceOracle"),
             {"OwnedUsdOracle", "DummyOracle"} \cap D = {}
      PROVE  PresentOK'
  <2>1. Feed \in {"OwnedUsdOracle", "DummyOracle"}
    BY DEF Feed
  <2>2. PresentOK
    BY DEF WiredInv
  <2> QED
    BY <1>0, <1>4, <1>c, <1>n, <1>s, <2>1, <2>2, Keeps, ScriptNames DEF PresentOK, Runs
<1>5. ASSUME NEW c \in HandedBehind, ~Runs(c), c \notin C, c \notin D PROVE HandedOver(c)'
  <2>1. c \in Scripts
    BY ScriptNames DEF HandedBehind
  <2>2. HandedOver(c)
    BY DEF WiredInv, HandedOK
  <2>3. Beyond(c, 2)' => c \in DOMAIN saved
    BY <1>5, Keeps DEF Beyond
  <2> QED
    BY <1>0, <1>5, <1>c, <1>n, <1>s, <2>1, <2>2, <2>3, Keeps DEF HandedOver, Runs
<1>6. ASSUME NEW c \in Held, ~Runs(c), c \notin C, c \notin D PROVE HolderOK(c)'
  <2>1. c \in Scripts
    BY ScriptNames DEF Held
  <2>2. HolderOK(c)
    BY DEF WiredInv, OwnersOK
  <2>3. c \in DOMAIN saved' => c \in DOMAIN saved
    BY <1>6, Keeps
  <2>4. \A who : OwnedBy(c, who) => OwnedBy(c, who)'
    BY <1>6, Keeps, OnRecord
  <2>5. OwnedBy(c, Owner) => OwnedBy(c, Owner)'
    BY <1>c, <2>4
  <2>6. OwnedBy(c, Deployer) => OwnedBy(c, Deployer)'
    BY <2>4 DEF Deployer
  <2>7. Did(c, 2)' => Did(c, 2)
    BY <1>0, <1>6, <1>n, <1>s, <2>1 DEF Runs
  <2> QED
    BY <2>2, <2>3, <2>5, <2>6, <2>7 DEF HolderOK
<1>7. ASSUME ~Runs("ExponentialPremiumPriceOracle"),
             {"OwnedUsdOracle", "DummyOracle"} \cap (C \cup D) = {}
      PROVE  FeedOK'
  <2>1. Feed \in {"OwnedUsdOracle", "DummyOracle"}
    BY DEF Feed
  <2>2. FeedOK /\ ~HandsFeedOver /\ ~HandsFeedOver'
    BY <1>0, <1>7, <1>n, <1>s, ScriptNames DEF WiredInv, HandsFeedOver, Runs
  <2>3. Feed \in DOMAIN saved' => Feed \in DOMAIN saved
    BY <1>7, <2>1, Keeps
  <2>4. Feed \in DOMAIN saved /\ OwnedBy(Feed, Owner) => OwnedBy(Feed, Owner)'
    BY <1>7, <1>c, <2>1, Keeps
  <2> QED
    BY <1>c, <2>2, <2>3, <2>4 DEF FeedOK
<1>8. ASSUME ~Runs("Root:setup"), "Root" \notin C, "root." \notin N PROVE RootOK'
  <2>1. RootOK /\ {"Root", "ENSRegistry"} \subseteq Lasting /\ "root." \in Nodes
    BY DEF WiredInv, Lasting, OwnName, Nodes, OtherNodes
  <2>2. \A k \in {1, 2, 3} : Did("Root:setup", k)' => Did("Root:setup", k)
    BY <1>0, <1>8, <1>n, <1>s, ScriptNames DEF Runs
  <2>3. Did("Root:setup", 2)' => OwnedBy("Root", Owner)'
    BY <1>8, <1>c, <2>1, <2>2, Keeps, OnRecord DEF RootOK
  <2>4. Did("Root:setup", 3)' => IsController("Root", Owner)'
    <3>1. Did("Root:setup", 3) => Did("Root:setup", 1)
      BY <1>0 DEF Did
    <3>2. chain.controllers \subseteq chain'.controllers
      BY DEF Leaves, Touches
    <3> QED
      BY <1>c, <2>1, <2>2, <3>1, <3>2, Keeps DEF RootOK, IsController
  <2> QED
    BY <1>8, <2>1, <2>2, <2>3, <2>4, Keeps DEF RootOK
<1>9. ASSUME ~Runs("SimplePublicSuffixList"), "SimplePublicSuffixList" \notin D, "suffixes" \notin P
      PROVE  SuffixesOK'
  <2>1. SuffixesOK /\ "SimplePublicSuffixList" \in Lasting /\ "suffixes" \in Slots
    BY DEF WiredInv, Lasting, OwnName, Slots
  <2>2. Beyond("SimplePublicSuffixList", 3)' => "SimplePublicSuffixList" \in DOMAIN saved
    BY <1>9, Keeps DEF Beyond
  <2>3. "SimplePublicSuffixList" \in DOMAIN saved => Beyond("SimplePublicSuffixList", 3)
    BY <1>0, <1>9, <1>n, <1>s, ScriptNames DEF Runs
  <2>4. \A a : Pointer(a, "suffixes") # Nobody => Pointer(a, "suffixes")' # Nobody
    BY <1>9, <2>1, Keeps
  <2>5. "SimplePublicSuffixList" \in DOMAIN saved =>
          At("SimplePublicSuffixList")' = At("SimplePublicSuffixList")
    BY <2>1, Keeps
  <2> QED
    BY <2>1, <2>2, <2>3, <2>4, <2>5 DEF SuffixesOK, Pointer
<1>10. ASSUME ~Runs("Multicall3"), ~Runs("UniversalSigValidator"),
              {"Multicall3", "UniversalSigValidator"} \cap D = {}
       PROVE  SharedOK'
  <2>1. SharedOK
    BY DEF WiredInv
  <2>2. \A s \in {"Multicall3", "UniversalSigValidator"} :
          /\ s \in Scripts
          /\ Behind(s)' => Behind(s)
          /\ Runs(s)' => pc' = 1
    BY <1>0, <1>10, ScriptNames, Progress
  <2>3. \A c \in {"Multicall3", "UniversalSigValidator"} : HasCode(c) => HasCode(c)'
    <3>1. \A c \in {"Multicall3", "UniversalSigValidator"} :
            c \notin DOMAIN saved => At(c)[2] = 0
      BY DEF At, Nobody
    <3> QED
      BY <1>10, <3>1, Keeps DEF HasCode
  <2>4. \A c \in {"Multicall3", "UniversalSigValidator"} : c \in DOMAIN saved' => c \in DOMAIN saved
    BY <1>10, Keeps
  <2> QED
    BY <2>1, <2>2, <2>3, <2>4 DEF SharedOK
<1>11. ASSUME ~Runs("SetTlds"), "com." \notin N, "DNSRegistrar" \notin D \/ ~Behind("SetTlds")
       PROVE  TldsOK'
  <2>1. TldsOK /\ "com." \in Nodes
    BY DEF WiredInv, Nodes, OtherNodes
  <2>2. Did("SetTlds", 1)' => Did("SetTlds", 1) /\ Behind("SetTlds")
    BY <1>0, <1>11, <1>n, <1>s, ScriptNames DEF Runs, Did
  <2>3. "DNSRegistrar" \notin D /\ Did("SetTlds", 1) => At("DNSRegistrar")' = At("DNSRegistrar")
    BY Keeps DEF At
  <2> QED
    BY <1>11, <2>1, <2>2, <2>3, Keeps DEF TldsOK
<1>12. ASSUME ~Runs("BaseRegistrarImplementation:setup"), "BaseRegistrarImplementation" \notin C,
              "etn." \notin N
       PROVE  RegistrarOK'
  <2>1. RegistrarOK /\ {"BaseRegistrarImplementation", "RegistrarSecurityController"} \subseteq Lasting
        /\ "etn." \in Nodes
    BY DEF WiredInv, Lasting, OwnName, Nodes, OtherNodes
  <2>2. \A k \in {1, 2} : Did("BaseRegistrarImplementation:setup", k)'
                            => Did("BaseRegistrarImplementation:setup", k)
    BY <1>0, <1>12, <1>n, <1>s, ScriptNames DEF Runs
  <2>3. \A who : OwnedBy("BaseRegistrarImplementation", who)
                   => OwnedBy("BaseRegistrarImplementation", who)'
    BY <1>12, <2>1, Keeps, OnRecord
  <2> QED
    BY <1>12, <2>1, <2>2, <2>3, Keeps DEF RegistrarOK, NodeOfTld, OwnedBy
<1>13. ASSUME \A s \in LegacyName : Runs(s) /\ GoesOn => Tag("legacy") PROVE LegacyOK'
  <2>1. ASSUME NEW s \in LegacyName, Runs(s)', pc' > 1 PROVE Tag("legacy")'
    <3>1. s \in Scripts
      BY ScriptNames
    <3>2. ~Runs(s) => pc' = 1
      BY <1>0, <2>1, <3>1, Progress
    <3>3. Runs(s) => GoesOn
      BY <1>0, <2>1, <3>1, Progress DEF Control
    <3> QED
      BY <1>13, <1>c, <2>1, <3>2, <3>3
  <2> QED
    BY <2>1 DEF LegacyOK
<1> QED
  BY <1>1, <1>2, <1>3, <1>4, <1>5, <1>6, <1>7, <1>8, <1>9, <1>10, <1>11, <1>12, <1>13

LEMMA KeepingRoles ==
  ASSUME Statement, NEW C, NEW D, NEW N, NEW R, NEW P, NEW X, Leaves(C, D, N, R, P, X)
  PROVE  /\ \A c \in {"NameWrapper", "WrappedETHRegistrarController", "ETHRegistrarController"} :
              \A k \in Nat \ {0} : \A on \in Lasting :
                ~Runs(c) /\ c \notin D /\ Takes(c, k, on) => Takes(c, k, on)'
         /\ ~Runs("LegacyETHRegistrarController") =>
              (Tag("legacy") /\ Did("LegacyETHRegistrarController", 2)
                => Registers("LegacyETHRegistrarController"))'
         /\ X \subseteq Registrants => NoOthers'
         /\ ~Runs("ReservedNames") /\ ~Runs("InfrastructureNames") /\ Owner \notin X => LentOK'
         /\ (~Runs("ReservedNames") \/ ~Runs("ReservedNames")') => LaunchOK'
         /\ (~Runs("InfrastructureNames") \/ ~Runs("InfrastructureNames")') => HandoverOK'
<1> USE DEF Statement
<1>0. Control /\ UNCHANGED net
  BY Keeps
<1>c. Owner' = Owner /\ Registrants' = Registrants /\ \A t : Tag(t)' = Tag(t)
  BY Constant
<1>s. \A s \in Scripts \ {Pipeline[place]} : \A k \in Nat \ {0} :
        /\ Did(s, k)' => Did(s, k)
        /\ s \in DOMAIN saved => Beyond(s, k)
  BY <1>0, Standing DEF Runs
<1>1. ASSUME NEW c \in {"NameWrapper", "WrappedETHRegistrarController", "ETHRegistrarController"},
             NEW k \in Nat \ {0}, NEW on \in Lasting, ~Runs(c), c \notin D, Takes(c, k, on)
      PROVE  Takes(c, k, on)'
  <2>1. c \in Scripts /\ c \in Lasting
    BY ScriptNames DEF HandedBehind, Lasting, OwnName, LegacyName
  <2>2. Beyond(c, k)' => c \in DOMAIN saved
    BY <1>1, Keeps DEF Beyond
  <2>3. c \in DOMAIN saved => Beyond(c, k)
    BY <1>1, <1>s, <2>1 DEF Runs
  <2> QED
    BY <1>1, <2>1, <2>2, <2>3, Keeps DEF Takes
<1>2. ASSUME ~Runs("LegacyETHRegistrarController")
      PROVE  (Tag("legacy") /\ Did("LegacyETHRegistrarController", 2)
                => Registers("LegacyETHRegistrarController"))'
  <2>1. /\ "LegacyETHRegistrarController" \in Scripts
        /\ {"LegacyETHRegistrarController", "BaseRegistrarImplementation"} \subseteq Lasting
    BY ScriptNames DEF Held, Lasting, OwnName, LegacyName
  <2>2. Did("LegacyETHRegistrarController", 2)' => Did("LegacyETHRegistrarController", 2)
    BY <1>2, <1>s, <2>1, 2 \in Nat \ {0} DEF Runs
  <2>3. Tag("legacy") /\ Did("LegacyETHRegistrarController", 2)
          => Registers("LegacyETHRegistrarController")
    BY DEF WiredInv, ControllersOK
  <2> QED
    BY <1>c, <2>1, <2>2, <2>3, Keeps DEF Registers
<1>3. ASSUME X \subseteq Registrants PROVE NoOthers'
  BY <1>3, <1>c DEF WiredInv, NoOthers, Leaves, Touches, Sole
<1>4. ASSUME ~Runs("ReservedNames"), ~Runs("InfrastructureNames"), Owner \notin X PROVE LentOK'
  <2>1. LentOK /\ ~Granted
    BY <1>4 DEF WiredInv, Granted
  <2>2. "BaseRegistrarImplementation" \in Lasting
    BY DEF Lasting, OwnName
  <2>3. ~OwnerIsController'
    <3>1. SUFFICES ASSUME OwnerIsController' PROVE FALSE
      OBVIOUS
    <3>2. "BaseRegistrarImplementation" \in DOMAIN saved'
      <4>1. PICK k \in Nat : \/ At("BaseRegistrarImplementation")' = <<"Root", k>>
                             \/ "BaseRegistrarImplementation" \in DOMAIN saved'
        BY <3>1 DEF RolloutInv, RolesOK, OwnerIsController, IsController
      <4> QED
        BY <4>1, AtIsAddress DEF RolloutInv, SavedOK, At, Nobody
    <3>3. At("BaseRegistrarImplementation")' = Sole("BaseRegistrarImplementation")
      BY <2>2, <3>2, Keeps DEF RecordsOK, At, Sole
    <3>4. <<Sole("BaseRegistrarImplementation"), Owner>> \in chain.controllers
      BY <1>4, <1>c, <3>1, <3>3 DEF OwnerIsController, IsController, Leaves, Touches
    <3>5. "BaseRegistrarImplementation" \in DOMAIN saved
      BY <3>4 DEF RolloutInv, RolesOK, Sole
    <3>6. OwnerIsController
      BY <2>2, <3>4, <3>5, Keeps DEF OwnerIsController, IsController
    <3> QED
      BY <2>1, <3>6 DEF LentOK
  <2>4. Behind("ReservedNames")' => Behind("ReservedNames")
    BY <1>0, <1>4, Progress, ScriptNames
  <2>5. chain'.token = chain.token
    BY Keeps
  <2> QED
    BY <1>c, <2>1, <2>3, <2>4, <2>5 DEF LentOK, Available
<1>5. ASSUME ~Runs("ReservedNames") \/ ~Runs("ReservedNames")' PROVE LaunchOK'
  <2>1. ~Runs("ReservedNames") /\ Runs("ReservedNames")' => pc' = 1
    BY <1>0, Progress, ScriptNames
  <2> QED
    BY <1>5, <2>1 DEF LaunchOK
<1>6. ASSUME ~Runs("InfrastructureNames") \/ ~Runs("InfrastructureNames")' PROVE HandoverOK'
  <2>1. ~Runs("InfrastructureNames") /\ Runs("InfrastructureNames")' => pc' = 1
    BY <1>0, Progress, ScriptNames
  <2> QED
    BY <1>6, <2>1 DEF HandoverOK
<1> QED
  BY <1>1, <1>2, <1>3, <1>4, <1>5, <1>6

LEMMA KeepingNodes ==
  ASSUME Statement, NEW C, NEW D, NEW N, NEW R, NEW P, NEW X, Leaves(C, D, N, R, P, X)
  PROVE  /\ ~Runs("ReverseRegistrar") /\ "ReverseRegistrar" \notin D
            /\ {"reverse.", "addr.reverse."} \cap N = {} => ReverseOK'
         /\ ~Runs("OwnedResolver") /\ "etn." \notin R => TldResolverOK'
         /\ ~Runs("NameWrapper") /\ "NameWrapper" \notin D => WrapperOK'
         /\ ~Runs("PublicResolver") /\ "PublicResolver" \notin D
            /\ {"defaultResolver", "resolver"} \cap P = {} /\ "resolver" \notin R => PublicResolverOK'
         /\ ~Runs("DefaultReverseResolver") /\ "reverse." \notin R => ReverseResolverOK'
<1> USE DEF Statement
<1>0. Control /\ UNCHANGED net
  BY Keeps
<1>c. Owner' = Owner
  BY Constant
<1>s. \A s \in Scripts \ {Pipeline[place]} : \A k \in Nat \ {0} :
        /\ Did(s, k)' => Did(s, k)
        /\ s \in DOMAIN saved => Beyond(s, k)
  BY <1>0, Standing DEF Runs
<1>n. {1, 2, 3, 4, 5} \subseteq Nat \ {0}
  OBVIOUS
<1>l. /\ OwnName \subseteq Lasting /\ OwnName \subseteq Scripts
      /\ {"ReverseRegistrar", "OwnedResolver", "NameWrapper", "PublicResolver",
          "DefaultReverseResolver"} \subseteq OwnName
      /\ {"reverse.", "addr.reverse.", "etn.", "resolver"} \subseteq Nodes
      /\ "NameWrapper" \in done => "NameWrapper" \in done'
  <2>1. "resolver" \in Labels
    BY WiringAssumption DEF Labels
  <2> QED
    BY <1>0, <2>1, ScriptNames DEF Lasting, OwnName, Nodes, OtherNodes, Control, GoesOn, Return, Throw
<1>b. \A c \in OwnName : \A k \in Nat \ {0} :
        ~Runs(c) /\ c \notin D /\ Beyond(c, k)' => Beyond(c, k) /\ c \in DOMAIN saved
  BY <1>l, <1>s, Keeps DEF Beyond, Runs
<1>1. ASSUME ~Runs("ReverseRegistrar"), "ReverseRegistrar" \notin D,
             {"reverse.", "addr.reverse."} \cap N = {}
      PROVE  ReverseOK'
  BY <1>1, <1>b, <1>c, <1>l, <1>n, Keeps DEF WiredInv, ReverseOK
<1>2. ASSUME ~Runs("OwnedResolver"), "etn." \notin R PROVE TldResolverOK'
  <2>1. Did("OwnedResolver", 3)' => Did("OwnedResolver", 3)
    BY <1>2, <1>l, <1>n, <1>s DEF Runs
  <2> QED
    BY <1>2, <1>l, <2>1, Keeps DEF WiredInv, TldResolverOK
<1>3. ASSUME ~Runs("NameWrapper"), "NameWrapper" \notin D PROVE WrapperOK'
  BY <1>3, <1>l, Keeps DEF WiredInv, WrapperOK
<1>4. ASSUME ~Runs("PublicResolver"), "PublicResolver" \notin D,
             {"defaultResolver", "resolver"} \cap P = {}, "resolver" \notin R
      PROVE  PublicResolverOK'
  <2>1. PublicResolverOK
    BY DEF WiredInv
  <2>2. \A k \in {2, 3, 4} : Beyond("PublicResolver", k)'
          => /\ Beyond("PublicResolver", k) /\ At("PublicResolver") # Nobody
             /\ At("PublicResolver")' = At("PublicResolver")
    <3>1. "PublicResolver" \in DOMAIN saved => At("PublicResolver") = Sole("PublicResolver")
      BY <1>l, Keeps
    <3> QED
      BY <1>4, <1>b, <1>l, <1>n, <3>1, Keeps DEF Sole, Nobody
  <2>3. "ReverseRegistrar" \in DOMAIN saved => At("ReverseRegistrar")' = At("ReverseRegistrar")
    BY <1>l, Keeps
  <2>4. \A slot \in {"defaultResolver", "resolver"} : \A a :
          Pointer(a, slot) # Nobody => Pointer(a, slot)' = Pointer(a, slot)
    BY <1>4, Keeps DEF Slots
  <2>5. Beyond("PublicResolver", 2)' =>
          /\ "ReverseRegistrar" \in DOMAIN saved'
          /\ (Pointer(At("ReverseRegistrar"), "defaultResolver") = At("PublicResolver"))'
    BY <2>1, <2>2, <2>3, <2>4, Keeps DEF PublicResolverOK, Pointer
  <2>6. Beyond("PublicResolver", 4)' =>
          (Pointer(At("PublicResolver"), "resolver") = At("PublicResolver"))'
    BY <2>1, <2>2, <2>4 DEF PublicResolverOK, Pointer
  <2>7. Beyond("PublicResolver", 3)' => (chain.resolver["resolver"] = At("PublicResolver"))'
    BY <1>4, <1>l, <2>1, <2>2, Keeps DEF PublicResolverOK
  <2> QED
    BY <2>5, <2>6, <2>7 DEF PublicResolverOK
<1>5. ASSUME ~Runs("DefaultReverseResolver"), "reverse." \notin R PROVE ReverseResolverOK'
  <2>1. Did("DefaultReverseResolver", 3)' => Did("DefaultReverseResolver", 3)
    BY <1>5, <1>l, <1>n, <1>s DEF Runs
  <2> QED
    BY <1>5, <1>l, <2>1, Keeps DEF WiredInv, ReverseResolverOK
<1> QED
  BY <1>1, <1>2, <1>3, <1>4, <1>5

-----------------------------------------------------------------------------
(* The scripts that have no part in the wiring.                            *)

NamedScripts == OwnName \cup LegacyName \cup
  {"ENSRegistry", "ExponentialPremiumPriceOracle", "Root:setup", "SetTlds", "Multicall3",
   "UniversalSigValidator", "BaseRegistrarImplementation:setup", "ReservedNames",
   "InfrastructureNames"}

NamedContracts == Lasting \cup {"Multicall3", "UniversalSigValidator"}

LEMMA Controlled ==
  ASSUME RolloutInv, outcome = "running",
         \/ RootStep \/ RegistrarStep \/ ResolverStep
         \/ DeployMulticall \/ DeploySigValidator \/ DeployL2Registrar,
         ~Runs("ReservedNames"), ~Runs("InfrastructureNames")
  PROVE  Control
<1> /\ TypesOK
  BY DEF TypesOK, RolloutInv
<1> USE DEF RolloutInv
<1>1. CASE RootStep
  BY <1>1, RootScriptsAreQuiet DEF Quiet
<1>2. CASE RegistrarStep
  <2>1. SetupBaseRegistrar => Control
    BY SetupOfRegistrar DEF Control
  <2> QED
    BY <1>2, <2>1, RegistrarScriptsAreQuiet
       DEF RegistrarStep, Quiet, RegisterReservedNames, RegisterInfrastructureNames
<1>3. CASE ResolverStep
  <2>1. CASE Runs("PublicResolver")
    <3>1. DeployPublicResolver
      BY <1>3, <2>1 DEF ResolverStep, Runs, DeployOwnedResolver, DeployExtendedDNSResolver,
           DeployLegacyPublicResolver, DeployReverseRegistrar, DeployDefaultReverseRegistrar,
           DeployDefaultReverseResolver, DeployMetadataService, DeployNameWrapper,
           UpdateMetadataService, DeployGatewayProvider, DeployUniversalResolver,
           DeployMigrationHelper
    <3> QED
      BY <3>1, PublicResolverScript DEF Control
  <2> QED
    BY <1>3, <2>1, ResolverScriptsAreQuiet DEF Quiet
<1>4. CASE DeployMulticall \/ DeploySigValidator \/ DeployL2Registrar
  BY <1>4, SharedScriptsAreQuiet DEF Quiet
<1> QED
  BY <1>1, <1>2, <1>3, <1>4

LEMMA OtherParts ==
  ASSUME Statement, NEW D, Leaves(D, D, {}, {}, {}, {}), D \cap NamedContracts = {},
         Pipeline[place] \notin NamedScripts \ NameScripts,
         "DNSRegistrar" \in D => ~Behind("SetTlds"),
         LentOK', LaunchOK', HandoverOK'
  PROVE  WiredInv'
<1>1. \A s \in NamedScripts \ NameScripts : ~Runs(s)
  BY DEF Runs
<1>3. /\ HandedBehind \subseteq (NamedScripts \ NameScripts) \cap NamedContracts
      /\ Held \subseteq (NamedScripts \ NameScripts) \cap NamedContracts
      /\ OwnName \cup LegacyName \subseteq (NamedScripts \ NameScripts) \cap NamedContracts
      /\ {"OwnedUsdOracle", "DummyOracle", "Multicall3", "UniversalSigValidator"} \subseteq NamedContracts
      /\ {"ENSRegistry", "ExponentialPremiumPriceOracle", "Root:setup", "SetTlds", "Multicall3",
          "UniversalSigValidator", "BaseRegistrarImplementation:setup"} \subseteq NamedScripts \ NameScripts
  BY DEF NamedScripts, NameScripts, NamedContracts, HandedBehind, Held, OwnName, LegacyName, Lasting
<1>4. \A c \in OwnName \cup LegacyName : ~Runs(c) /\ c \notin D
  BY <1>1, <1>3
<1>5. \A c \in HandedBehind \cup Held : ~Runs(c) /\ c \notin D
  BY <1>1, <1>3
<1>6. {"Root", "SimplePublicSuffixList", "BaseRegistrarImplementation", "ReverseRegistrar",
       "OwnedResolver", "NameWrapper", "PublicResolver", "DefaultReverseResolver",
       "ETHRegistrarController", "WrappedETHRegistrarController",
       "LegacyETHRegistrarController"} \subseteq OwnName \cup LegacyName
  BY DEF OwnName, LegacyName
<1>7. HandedOK' /\ OwnersOK' /\ NamedOK' /\ LegacyOK'
  BY <1>4, <1>5, Keeping DEF HandedOK, OwnersOK, NamedOK
<1>8. OrderlyOK' /\ RecordsOK' /\ PresentOK' /\ FeedOK' /\ RootOK' /\ SuffixesOK' /\ SharedOK'
      /\ TldsOK' /\ RegistrarOK'
  <2>1. /\ ~Runs("ENSRegistry") /\ ~Runs("ExponentialPremiumPriceOracle") /\ ~Runs("Root:setup")
        /\ ~Runs("SetTlds") /\ ~Runs("Multicall3") /\ ~Runs("UniversalSigValidator")
        /\ ~Runs("BaseRegistrarImplementation:setup") /\ ~Runs("SimplePublicSuffixList")
    BY <1>1, <1>3, <1>4, <1>6
  <2>2. /\ {"OwnedUsdOracle", "DummyOracle"} \cap D = {}
        /\ {"OwnedUsdOracle", "DummyOracle"} \cap (D \cup D) = {}
        /\ {"Multicall3", "UniversalSigValidator"} \cap D = {}
    BY <1>3
  <2>3. "Root" \notin D /\ "SimplePublicSuffixList" \notin D /\ "BaseRegistrarImplementation" \notin D
    BY <1>4, <1>6
  <2> QED
    BY <2>1, <2>2, <2>3, Keeping
<1>9. ControllersOK' /\ NoOthers'
  <2>1. {"BaseRegistrarImplementation", "ReverseRegistrar", "DefaultReverseRegistrar"} \subseteq Lasting
    BY DEF Lasting, OwnName
  <2>2. ControllersOK
    BY DEF Statement, WiredInv
  <2> QED
    BY <1>4, <1>6, <2>1, <2>2, KeepingRoles, {3, 4, 5} \subseteq Nat \ {0} DEF ControllersOK
<1>10. ReverseOK' /\ TldResolverOK' /\ WrapperOK' /\ PublicResolverOK' /\ ReverseResolverOK'
  BY <1>4, <1>6, KeepingNodes
<1> QED
  BY <1>7, <1>8, <1>9, <1>10 DEF WiredInv

LEMMA MinorScripts ==
  ASSUME Statement, NEW D, Leaves(D, D, {}, {}, {}, {}), D \cap NamedContracts = {},
         Pipeline[place] \notin NamedScripts,
         "DNSRegistrar" \in D => ~Behind("SetTlds")
  PROVE  WiredInv'
<1>1. ~Runs("ReservedNames") /\ ~Runs("InfrastructureNames")
  BY DEF NamedScripts, Runs
<1>2. LentOK' /\ LaunchOK' /\ HandoverOK'
  BY <1>1, KeepingRoles
<1> QED
  BY <1>2, OtherParts

LEMMA MinorSteps ==
  ASSUME Statement, Control, NEW c, c \notin Lasting, NEW args, NEW P
  PROVE  /\ UNCHANGED <<chain, saved>> => Leaves({c}, {c}, {}, {}, {}, {})
         /\ Deploy(c, args) => Leaves({c}, {c}, {}, {}, {}, {})
         /\ DeployClaiming(c, args, chain) => Leaves({c}, {c}, {}, {}, {}, {})
<1>1. Throw => UNCHANGED <<chain, saved>>
  BY DEF Throw
<1>2. UNCHANGED <<chain, saved>> => Leaves({c}, {c}, {}, {}, {}, {})
  BY Still
<1>3. ASSUME NEW built, built = chain \/ built = Constructed(c, Deployer), Create(c, args, built)
      PROVE  Leaves({c}, {c}, {}, {}, {}, {})
  <2>1. Deploys({c}) /\ chain' \in {chain, built}
    BY <1>3, Replaceable
  <2>2. Touches(Constructed(c, Deployer), {c} \cup ({c} \ Lasting), {}, {}, {}, {})
    BY Built DEF Statement
  <2>3. Touches(chain', {c} \cup ({c} \ Lasting), {}, {}, {}, {})
    BY <1>3, <2>1, <2>2, Untouched
  <2> QED
    BY <2>1, <2>3 DEF Leaves
<1> QED
  BY <1>1, <1>2, <1>3 DEF Deploy, DeployClaiming

LEMMA MinorSends ==
  ASSUME Statement, Control, NEW c, NEW allowed, NEW settled, NEW after,
         Touches(after, {c} \cup ({c} \ Lasting), {}, {}, {}, {})
  PROVE  /\ Send(allowed, after) => Leaves({c}, {c}, {}, {}, {}, {})
         /\ SendUnless(settled, allowed, after) => Leaves({c}, {c}, {}, {}, {}, {})
         /\ \A m, next : Tx(allowed, after, m, next) => Leaves({c}, {c}, {}, {}, {}, {})
<1>1. ASSUME UNCHANGED saved, chain' = after \/ chain' = chain PROVE Leaves({c}, {c}, {}, {}, {}, {})
  BY <1>1, Sent
<1>2. \A m, next : Tx(allowed, after, m, next) => UNCHANGED saved /\ (chain' = after \/ chain' = chain)
  BY DEF Tx, Throw
<1>3. Skip => UNCHANGED saved /\ (chain' = after \/ chain' = chain)
  BY DEF Skip, Goto
<1> QED
  BY <1>1, <1>2, <1>3 DEF Send, SendUnless

LEMMA MinorPointers ==
  ASSUME Statement, Control, NEW c, NEW a, NEW slot, slot \notin Slots, NEW v, NEW allowed, NEW settled
  PROVE  /\ Send(allowed, SetPointer(a, slot, v)) => Leaves({c}, {c}, {}, {}, {}, {})
         /\ \A m, next : Tx(allowed, SetPointer(a, slot, v), m, next) => Leaves({c}, {c}, {}, {}, {}, {})
BY MinorSends, Touching DEF Statement

LEMMA MinorInterfaces ==
  ASSUME Statement, Control, NEW c, NEW n, NEW interface, interface \notin Slots, NEW at,
         SetInterface(n, interface, at)
  PROVE  Leaves({c}, {c}, {}, {}, {}, {})
<1>1. Return(FALSE) => UNCHANGED <<chain, saved>>
  BY DEF Return
<1> QED
  BY <1>1, MinorPointers, Still DEF SetInterface

LEMMA MinorControllers ==
  ASSUME Statement, Control, NEW c, NEW on, on # "BaseRegistrarImplementation", NEW who,
         SetControllerOn(on, who)
  PROVE  Leaves({c}, {c}, {}, {}, {}, {})
<1>1. At(on) # Sole("BaseRegistrarImplementation")
  BY AtIsAddress DEF Statement, RolloutInv, Sole, Nobody
<1>2. Touches(AddController(on, who), {c} \cup ({c} \ Lasting), {}, {}, {}, {})
  BY <1>1, Touching DEF Statement
<1> QED
  BY <1>2, MinorSends DEF SetControllerOn

LEMMA MinorWired ==
  ASSUME Statement, RunScript, Pipeline[place] \notin NamedScripts PROVE WiredInv'
<1>0. ~Runs("ReservedNames") /\ ~Runs("InfrastructureNames")
  BY DEF NamedScripts, Runs
<1>c. Control
  BY <1>0, Controlled DEF Statement, RunScript
<1>m. ASSUME NEW c, c \notin NamedContracts, c # "DNSRegistrar", Leaves({c}, {c}, {}, {}, {}, {})
      PROVE  WiredInv'
  BY <1>m, MinorScripts
<1>n. \A c \in {"RSASHA1Algorithm", "RSASHA256Algorithm", "P256SHA256Algorithm",
                "DummyAlgorithm", "SHA1Digest", "SHA256Digest", "DummyDigest", "DNSSECImpl",
                "OffchainDNSResolver", "DNSRegistrar", "StaticMetadataService", "StaticBulkRenewal",
                "UniversalRegistrarRenewalWithReferrer", "L2ReverseRegistrar",
                "ExtendedDNSResolver", "LegacyPublicResolver", "UniversalResolver"} :
        c \notin NamedContracts /\ c \notin Lasting
  BY DEF NamedContracts, Lasting, OwnName, LegacyName
<1>s. \A c, args : c \notin Lasting =>
        /\ UNCHANGED <<chain, saved>> => Leaves({c}, {c}, {}, {}, {}, {})
        /\ Deploy(c, args) => Leaves({c}, {c}, {}, {}, {}, {})
        /\ DeployClaiming(c, args, chain) => Leaves({c}, {c}, {}, {}, {}, {})
  BY <1>c, MinorSteps
<1>u. /\ Return(TRUE) \/ Return(FALSE) \/ Throw \/ Skip => UNCHANGED <<chain, saved>>
      /\ \A k : Goto(k) => UNCHANGED <<chain, saved>>
  BY DEF Return, Throw, Skip, Goto
<1>1. CASE DeployAlgorithms \/ DeployDigests
  <2> DEFINE Verifying == {"RSASHA1Algorithm", "RSASHA256Algorithm", "P256SHA256Algorithm",
                           "DummyAlgorithm", "SHA1Digest", "SHA256Digest", "DummyDigest"}
  <2>1. ASSUME NEW contracts \in Seq(Verifying), DeployEach(contracts) PROVE WiredInv'
    <3>1. CASE pc \in DOMAIN contracts
      <4>1. contracts[pc] \in Verifying /\ Deploy(contracts[pc], << >>)
        BY <2>1, <3>1 DEF DeployEach
      <4>2. contracts[pc] \notin NamedContracts /\ contracts[pc] \notin Lasting
            /\ contracts[pc] # "DNSRegistrar"
        BY <1>n, <4>1
      <4> QED
        BY <1>m, <1>s, <4>1, <4>2
    <3>2. CASE pc \notin DOMAIN contracts
      <4>1. UNCHANGED <<chain, saved>>
        BY <1>u, <2>1, <3>2 DEF DeployEach
      <4> QED
        BY <1>m, <1>n, <1>s, <4>1
    <3> QED
      BY <3>1, <3>2
  <2>2. /\ <<"RSASHA1Algorithm", "RSASHA256Algorithm", "P256SHA256Algorithm">> \in Seq(Verifying)
        /\ <<"SHA1Digest", "SHA256Digest">> \in Seq(Verifying)
        /\ <<"DummyAlgorithm">> \in Seq(Verifying) /\ <<"DummyDigest">> \in Seq(Verifying)
        /\ << >> \in Seq(Verifying)
    OBVIOUS
  <2> HIDE DEF Verifying
  <2>3. \A s, t \in Seq(Verifying) : s \o t \in Seq(Verifying)
    OBVIOUS
  <2> QED
    BY <1>1, <2>1, <2>2, <2>3 DEF DeployAlgorithms, DeployDigests
<1>2. CASE DeployOracle
  <2> DEFINE Kinds == {"algorithm 5", "algorithm 7", "algorithm 8", "algorithm 13", "algorithm 253",
                       "algorithm 254", "digest 1", "digest 2", "digest 253"}
             Names == {"RSASHA1Algorithm", "RSASHA256Algorithm", "P256SHA256Algorithm",
                       "DummyAlgorithm", "SHA1Digest", "SHA256Digest", "DummyDigest"}
             Pairs == Kinds \X Names
  <2>q. \A slot \in Kinds : slot \notin Slots
    BY DEF Slots
  <2>p. /\ <<"algorithm 5", "RSASHA1Algorithm">> \in Pairs
        /\ <<"algorithm 7", "RSASHA1Algorithm">> \in Pairs
        /\ <<"algorithm 8", "RSASHA256Algorithm">> \in Pairs
        /\ <<"algorithm 13", "P256SHA256Algorithm">> \in Pairs
        /\ <<"algorithm 253", "DummyAlgorithm">> \in Pairs
        /\ <<"algorithm 254", "DummyAlgorithm">> \in Pairs
        /\ <<"digest 1", "SHA1Digest">> \in Pairs /\ <<"digest 2", "SHA256Digest">> \in Pairs
        /\ <<"digest 253", "DummyDigest">> \in Pairs
    OBVIOUS
  <2>r. \A v, w, x, y \in Pairs :
          /\ <<v, w, x, y>> \in Seq(Pairs) /\ <<v, w>> \in Seq(Pairs) /\ <<v>> \in Seq(Pairs)
          /\ << >> \in Seq(Pairs)
    <3> HIDE DEF Pairs
    <3> QED
      OBVIOUS
  <2>a. /\ <<<<"algorithm 5", "RSASHA1Algorithm">>, <<"algorithm 7", "RSASHA1Algorithm">>,
             <<"algorithm 8", "RSASHA256Algorithm">>, <<"algorithm 13", "P256SHA256Algorithm">>>>
             \in Seq(Pairs)
        /\ <<<<"algorithm 253", "DummyAlgorithm">>, <<"algorithm 254", "DummyAlgorithm">>>> \in Seq(Pairs)
        /\ <<<<"digest 1", "SHA1Digest">>, <<"digest 2", "SHA256Digest">>>> \in Seq(Pairs)
        /\ <<<<"digest 253", "DummyDigest">>>> \in Seq(Pairs)
        /\ << >> \in Seq(Pairs)
    <3> HIDE DEF Pairs
    <3> QED
      BY <2>p, <2>r, Zenon
  <2>b. \A s, t \in Seq(Pairs) : s \o t \in Seq(Pairs)
    <3> HIDE DEF Pairs
    <3> QED
      OBVIOUS
  <2>c. Verifiers \in Seq(Pairs)
    <3> HIDE DEF Pairs
    <3> QED
      BY <2>a, <2>b DEF Verifiers
  <2>1. DOMAIN Verifiers \subseteq Nat /\ \A i \in DOMAIN Verifiers : Verifiers[i][1] \notin Slots
    <3>1. DOMAIN Verifiers \subseteq Nat /\ \A i \in DOMAIN Verifiers : Verifiers[i] \in Pairs
      <4> HIDE DEF Pairs
      <4> QED
        BY <2>c
    <3> QED
      BY <2>q, <3>1
  <2> DEFINE unset == {i \in DOMAIN Verifiers :
                         Pointer(At("DNSSECImpl"), Verifiers[i][1]) # At(Verifiers[i][2])}
             first == CHOOSE i \in unset : \A j \in unset : i <= j
  <2>2. \/ Deploy("DNSSECImpl", << >>)
        \/ /\ unset # {}
           /\ Tx(OwnedBy("DNSSECImpl", Deployer),
                 SetPointer(At("DNSSECImpl"), Verifiers[first][1], At(Verifiers[first][2])), mem, 2)
        \/ Return(FALSE)
    BY <1>2 DEF DeployOracle
  <2>3. Leaves({"DNSSECImpl"}, {"DNSSECImpl"}, {}, {}, {}, {})
    <3>1. CASE Verifiers[first][1] \notin Slots
      BY <1>c, <1>n, <1>s, <1>u, <2>2, <3>1, MinorPointers
    <3>2. CASE unset = {}
      BY <1>n, <1>s, <1>u, <2>2, <3>2
    <3>3. CASE unset # {} /\ Verifiers[first][1] \in Slots
      <4>1. unset \subseteq Nat
        BY <2>1
      <4>2. Min(unset) \in unset /\ \A j \in unset : Min(unset) <= j
        BY <3>3, <4>1, MinIsLeast
      <4>3. first \in unset
        BY <4>2
      <4> QED
        BY <2>1, <3>3, <4>3
    <3> QED
      BY <3>1, <3>2, <3>3
  <2> QED
    BY <1>m, <1>n, <2>3
<1>3. CASE DeployOffchainResolver \/ DeployLegacyPublicResolver
  BY <1>m, <1>n, <1>s, <1>u, <1>3 DEF DeployOffchainResolver, DeployLegacyPublicResolver
<1>4. CASE DeployExtendedDNSResolver
  <2>1. Deploy("ExtendedDNSResolver", << >>) \/ Return(FALSE)
    <3>1. \A i \in DOMAIN <<"ExtendedDNSResolver">> :
            <<"ExtendedDNSResolver">>[i] = "ExtendedDNSResolver"
      OBVIOUS
    <3> QED
      BY <1>4, <3>1 DEF DeployExtendedDNSResolver, DeployEach
  <2> QED
    BY <1>m, <1>n, <1>s, <1>u, <2>1
<1>5. CASE DeployDNSRegistrar
  <2>1. At("Root") # Sole("BaseRegistrarImplementation")
    BY AtIsAddress DEF Statement, RolloutInv, Sole, Nobody
  <2>2. Touches(AddController("Root", At("DNSRegistrar")),
                {"DNSRegistrar"} \cup ({"DNSRegistrar"} \ Lasting), {}, {}, {}, {})
    BY <2>1, Touching DEF Statement
  <2>3. Leaves({"DNSRegistrar"}, {"DNSRegistrar"}, {}, {}, {}, {})
    BY <1>c, <1>n, <1>s, <1>u, <1>5, <2>2, MinorSends DEF DeployDNSRegistrar
  <2>4. ~Behind("SetTlds")
    <3>1. place \in DOMAIN Pipeline /\ place = 10 /\ outcome = "running" /\ "SetTlds" \notin done
      BY <1>5, Positions DEF Statement, RolloutInv, RunOK, Runs, DeployDNSRegistrar, WiredInv, OrderlyOK
    <3> QED
      BY <3>1, Positions DEF Behind
  <2> QED
    BY <1>n, <2>3, <2>4, MinorScripts
<1>6. CASE DeployMetadataService \/ UpdateMetadataService
  <2>1. "metadataService" \notin Slots
    BY DEF Slots
  <2>2. Leaves({"StaticMetadataService"}, {"StaticMetadataService"}, {}, {}, {}, {})
    BY <1>c, <1>n, <1>s, <1>u, <1>6, <2>1, MinorPointers DEF DeployMetadataService, UpdateMetadataService
  <2> QED
    BY <1>m, <1>n, <2>2
<1>7. CASE DeployBulkRenewal
  <2>1. "IBulkRenewal" \notin Slots
    BY DEF Slots
  <2>2. Leaves({"StaticBulkRenewal"}, {"StaticBulkRenewal"}, {}, {}, {}, {})
    BY <1>c, <1>n, <1>s, <1>u, <1>7, <2>1, MinorInterfaces DEF DeployBulkRenewal
  <2> QED
    BY <1>m, <1>n, <2>2
<1>8. CASE EnableWrapping
  <2> DEFINE renewal == "UniversalRegistrarRenewalWithReferrer"
  <2>1. pc > 1 /\ renewal \notin DOMAIN saved => ~OwnedBy(renewal, Deployer)
    BY OnRecord DEF Statement
  <2>2. renewal \in DOMAIN saved =>
          Touches(SetOwner(renewal, Owner), {renewal} \cup ({renewal} \ Lasting), {}, {}, {}, {})
    BY Touching DEF Statement
  <2>3. ASSUME pc = 2 PROVE Leaves({renewal}, {renewal}, {}, {}, {}, {})
    <3>1. SendUnless(Owner = Deployer \/ ~OwnedBy(renewal, Deployer), TRUE, SetOwner(renewal, Owner))
      <4>1. pc # 1 /\ pc # 3 /\ pc # 4
        BY <2>3
      <4> QED
        BY <1>8, <4>1, Zenon DEF EnableWrapping
    <3>2. CASE renewal \in DOMAIN saved
      BY <1>c, <2>2, <3>1, <3>2, MinorSends
    <3>3. CASE renewal \notin DOMAIN saved
      BY <1>n, <1>s, <1>u, <2>1, <2>3, <3>1, <3>3 DEF SendUnless
    <3> QED
      BY <3>2, <3>3
  <2>4. Leaves({renewal}, {renewal}, {}, {}, {}, {})
    BY <1>c, <1>n, <1>s, <1>u, <1>8, <2>3, MinorControllers DEF EnableWrapping
  <2> QED
    BY <1>m, <1>n, <2>4
<1>9. CASE DeployUniversalResolver
  <2>1. Leaves({"UniversalResolver"}, {"UniversalResolver"}, {}, {}, {}, {})
    BY <1>n, <1>s, <1>u, <1>9 DEF DeployUniversalResolver
  <2> QED
    BY <1>m, <1>n, <2>1
<1>10. CASE DeployL2Registrar
  <2> DEFINE c == "L2ReverseRegistrar"
  <2>1. CASE saved' = Put(saved, c, [at |-> <<c, 0>>, args |-> << >>]) /\ UNCHANGED chain
    <3>1. /\ DOMAIN saved' = DOMAIN saved \cup {c}
          /\ \A d \in DOMAIN saved \ {c} : saved'[d] = saved[d]
      BY <2>1 DEF Put
    <3>2. \A d : Arguments(d)' = Arguments(d)
      BY Constant DEF Statement
    <3>3. RecordsOK'
      BY <1>n, <3>1, <3>2 DEF Statement, WiredInv, RecordsOK
    <3>4. Deploys({c})
      BY <1>n, <3>1, <3>3 DEF Deploys
    <3>5. Leaves({c}, {c}, {}, {}, {}, {})
      BY <1>c, <2>1, <3>4, Untouched DEF Leaves
    <3> QED
      BY <1>m, <1>n, <3>5
  <2>2. CASE UNCHANGED saved /\ (chain' = WithL2Registrar \/ chain' = chain)
    <3>1. Touches(WithL2Registrar, {c} \cup ({c} \ Lasting), {}, {}, {}, {})
      BY Touching DEF Statement, WithL2Registrar
    <3>2. Leaves({c}, {c}, {}, {}, {}, {})
      BY <1>c, <2>2, <3>1, Sent
    <3> QED
      BY <1>m, <1>n, <3>2
  <2>3. CASE Deploy(c, << >>)
    BY <1>m, <1>n, <1>s, <2>3
  <2> QED
    BY <1>10, <2>1, <2>2, <2>3, <1>u
       DEF DeployL2Registrar, SafePending, SafeCreate, SafeExecute, SafePropose, SafeConfirm, Record, Skip
<1>11. \/ DeployAlgorithms \/ DeployDigests \/ DeployOracle \/ DeployOffchainResolver
       \/ DeployLegacyPublicResolver \/ DeployExtendedDNSResolver \/ DeployDNSRegistrar
       \/ DeployMetadataService \/ UpdateMetadataService \/ DeployBulkRenewal \/ EnableWrapping
       \/ DeployUniversalResolver \/ DeployL2Registrar
  <2>1. \A s \in NamedScripts : ~Runs(s)
    BY DEF Runs
  <2>2. ~RegisterReservedNames /\ ~RegisterInfrastructureNames
    BY <1>0 DEF RegisterReservedNames, RegisterInfrastructureNames
  <2>3. ~DeployMulticall /\ ~DeploySigValidator
    BY <2>1 DEF DeployMulticall, DeploySigValidator, NamedScripts
  <2>4. RootStep => \/ DeployAlgorithms \/ DeployDigests \/ DeployOracle \/ DeployOffchainResolver
                    \/ DeployDNSRegistrar
    BY <2>1 DEF RootStep, NamedScripts, OwnName, DeployRegistry, DeployPublicSuffixList, EnableTlds,
                DeployRoot, DeployRootSecurityController, SetupRoot
  <2>5. RegistrarStep => DeployBulkRenewal \/ EnableWrapping
    BY <2>1, <2>2 DEF RegistrarStep, NamedScripts, OwnName, LegacyName, DeployBaseRegistrar,
         DeployRegistrarSecurityController, SetupBaseRegistrar, DeployPriceOracle,
         DeployLegacyController, DeployWrappedController, DeployController
  <2>6. ResolverStep => \/ DeployLegacyPublicResolver \/ DeployExtendedDNSResolver
                        \/ DeployMetadataService \/ UpdateMetadataService \/ DeployUniversalResolver
    BY <2>1 DEF ResolverStep, NamedScripts, OwnName, DeployOwnedResolver, DeployPublicResolver,
         DeployReverseRegistrar, DeployDefaultReverseRegistrar, DeployDefaultReverseResolver,
         DeployNameWrapper, DeployGatewayProvider, DeployMigrationHelper
  <2> QED
    BY <2>3, <2>4, <2>5, <2>6 DEF RunScript
<1> QED
  BY <1>1, <1>2, <1>3, <1>4, <1>5, <1>6, <1>7, <1>8, <1>9, <1>10, <1>11

-----------------------------------------------------------------------------
(* The scripts that deploy what they are named after.                      *)

\* What is left to show of a statement that writes to its own contract.
LEMMA OwnSteps ==
  ASSUME Statement, NEW s \in OwnName \cup LegacyName, Runs(s), NEW C, NEW N, NEW R, NEW P, NEW X,
         Leaves(C, {s}, N, R, P, X), C \subseteq {s} \ {"Root", "BaseRegistrarImplementation"},
         N \cap {"root.", "com.", "etn."} = {}, X \subseteq Registrants
  PROVE  /\ Control /\ OrderlyOK' /\ RecordsOK' /\ PresentOK' /\ FeedOK' /\ SharedOK'
         /\ RootOK' /\ TldsOK' /\ RegistrarOK' /\ NoOthers' /\ LentOK' /\ LaunchOK' /\ HandoverOK'
         /\ Present(s)' => NamedOK'
         /\ (s \in LegacyName /\ GoesOn => Tag("legacy")) => LegacyOK'
         /\ (s \in HandedBehind => HandedOver(s)') => HandedOK'
         /\ (s \in Held => HolderOK(s)') => OwnersOK'
         /\ s # "SimplePublicSuffixList" /\ "suffixes" \notin P => SuffixesOK'
         /\ s \notin {"NameWrapper", "WrappedETHRegistrarController", "ETHRegistrarController",
                      "LegacyETHRegistrarController"} => ControllersOK'
         /\ s # "ReverseRegistrar" /\ {"reverse.", "addr.reverse."} \cap N = {} => ReverseOK'
         /\ s # "OwnedResolver" /\ "etn." \notin R => TldResolverOK'
         /\ s # "NameWrapper" => WrapperOK'
         /\ s # "PublicResolver" /\ {"defaultResolver", "resolver"} \cap P = {} /\ "resolver" \notin R
              => PublicResolverOK'
         /\ s # "DefaultReverseResolver" /\ "reverse." \notin R => ReverseResolverOK'
<1>0. /\ s \notin {"ENSRegistry", "ExponentialPremiumPriceOracle", "Root:setup", "SetTlds",
                   "Multicall3", "UniversalSigValidator", "BaseRegistrarImplementation:setup",
                   "ReservedNames", "InfrastructureNames", "OwnedUsdOracle", "DummyOracle",
                   "DNSRegistrar"}
      /\ \A t : t # s => ~Runs(t)
  BY DEF OwnName, LegacyName, Runs
<1>1. Owner \notin Registrants
  BY AtIsNoKey, Constants DEF Statement, RolloutInv, Registrants, Sole, Deployer, OwnerKey
<1>2. /\ OrderlyOK' /\ RecordsOK' /\ PresentOK' /\ FeedOK' /\ SharedOK' /\ RootOK' /\ TldsOK'
      /\ RegistrarOK'
      /\ s # "SimplePublicSuffixList" /\ "suffixes" \notin P => SuffixesOK'
  <2>1. /\ ~Runs("ENSRegistry") /\ ~Runs("ExponentialPremiumPriceOracle") /\ ~Runs("Root:setup")
        /\ ~Runs("SetTlds") /\ ~Runs("Multicall3") /\ ~Runs("UniversalSigValidator")
        /\ ~Runs("BaseRegistrarImplementation:setup")
        /\ s # "SimplePublicSuffixList" => ~Runs("SimplePublicSuffixList")
    BY <1>0
  <2>2. /\ {"OwnedUsdOracle", "DummyOracle"} \cap {s} = {}
        /\ {"OwnedUsdOracle", "DummyOracle"} \cap (C \cup {s}) = {}
        /\ {"Multicall3", "UniversalSigValidator"} \cap {s} = {}
        /\ "Root" \notin C /\ "BaseRegistrarImplementation" \notin C
        /\ "root." \notin N /\ "com." \notin N /\ "etn." \notin N /\ "DNSRegistrar" \notin {s}
        /\ s # "SimplePublicSuffixList" => "SimplePublicSuffixList" \notin {s}
    BY <1>0
  <2> QED
    BY <2>1, <2>2, Keeping
<1>3. NoOthers' /\ LentOK' /\ LaunchOK' /\ HandoverOK'
  BY <1>0, <1>1, KeepingRoles
<1>4. Present(s)' => NamedOK'
  BY <1>0, Keeping DEF NamedOK
<1>5. (s \in HandedBehind => HandedOver(s)') => HandedOK'
  BY <1>0, Keeping DEF HandedOK
<1>6. (s \in Held => HolderOK(s)') => OwnersOK'
  BY <1>0, Keeping DEF OwnersOK
<1>7. s \notin {"NameWrapper", "WrappedETHRegistrarController", "ETHRegistrarController",
                "LegacyETHRegistrarController"} => ControllersOK'
  <2>1. {"BaseRegistrarImplementation", "ReverseRegistrar", "DefaultReverseRegistrar"} \subseteq Lasting
    BY DEF Lasting, OwnName
  <2>2. ControllersOK
    BY DEF Statement, WiredInv
  <2> QED
    BY <1>0, <2>1, <2>2, KeepingRoles, {3, 4, 5} \subseteq Nat \ {0} DEF ControllersOK
<1>8. /\ s # "ReverseRegistrar" /\ {"reverse.", "addr.reverse."} \cap N = {} => ReverseOK'
      /\ s # "OwnedResolver" /\ "etn." \notin R => TldResolverOK'
      /\ s # "NameWrapper" => WrapperOK'
      /\ s # "PublicResolver" /\ {"defaultResolver", "resolver"} \cap P = {} /\ "resolver" \notin R
           => PublicResolverOK'
      /\ s # "DefaultReverseResolver" /\ "reverse." \notin R => ReverseResolverOK'
  BY <1>0, KeepingNodes
<1>9. (s \in LegacyName /\ GoesOn => Tag("legacy")) => LegacyOK'
  BY <1>0, Keeping
<1> QED
  BY <1>2, <1>3, <1>4, <1>5, <1>6, <1>7, <1>8, <1>9, Keeps

\* The statement that deploys it.
LEMMA Deploying ==
  ASSUME Statement, Control, NEW s \in OwnName \cup LegacyName, Runs(s), pc = 1,
         NEW args, NEW built, Create(s, args, built),
         IF s = "NameWrapper" THEN s \notin DOMAIN saved ELSE args = Arguments(s),
         s \notin DOMAIN saved => Touches(built, {}, {}, {}, {}, {})
  PROVE  /\ Leaves({}, {s}, {}, {}, {}, {}) /\ Present(s)' /\ GoesOn /\ (pc' = 2)
         /\ s \in DOMAIN saved' /\ (At(s)' = Sole(s))
         /\ IF s \in DOMAIN saved THEN UNCHANGED <<saved, chain>> /\ ~mem'.fresh
                                  ELSE (chain' = built) /\ mem'.fresh
         /\ \A k \in Nat : k > 1 => /\ Beyond(s, k)' => s \in DOMAIN saved /\ Beyond(s, k)
                                    /\ ~Did(s, k)'
         /\ \A who : s \notin DOMAIN saved /\ (built.owner = Put(chain.owner, NewAt(s), who))
              => OwnedBy(s, who)'
<1>1. s \in Lasting /\ s \in Scripts
  BY ScriptNames DEF Lasting
<1>2. /\ Deploys({s}) /\ (pc' = 2) /\ s \in DOMAIN saved' /\ (saved'[s].at = Sole(s))
      /\ IF s \in DOMAIN saved THEN UNCHANGED <<saved, chain>> /\ ~mem'.fresh
                               ELSE (chain' = built) /\ mem'.fresh
  <2>1. /\ Deploys({s}) /\ (pc' = pc + 1) /\ s \in DOMAIN saved' /\ (saved'[s].at = Sole(s))
        /\ IF s \in DOMAIN saved THEN UNCHANGED <<saved, chain>> /\ ~mem'.fresh
                                 ELSE (chain' = built) /\ mem'.fresh
    BY <1>1, Lasts, Zenon
  <2> QED
    BY <2>1
<1>3. GoesOn
  BY <1>2 DEF Control, Throw, Return
<1>4. Leaves({}, {s}, {}, {}, {}, {})
  <2>1. {} \cup ({s} \ Lasting) = {}
    BY <1>1
  <2>2. Touches(chain', {}, {}, {}, {}, {})
    BY <1>2, Untouched
  <2> QED
    BY <1>2, <2>1, <2>2 DEF Leaves
<1>5. /\ \A k : Beyond(s, k)' <=> s \in DOMAIN saved' /\ ~(mem'.fresh /\ pc' \in 2 .. k)
      /\ \A k : Did(s, k)' <=> pc' > k
  BY <1>1, <1>3, Advancing
<1>6. ASSUME NEW k \in Nat, k > 1
      PROVE  /\ Beyond(s, k)' => s \in DOMAIN saved /\ Beyond(s, k)
             /\ ~Did(s, k)'
  <2>1. pc' \in 2 .. k /\ pc \notin 2 .. k /\ ~(pc' > k)
    BY <1>2, <1>6
  <2> QED
    BY <1>2, <1>5, <2>1 DEF Beyond
<1>7. ASSUME NEW who, s \notin DOMAIN saved, built.owner = Put(chain.owner, NewAt(s), who)
      PROVE  OwnedBy(s, who)'
  <2>1. NewAt(s) = Sole(s)
    BY <1>7 DEF NewAt, At, Sole, Nobody
  <2>2. At(s)' = Sole(s) /\ chain' = built
    BY <1>2, <1>7 DEF At
  <2> QED
    BY <1>7, <2>1, <2>2 DEF OwnedBy, Put
<1> QED
  BY <1>2, <1>3, <1>4, <1>5, <1>6, <1>7 DEF Present, At

\* The same where it is given to the deployer's account.
LEMMA DeployingOwned ==
  ASSUME Statement, Control, NEW s \in OwnName \cup LegacyName, s # "NameWrapper", Runs(s), pc = 1,
         Deploy(s, Arguments(s))
  PROVE  /\ Leaves({}, {s}, {}, {}, {}, {}) /\ Present(s)' /\ GoesOn /\ (pc' = 2)
         /\ s \in DOMAIN saved => UNCHANGED <<saved, chain>>
         /\ \A k \in Nat : k > 1 => /\ Beyond(s, k)' => s \in DOMAIN saved /\ Beyond(s, k)
                                    /\ ~Did(s, k)'
         /\ s \in HandedBehind => HandedOver(s)'
         /\ s \in Held \ {"BatchGatewayProvider"} => HolderOK(s)'
<1>1. s \notin DOMAIN saved => Touches(Constructed(s, Deployer), {}, {}, {}, {}, {})
  BY Built DEF Statement
<1>2. Constructed(s, Deployer).owner = Put(chain.owner, NewAt(s), Deployer)
  BY DEF Constructed, Statement, RolloutInv, ChainOK
<1>3. /\ Leaves({}, {s}, {}, {}, {}, {}) /\ Present(s)' /\ GoesOn /\ (pc' = 2)
      /\ IF s \in DOMAIN saved THEN UNCHANGED <<saved, chain>> /\ ~mem'.fresh
                               ELSE OwnedBy(s, Deployer)' /\ mem'.fresh
      /\ \A k \in Nat : k > 1 => /\ Beyond(s, k)' => s \in DOMAIN saved /\ Beyond(s, k)
                                 /\ ~Did(s, k)'
  BY <1>1, <1>2, Deploying DEF Deploy
<1>4. Owner' = Owner
  BY Constant DEF Statement
<1>5. s \in DOMAIN saved => \A who : OwnedBy(s, who)' <=> OwnedBy(s, who)
  BY <1>3 DEF OwnedBy, At
<1>6. ASSUME s \in HandedBehind PROVE HandedOver(s)'
  <2>1. HandedOver(s)
    BY <1>6 DEF Statement, WiredInv, HandedOK
  <2>2. Beyond(s, 2)' => OwnedBy(s, Owner)'
    BY <1>3, <1>4, <1>5, <2>1, 2 \in Nat DEF HandedOver
  <2>3. mem'.fresh => OwnedBy(s, Deployer)'
    BY <1>3
  <2> QED
    BY <2>2, <2>3 DEF HandedOver, Deployer
<1>7. ASSUME s \in Held \ {"BatchGatewayProvider"} PROVE HolderOK(s)'
  <2>1. HolderOK(s)
    BY <1>7 DEF Statement, WiredInv, OwnersOK
  <2>2. (OwnedBy(s, Deployer) \/ OwnedBy(s, Owner))'
    BY <1>3, <1>4, <1>5, <2>1 DEF HolderOK, Deployer
  <2> QED
    BY <1>3, <1>7, <2>2, 2 \in Nat DEF HolderOK
<1> QED
  BY <1>3, <1>6, <1>7

\* It is on record from then on.
LEMMA OnceDeployed ==
  ASSUME Statement, NEW s \in OwnName \cup LegacyName, Runs(s), pc > 1,
         s \in LegacyName => Tag("legacy")
  PROVE  /\ s \in DOMAIN saved /\ (At(s) = Sole(s)) /\ s \in Lasting /\ s \in Scripts
         /\ \A C, D, N, R, P, X : Leaves(C, D, N, R, P, X) => Present(s)' /\ (At(s)' = At(s))
<1>1. s \in Lasting /\ s \in Scripts
  BY ScriptNames DEF Lasting
<1>2. s \in DOMAIN saved
  BY DEF Statement, WiredInv, NamedOK, Present, Did
<1>3. At(s) = Sole(s)
  BY <1>1, <1>2 DEF Statement, WiredInv, RecordsOK, At
<1> QED
  BY <1>1, <1>2, <1>3, Keeps DEF Present

\* A transaction that is not sent or does not revert.
LEMMA GoingOn ==
  ASSUME Statement, NEW settled, NEW allowed, NEW after
  PROVE  /\ allowed /\ Send(allowed, after) =>
              /\ UNCHANGED <<saved, mem>> /\ (pc' = pc + 1) /\ GoesOn /\ ~Throw
              /\ chain' = after
         /\ (settled \/ allowed) /\ SendUnless(settled, allowed, after) =>
              /\ UNCHANGED <<saved, mem>> /\ (pc' = pc + 1) /\ GoesOn /\ ~Throw
              /\ \/ settled /\ UNCHANGED chain
                 \/ ~settled /\ chain' = after
<1>1. TypesOK
  BY DEF Statement, RolloutInv, TypesOK
<1>2. GoesOn => ~Throw
  BY DEF GoesOn, Throw, Statement
<1>3. allowed /\ Send(allowed, after) =>
        UNCHANGED <<saved, mem>> /\ (pc' = pc + 1) /\ GoesOn /\ (chain' = after)
  BY <1>1, Sending, Zenon
<1>4. (settled \/ allowed) /\ SendUnless(settled, allowed, after) =>
        /\ UNCHANGED <<saved, mem>> /\ (pc' = pc + 1) /\ GoesOn
        /\ (settled /\ UNCHANGED chain) \/ (~settled /\ chain' = after)
  BY <1>1, Sending, Zenon
<1> QED
  BY <1>2, <1>3, <1>4

\* The handover behind "if (!newlyDeployed) return", and without it.
LEMMA Handing ==
  ASSUME Statement, Control, NEW s \in HandedBehind, Runs(s), pc = 2,
         s \in LegacyName => Tag("legacy"),
         IF mem.fresh THEN HandOver(s) ELSE Return(FALSE) \/ Skip
  PROVE  /\ Leaves({s}, {s}, {}, {}, {}, {}) /\ Present(s)' /\ HandedOver(s)' /\ ~Throw
         /\ \A k \in Nat : k > 2 /\ Beyond(s, k)' => Beyond(s, k) /\ UNCHANGED <<chain, saved>>
         /\ GoesOn => pc' = 3
<1>1. s \in OwnName \cup LegacyName
  BY DEF HandedBehind, OwnName, LegacyName
<1>2. /\ s \in DOMAIN saved /\ s \in Lasting /\ s \in Scripts
      /\ \A C, D, N, R, P, X : Leaves(C, D, N, R, P, X) => Present(s)' /\ (At(s)' = At(s))
  BY <1>1, OnceDeployed
<1>3. HandedOver(s) /\ Owner' = Owner
  BY Constant DEF Statement, WiredInv, HandedOK
<1>4. /\ GoesOn => \A k : Beyond(s, k)' <=> s \in DOMAIN saved' /\ ~(mem'.fresh /\ pc' \in 2 .. k)
      /\ GoesOn => Runs(s)'
      /\ Return(FALSE) => (\A k : Beyond(s, k)' <=> s \in DOMAIN saved') /\ ~Runs(s)'
  BY <1>2, Advancing
<1>5. CASE ~mem.fresh
  <2>1. UNCHANGED <<chain, saved>> /\ ~Throw /\ (GoesOn => (pc' = 3) /\ ~mem'.fresh)
        /\ (GoesOn \/ Return(FALSE))
    BY <1>5 DEF Return, Skip, Goto, Throw, GoesOn, Control
  <2>2. \A k : Beyond(s, k)
    BY <1>2, <1>5 DEF Beyond
  <2>3. OwnedBy(s, Owner)'
    BY <1>3, <2>1, <2>2 DEF HandedOver, OwnedBy, At
  <2>4. HandedOver(s)'
    BY <1>4, <2>1, <2>3 DEF HandedOver
  <2> QED
    BY <1>2, <2>1, <2>2, <2>4, Still
<1>6. CASE mem.fresh
  <2>1. OwnedBy(s, Deployer)
    BY <1>3, <1>6 DEF HandedOver
  <2>2. /\ UNCHANGED <<saved, mem>> /\ GoesOn /\ (pc' = 3)
        /\ \/ UNCHANGED chain /\ Owner = Deployer
           \/ chain' = SetOwner(s, Owner)
    <3>1. SendUnless(Owner = Deployer, OwnedBy(s, Deployer), SetOwner(s, Owner))
      BY <1>6 DEF HandOver
    <3>2. /\ UNCHANGED <<saved, mem>> /\ (pc' = pc + 1) /\ GoesOn
          /\ \/ Owner = Deployer /\ UNCHANGED chain
             \/ Owner # Deployer /\ chain' = SetOwner(s, Owner)
      BY <2>1, <3>1, GoingOn, Zenon
    <3> QED
      BY <3>2
  <2>3. OwnedBy(s, Owner)'
    <3>1. CASE UNCHANGED chain /\ Owner = Deployer
      BY <1>3, <2>1, <2>2, <3>1 DEF OwnedBy, At
    <3>2. CASE chain' = SetOwner(s, Owner)
      <4>1. At(s) \in DOMAIN chain.owner /\ At(s)' = At(s)
        BY <2>1, <2>2 DEF OwnedBy, At
      <4>2. chain'.owner = [chain.owner EXCEPT ![At(s)] = Owner]
        BY <3>2 DEF SetOwner, Statement, RolloutInv, ChainOK
      <4> QED
        BY <1>3, <4>1, <4>2 DEF OwnedBy
    <3> QED
      BY <2>2, <3>1, <3>2
  <2>4. HandedOver(s)'
    BY <2>2, <2>3 DEF HandedOver
  <2>5. Leaves({s}, {s}, {}, {}, {}, {})
    <3>1. Touches(SetOwner(s, Owner), {s} \cup ({s} \ Lasting), {}, {}, {}, {})
      BY <1>2, Touching DEF Statement
    <3> QED
      BY <2>2, <3>1, Sent
  <2>6. ~Throw
    BY <2>2 DEF GoesOn, Throw, Statement
  <2>7. \A k \in Nat : k > 2 => ~Beyond(s, k)'
    BY <1>4, <1>6, <2>2 DEF Beyond
  <2> QED
    BY <1>2, <2>2, <2>4, <2>5, <2>6, <2>7
<1> QED
  BY <1>5, <1>6

LEMMA HandingIfFresh ==
  ASSUME Statement, Control, NEW s \in HandedBehind, Runs(s), pc = 2,
         s \in LegacyName => Tag("legacy"), HandOverIfFresh(s)
  PROVE  /\ Leaves({s}, {s}, {}, {}, {}, {}) /\ Present(s)' /\ HandedOver(s)' /\ ~Throw
         /\ \A k \in Nat : k > 2 /\ Beyond(s, k)' => Beyond(s, k) /\ UNCHANGED <<chain, saved>>
         /\ GoesOn => pc' = 3
BY Handing DEF HandOverIfFresh

\* And what comes after it.
LEMMA HandedOn ==
  ASSUME Statement, Control, NEW s \in HandedBehind, Runs(s), pc > 2,
         s \in LegacyName => Tag("legacy"),
         NEW N, NEW R, NEW P, NEW X, Leaves({}, {s}, N, R, P, X), pc' # 2
  PROVE  Present(s)' /\ HandedOver(s)'
<1>1. s \in OwnName \cup LegacyName
  BY DEF HandedBehind, OwnName, LegacyName
<1>2. pc \in Nat
  BY DEF Statement, RolloutInv, RunOK
<1>3. s \in DOMAIN saved /\ s \in Lasting /\ Present(s)'
  BY <1>1, <1>2, OnceDeployed
<1>4. Beyond(s, 2) /\ HandedOver(s) /\ Owner' = Owner
  BY <1>2, <1>3, Constant DEF Beyond, Statement, WiredInv, HandedOK
<1>5. OwnedBy(s, Owner)'
  BY <1>3, <1>4, Keeps DEF HandedOver
<1> QED
  BY <1>3, <1>5 DEF HandedOver

\* What the owner account may do, from what is behind.
LEMMA OwnersPowers ==
  ASSUME Statement, place > 15
  PROVE  /\ RootAllows(Owner) /\ SecurityControllerAllows /\ NodeOfTld
         /\ {"ENSRegistry", "Root", "BaseRegistrarImplementation", "RegistrarSecurityController"}
              \subseteq DOMAIN saved
         /\ OwnedBy("Root", Owner)
<1> USE DEF Statement
<1>1. place \in DOMAIN Pipeline /\ place \in Nat
  BY Places DEF RolloutInv, RunOK
<1>2. /\ Behind("ENSRegistry") /\ Behind("Root:setup")
      /\ Behind("BaseRegistrarImplementation") /\ Behind("RegistrarSecurityController")
      /\ Behind("BaseRegistrarImplementation:setup")
  BY <1>1, InOrder
<1>3. RootAllows(Owner) /\ OwnedBy("Root", Owner) /\ {"Root", "ENSRegistry"} \subseteq DOMAIN saved
  BY <1>2 DEF WiredInv, RootOK, Did, RootAllows
<1>4. /\ {"BaseRegistrarImplementation", "RegistrarSecurityController"} \subseteq DOMAIN saved
      /\ OwnedBy("BaseRegistrarImplementation", At("RegistrarSecurityController")) /\ NodeOfTld
  BY <1>2 DEF WiredInv, RegistrarOK, Did
<1>5. OwnedBy("RegistrarSecurityController", Owner)
  <2>1. ~Runs("RegistrarSecurityController")
    BY <1>1, Positions DEF Runs
  <2>2. Beyond("RegistrarSecurityController", 2)
    BY <1>4, <2>1 DEF Beyond
  <2> QED
    BY <2>2 DEF WiredInv, HandedOK, HandedOver, HandedBehind
<1> QED
  BY <1>3, <1>4, <1>5 DEF SecurityControllerAllows

-----------------------------------------------------------------------------
(* One script after the other. *)

LEMMA OwnScript ==
  ASSUME Statement, NEW s \in OwnName \cup LegacyName, Runs(s), NEW C, NEW N, NEW R, NEW P, NEW X,
         Leaves(C, {s}, N, R, P, X), C \subseteq {s} \ {"Root", "BaseRegistrarImplementation"},
         N \cap {"root.", "com.", "etn."} = {}, X \subseteq Registrants,
         Present(s)',
         s \in HandedBehind => HandedOver(s)',
         s \in Held => HolderOK(s)',
         s \in LegacyName /\ GoesOn => Tag("legacy"),
         s = "SimplePublicSuffixList" \/ "suffixes" \in P => SuffixesOK',
         s \in {"NameWrapper", "WrappedETHRegistrarController", "ETHRegistrarController",
                "LegacyETHRegistrarController"} => ControllersOK',
         s = "ReverseRegistrar" \/ {"reverse.", "addr.reverse."} \cap N # {} => ReverseOK',
         s = "OwnedResolver" \/ "etn." \in R => TldResolverOK',
         s = "NameWrapper" => WrapperOK',
         s = "PublicResolver" \/ {"defaultResolver", "resolver"} \cap P # {} \/ "resolver" \in R
           => PublicResolverOK',
         s = "DefaultReverseResolver" \/ "reverse." \in R => ReverseResolverOK'
  PROVE  WiredInv'
BY OwnSteps DEF WiredInv

\* Those the wiring has something of its own to say of.
TopicScripts == {"SimplePublicSuffixList", "ReverseRegistrar", "OwnedResolver", "NameWrapper",
                 "PublicResolver", "DefaultReverseResolver", "WrappedETHRegistrarController",
                 "ETHRegistrarController", "LegacyETHRegistrarController"}

LEMMA PlainScript ==
  ASSUME Statement, NEW s \in OwnName \cup LegacyName, Runs(s), s \notin TopicScripts, NEW C,
         Leaves(C, {s}, {}, {}, {}, {}), C \subseteq {s} \ {"Root", "BaseRegistrarImplementation"},
         Present(s)', s \in HandedBehind => HandedOver(s)', s \in Held => HolderOK(s)'
  PROVE  WiredInv'
BY OwnScript DEF TopicScripts, LegacyName

LEMMA Addresses ==
  ASSUME Statement
  PROVE  /\ \A c \in Lasting : c \in DOMAIN saved => At(c) = Sole(c)
         /\ \A s \in OwnName : Behind(s) => s \in DOMAIN saved /\ At(s) = Sole(s)
         /\ \A s \in {"ENSRegistry", "ExponentialPremiumPriceOracle"} :
              Behind(s) => s \in DOMAIN saved /\ At(s) = Sole(s)
<1>1. \A c \in Lasting : c \in DOMAIN saved => At(c) = Sole(c)
  BY DEF Statement, WiredInv, RecordsOK, At
<1>2. \A s \in OwnName : Behind(s) => s \in DOMAIN saved
  <2>1. OwnName \cap LegacyName = {}
    BY DEF OwnName, LegacyName
  <2> QED
    BY <2>1 DEF Statement, WiredInv, NamedOK, Present, Did
<1>3. \A s \in {"ENSRegistry", "ExponentialPremiumPriceOracle"} :
        Behind(s) => s \in DOMAIN saved
  BY DEF Statement, WiredInv, PresentOK, Did
<1>4. OwnName \cup {"ENSRegistry", "ExponentialPremiumPriceOracle"} \subseteq Lasting
  BY DEF Lasting
<1> QED
  BY <1>1, <1>2, <1>3, <1>4

\* What stays with its owner.
LEMMA Holding ==
  ASSUME Statement, Control, NEW s \in Held, Runs(s), pc > 1, s \in LegacyName => Tag("legacy"),
         NEW N, NEW R, NEW P, NEW X, Leaves({}, {s}, N, R, P, X),
         s \in {"DefaultReverseRegistrar", "MigrationHelper"} => pc > 2
  PROVE  Present(s)' /\ HolderOK(s)'
<1>1. s \in OwnName \cup LegacyName /\ Owner' = Owner
  BY Constant DEF Held, OwnName, LegacyName, Statement
<1>2. s \in DOMAIN saved /\ s \in Lasting /\ s \in Scripts /\ Present(s)'
  BY <1>1, OnceDeployed
<1>3. HolderOK(s)
  BY DEF Statement, WiredInv, OwnersOK
<1>4. \A who : OwnedBy(s, who) => OwnedBy(s, who)'
  BY <1>2, Keeps
<1>5. (OwnedBy(s, Deployer) \/ OwnedBy(s, Owner))'
  BY <1>1, <1>2, <1>3, <1>4 DEF HolderOK, Deployer
<1>6. s \in {"DefaultReverseRegistrar", "MigrationHelper"} => Did(s, 2)
  BY <1>2, Advancing
<1>7. s \in {"DefaultReverseRegistrar", "MigrationHelper", "BatchGatewayProvider"} =>
        OwnedBy(s, Owner)'
  BY <1>1, <1>2, <1>3, <1>4, <1>6 DEF HolderOK
<1> QED
  BY <1>2, <1>5, <1>7 DEF HolderOK

LEMMA ArgumentsOf ==
  /\ Arguments("SimplePublicSuffixList") = << >> /\ Arguments("OwnedResolver") = << >>
  /\ Arguments("DefaultReverseRegistrar") = << >>
  /\ \A c \in {"Root", "BaseRegistrarImplementation", "ReverseRegistrar"} :
       Arguments(c) = <<Sole("ENSRegistry")>>
  /\ Arguments("RootSecurityController") = <<Sole("Root")>>
  /\ Arguments("RegistrarSecurityController") = <<Sole("BaseRegistrarImplementation")>>
  /\ Arguments("LegacyETHRegistrarController") =
       <<Sole("BaseRegistrarImplementation"), Sole("ExponentialPremiumPriceOracle")>>
  /\ Arguments("WrappedETHRegistrarController") =
       <<Sole("BaseRegistrarImplementation"), Sole("ExponentialPremiumPriceOracle"),
         Sole("ReverseRegistrar"), Sole("NameWrapper"), Sole("ENSRegistry")>>
  /\ Arguments("ETHRegistrarController") =
       <<Sole("BaseRegistrarImplementation"), Sole("ExponentialPremiumPriceOracle"),
         Sole("ReverseRegistrar"), Sole("DefaultReverseRegistrar"), Sole("ENSRegistry")>>
  /\ Arguments("PublicResolver") =
       <<Sole("ENSRegistry"), Sole("NameWrapper"), Sole("ETHRegistrarController"),
         Sole("ReverseRegistrar")>>
  /\ Arguments("DefaultReverseResolver") = <<Sole("DefaultReverseRegistrar")>>
  /\ Arguments("BatchGatewayProvider") = <<Owner>>
  /\ Arguments("MigrationHelper") = <<Sole("BaseRegistrarImplementation"), Sole("NameWrapper")>>
BY DEF Arguments

LEMMA RootScript ==
  ASSUME Statement, Control, DeployRoot PROVE WiredInv'
<1> DEFINE s == "Root"
<1>1. Runs(s) /\ s \in OwnName \cup LegacyName /\ s \notin LegacyName /\ s \notin HandedBehind
      /\ s \in Held /\ Tag("use_root")
  BY WholeNetwork DEF DeployRoot, OwnName, LegacyName, HandedBehind, Held, Statement
<1>2. At("ENSRegistry") = Sole("ENSRegistry")
  BY <1>1, Addresses, InOrder DEF Statement
<1>3. CASE pc = 1
  <2>1. Deploy(s, Arguments(s))
    <3>1. pc # 2
      BY <1>3
    <3>2. Deploy(s, <<At("ENSRegistry")>>)
      BY <1>1, <3>1, Zenon DEF DeployRoot
    <3> QED
      BY <1>2, <3>2, ArgumentsOf
  <2>2. Leaves({}, {s}, {}, {}, {}, {}) /\ Present(s)' /\ HolderOK(s)'
    BY <1>1, <1>3, <2>1, DeployingOwned
  <2> QED
    BY <1>1, <2>2, OwnScript
<1>4. CASE pc = 2
  <2>1. UNCHANGED <<chain, saved>>
    BY <1>4 DEF DeployRoot, Return
  <2>2. Leaves({}, {s}, {}, {}, {}, {})
    BY <2>1, Still
  <2>3. Present(s)' /\ HolderOK(s)'
    BY <1>1, <1>4, <2>2, Holding
  <2> QED
    BY <1>1, <2>2, <2>3, OwnScript
<1> QED
  BY <1>3, <1>4 DEF DeployRoot

LEMMA BaseRegistrarScript ==
  ASSUME Statement, Control, DeployBaseRegistrar PROVE WiredInv'
<1> DEFINE s == "BaseRegistrarImplementation"
<1>1. Runs(s) /\ s \in OwnName \cup LegacyName /\ s \notin LegacyName /\ s \notin HandedBehind
      /\ s \notin Held /\ Tag("use_root")
  BY WholeNetwork DEF DeployBaseRegistrar, OwnName, LegacyName, HandedBehind, Held, Statement
<1>2. At("ENSRegistry") = Sole("ENSRegistry")
  BY <1>1, Addresses, InOrder DEF Statement
<1>3. CASE pc = 1
  <2>1. Deploy(s, Arguments(s))
    <3>1. pc # 2
      BY <1>3
    <3>2. Deploy(s, <<At("ENSRegistry")>>)
      BY <1>1, <3>1, Zenon DEF DeployBaseRegistrar
    <3> QED
      BY <1>2, <3>2, ArgumentsOf
  <2>2. Leaves({}, {s}, {}, {}, {}, {}) /\ Present(s)'
    BY <1>1, <1>3, <2>1, DeployingOwned
  <2> QED
    BY <1>1, <2>2, OwnScript
<1>4. CASE pc = 2
  <2>1. UNCHANGED <<chain, saved>>
    BY <1>4 DEF DeployBaseRegistrar, Return
  <2>2. Leaves({}, {s}, {}, {}, {}, {})
    BY <2>1, Still
  <2>3. Present(s)'
    BY <1>1, <1>4, <2>2, OnceDeployed
  <2> QED
    BY <1>1, <2>2, <2>3, OwnScript
<1> QED
  BY <1>3, <1>4 DEF DeployBaseRegistrar

LEMMA SecurityControllers ==
  ASSUME Statement, Control, NEW s \in {"RootSecurityController", "RegistrarSecurityController"},
         Runs(s),
         \/ pc = 1 /\ Deploy(s, Arguments(s))
         \/ pc = 2 /\ HandOverIfFresh(s)
         \/ pc = 3 /\ Return(FALSE)
  PROVE  WiredInv'
<1>1. s \in OwnName \cup LegacyName /\ s \notin LegacyName /\ s \in HandedBehind /\ s \notin Held
  BY DEF OwnName, LegacyName, HandedBehind, Held
<1>2. ASSUME NEW C \in SUBSET {s}, Leaves(C, {s}, {}, {}, {}, {}), Present(s)', HandedOver(s)'
      PROVE  WiredInv'
  <2>1. C \subseteq {s} \ {"Root", "BaseRegistrarImplementation"}
    BY <1>2
  <2>2. s \notin TopicScripts
    BY DEF TopicScripts
  <2> QED
    BY <1>1, <1>2, <2>1, <2>2, PlainScript
<1>3. CASE pc = 1 /\ Deploy(s, Arguments(s))
  <2>1. Leaves({}, {s}, {}, {}, {}, {}) /\ Present(s)' /\ HandedOver(s)'
    BY <1>1, <1>3, DeployingOwned
  <2> QED
    BY <1>2, <2>1
<1>4. CASE pc = 2 /\ HandOverIfFresh(s)
  <2>1. Leaves({s}, {s}, {}, {}, {}, {}) /\ Present(s)' /\ HandedOver(s)'
    BY <1>1, <1>4, HandingIfFresh
  <2> QED
    BY <1>2, <2>1
<1>5. CASE pc = 3 /\ Return(FALSE)
  <2>1. UNCHANGED <<chain, saved>> /\ pc' # 2
    BY <1>5 DEF Return
  <2>2. Leaves({}, {s}, {}, {}, {}, {})
    BY <2>1, Still
  <2>3. Present(s)' /\ HandedOver(s)'
    BY <1>1, <1>5, <2>1, <2>2, HandedOn
  <2> QED
    BY <1>2, <2>2, <2>3
<1> QED
  BY <1>3, <1>4, <1>5

LEMMA RootSecurityScript ==
  ASSUME Statement, Control, DeployRootSecurityController PROVE WiredInv'
<1> DEFINE s == "RootSecurityController"
<1>1. Runs(s) /\ Tag("use_root") /\ At("Root") = Sole("Root")
  BY Addresses, InOrder, WholeNetwork DEF DeployRootSecurityController, OwnName, Statement
<1>2. pc = 1 => Deploy(s, Arguments(s))
  <2>1. pc = 1 => Deploy(s, <<At("Root")>>)
    <3>1. pc = 1 => pc # 2 /\ pc # 3
      OBVIOUS
    <3> QED
      BY <1>1, <3>1, Zenon DEF DeployRootSecurityController
  <2> QED
    BY <1>1, <2>1, ArgumentsOf
<1>3. \/ pc = 1 /\ Deploy(s, Arguments(s))
      \/ pc = 2 /\ HandOverIfFresh(s)
      \/ pc = 3 /\ Return(FALSE)
  BY <1>2, Zenon DEF DeployRootSecurityController
<1> QED
  BY <1>1, <1>3, SecurityControllers

LEMMA RegistrarSecurityScript ==
  ASSUME Statement, Control, DeployRegistrarSecurityController PROVE WiredInv'
<1> DEFINE s == "RegistrarSecurityController"
<1>1. Runs(s) /\ Tag("use_root")
      /\ At("BaseRegistrarImplementation") = Sole("BaseRegistrarImplementation")
  BY Addresses, InOrder, WholeNetwork DEF DeployRegistrarSecurityController, OwnName, Statement
<1>2. pc = 1 => Deploy(s, Arguments(s))
  <2>1. pc = 1 => Deploy(s, <<At("BaseRegistrarImplementation")>>)
    <3>1. pc = 1 => pc # 2 /\ pc # 3
      OBVIOUS
    <3> QED
      BY <1>1, <3>1, Zenon DEF DeployRegistrarSecurityController
  <2> QED
    BY <1>1, <2>1, ArgumentsOf
<1>3. \/ pc = 1 /\ Deploy(s, Arguments(s))
      \/ pc = 2 /\ HandOverIfFresh(s)
      \/ pc = 3 /\ Return(FALSE)
  BY <1>2, Zenon DEF DeployRegistrarSecurityController
<1> QED
  BY <1>1, <1>3, SecurityControllers

LEMMA PublicSuffixScript ==
  ASSUME Statement, Control, DeployPublicSuffixList PROVE WiredInv'
<1> DEFINE s == "SimplePublicSuffixList"
<1>1. Runs(s) /\ s \in OwnName \cup LegacyName /\ s \notin LegacyName /\ s \in HandedBehind
      /\ s \notin Held /\ s \in Scripts
  BY ScriptNames DEF DeployPublicSuffixList, OwnName, LegacyName, HandedBehind, Held
<1>2. ASSUME NEW C \in SUBSET {s}, NEW P, Leaves(C, {s}, {}, {}, P, {}), P \subseteq {"suffixes"},
             Present(s)', HandedOver(s)', SuffixesOK'
      PROVE  WiredInv'
  <2>1. C \subseteq {s} \ {"Root", "BaseRegistrarImplementation"}
    BY <1>2
  <2>2. "resolver" \notin P /\ {"defaultResolver", "resolver"} \cap P = {}
    BY <1>2
  <2> QED
    BY <1>1, <1>2, <2>1, <2>2, OwnScript
<1>3. SuffixesOK /\ Owner # Nobody
  BY Constants DEF Statement, WiredInv, RolloutInv, Nobody, Deployer, OwnerKey
<1>4. CASE pc = 1
  <2>1. Deploy(s, Arguments(s))
    BY <1>4, ArgumentsOf DEF DeployPublicSuffixList
  <2>2. /\ Leaves({}, {s}, {}, {}, {}, {}) /\ Present(s)' /\ HandedOver(s)'
        /\ Beyond(s, 3)' => Beyond(s, 3) /\ UNCHANGED <<saved, chain>>
    BY <1>1, <1>4, <2>1, DeployingOwned, 3 \in Nat
  <2>3. SuffixesOK'
    BY <1>3, <2>2 DEF SuffixesOK, At, Pointer
  <2> QED
    BY <1>2, <2>2, <2>3
<1>5. CASE pc = 2
  <2>1. HandOverIfFresh(s)
    BY <1>5 DEF DeployPublicSuffixList
  <2>2. /\ Leaves({s}, {s}, {}, {}, {}, {}) /\ Present(s)' /\ HandedOver(s)'
        /\ Beyond(s, 3)' => Beyond(s, 3) /\ UNCHANGED <<saved, chain>>
    BY <1>1, <1>5, <2>1, HandingIfFresh, 3 \in Nat
  <2>3. SuffixesOK'
    BY <1>3, <2>2 DEF SuffixesOK, At, Pointer
  <2> QED
    BY <1>2, <2>2, <2>3
<1>6. CASE pc = 3
  <2>1. s \in DOMAIN saved /\ Beyond(s, 2) /\ HandedOver(s)
    BY <1>1, <1>6, OnceDeployed DEF Beyond, Statement, WiredInv, HandedOK
  <2>2. OwnedBy(s, Owner)
    BY <2>1 DEF HandedOver
  <2>3. Send(OwnedBy(s, Owner), SetPointer(At(s), "suffixes", Owner))
    BY <1>6 DEF DeployPublicSuffixList
  <2>4. /\ UNCHANGED <<saved, mem>> /\ pc' = pc + 1
        /\ chain' = SetPointer(At(s), "suffixes", Owner)
    BY <2>2, <2>3, GoingOn, Zenon
  <2>5. Leaves({}, {s}, {}, {}, {"suffixes"}, {})
    <3>1. Touches(SetPointer(At(s), "suffixes", Owner), {} \cup ({s} \ Lasting), {}, {}, {"suffixes"}, {})
      BY Touching DEF Statement
    <3> QED
      BY <2>4, <3>1, Sent
  <2>6. SuffixesOK'
    <3>1. At(s)' = At(s) /\ chain'.points = Put(chain.points, <<At(s), "suffixes">>, Owner)
      BY <2>4 DEF SetPointer, Statement, RolloutInv, ChainOK, At
    <3> QED
      BY <1>3, <3>1 DEF SuffixesOK, Pointer, Put
  <2>7. Present(s)' /\ HandedOver(s)'
    BY <1>1, <1>6, <2>4, <2>5, HandedOn
  <2> QED
    BY <1>2, <2>5, <2>6, <2>7
<1>7. CASE pc = 4
  <2>1. UNCHANGED <<chain, saved>> /\ pc' # 2 /\ Return(FALSE)
    BY <1>7 DEF DeployPublicSuffixList, Return
  <2>2. Leaves({}, {s}, {}, {}, {}, {})
    BY <2>1, Still
  <2>3. Present(s)' /\ HandedOver(s)'
    BY <1>1, <1>7, <2>1, <2>2, HandedOn
  <2>4. SuffixesOK'
    <3>1. s \in DOMAIN saved
      BY <1>1, <1>7, OnceDeployed
    <3>2. Beyond(s, 3)
      BY <1>7, <3>1 DEF Beyond
    <3> QED
      BY <1>3, <2>1, <3>2 DEF SuffixesOK, At, Pointer
  <2> QED
    BY <1>2, <2>2, <2>3, <2>4
<1> QED
  BY <1>4, <1>5, <1>6, <1>7 DEF DeployPublicSuffixList

LEMMA Holders ==
  ASSUME Statement, Control, NEW s \in {"DefaultReverseRegistrar", "MigrationHelper"}, Runs(s),
         \/ pc = 1 /\ Deploy(s, Arguments(s))
         \/ pc = 2 /\ SendUnless(Owner = Deployer \/ OwnedBy(s, Owner), OwnedBy(s, Deployer),
                                 SetOwner(s, Owner))
         \/ pc = 3 /\ UNCHANGED <<chain, saved>>
  PROVE  WiredInv'
<1>1. s \in OwnName \cup LegacyName /\ s \notin LegacyName /\ s \notin HandedBehind /\ s \in Held
  BY DEF OwnName, LegacyName, HandedBehind, Held
<1>2. ASSUME NEW C \in SUBSET {s}, Leaves(C, {s}, {}, {}, {}, {}), Present(s)', HolderOK(s)'
      PROVE  WiredInv'
  <2>1. C \subseteq {s} \ {"Root", "BaseRegistrarImplementation"}
    BY <1>2
  <2>2. s \notin TopicScripts
    BY DEF TopicScripts
  <2> QED
    BY <1>1, <1>2, <2>1, <2>2, PlainScript
<1>3. CASE pc = 1 /\ Deploy(s, Arguments(s))
  <2>1. Leaves({}, {s}, {}, {}, {}, {}) /\ Present(s)' /\ HolderOK(s)'
    BY <1>1, <1>3, DeployingOwned
  <2> QED
    BY <1>2, <2>1
<1>4. CASE pc = 2 /\ SendUnless(Owner = Deployer \/ OwnedBy(s, Owner), OwnedBy(s, Deployer),
                                SetOwner(s, Owner))
  <2>1. s \in DOMAIN saved
    BY <1>1, <1>4, OnceDeployed
  <2>2. OwnedBy(s, Owner) \/ OwnedBy(s, Deployer)
    BY <1>1, <2>1 DEF Statement, WiredInv, OwnersOK, HolderOK
  <2>3. /\ UNCHANGED <<saved, mem>>
        /\ \/ (Owner = Deployer \/ OwnedBy(s, Owner)) /\ UNCHANGED chain
           \/ chain' = SetOwner(s, Owner)
    <3> DEFINE settled == Owner = Deployer \/ OwnedBy(s, Owner)
               allowed == OwnedBy(s, Deployer)
               after   == SetOwner(s, Owner)
    <3>1. settled \/ allowed
      BY <2>2
    <3>2. SendUnless(settled, allowed, after)
      BY <1>4
    <3> HIDE DEF settled, allowed, after
    <3>3. /\ UNCHANGED <<saved, mem>>
          /\ (settled /\ UNCHANGED chain) \/ (~settled /\ chain' = after)
      BY <3>1, <3>2, GoingOn, Zenon
    <3> QED
      BY <3>3 DEF settled, after
  <2>4. Leaves({s}, {s}, {}, {}, {}, {})
    <3>1. Touches(SetOwner(s, Owner), {s} \cup ({s} \ Lasting), {}, {}, {}, {})
      BY <2>1, Touching DEF Statement
    <3> QED
      BY <2>3, <3>1, Sent
  <2>5. Owner' = Owner /\ At(s)' = At(s)
    BY <2>3, Constant DEF Statement, At
  <2>6. OwnedBy(s, Owner)'
    <3>1. CASE UNCHANGED chain /\ OwnedBy(s, Owner)
      BY <2>5, <3>1 DEF OwnedBy
    <3>2. CASE UNCHANGED chain /\ Owner = Deployer
      BY <2>2, <2>5, <3>2 DEF OwnedBy
    <3>3. CASE chain' = SetOwner(s, Owner)
      <4>1. At(s) \in DOMAIN chain.owner
        BY <2>2 DEF OwnedBy
      <4>2. chain'.owner = [chain.owner EXCEPT ![At(s)] = Owner]
        BY <3>3 DEF SetOwner, Statement, RolloutInv, ChainOK
      <4> QED
        BY <2>5, <4>1, <4>2 DEF OwnedBy
    <3> QED
      BY <2>3, <3>1, <3>2, <3>3
  <2>7. Present(s)' /\ HolderOK(s)'
    BY <1>1, <1>4, <2>4, <2>6, OnceDeployed DEF HolderOK
  <2> QED
    BY <1>2, <2>4, <2>7
<1>5. CASE pc = 3 /\ UNCHANGED <<chain, saved>>
  <2>1. Leaves({}, {s}, {}, {}, {}, {})
    BY <1>5, Still
  <2>2. Present(s)' /\ HolderOK(s)'
    BY <1>1, <1>5, <2>1, Holding
  <2> QED
    BY <1>2, <2>1, <2>2
<1> QED
  BY <1>3, <1>4, <1>5

LEMMA DefaultReverseScript ==
  ASSUME Statement, Control, DeployDefaultReverseRegistrar PROVE WiredInv'
<1> DEFINE s == "DefaultReverseRegistrar"
<1>1. Runs(s) /\ Arguments(s) = << >>
  BY ArgumentsOf DEF DeployDefaultReverseRegistrar
<1>2. Return(FALSE) => UNCHANGED <<chain, saved>>
  BY DEF Return
<1>3. \/ pc = 1 /\ Deploy(s, Arguments(s))
      \/ pc = 2 /\ SendUnless(Owner = Deployer \/ OwnedBy(s, Owner), OwnedBy(s, Deployer),
                              SetOwner(s, Owner))
      \/ pc = 3 /\ UNCHANGED <<chain, saved>>
  BY <1>1, <1>2 DEF DeployDefaultReverseRegistrar
<1> QED
  BY <1>1, <1>3, Holders

LEMMA MigrationScript ==
  ASSUME Statement, Control, DeployMigrationHelper PROVE WiredInv'
<1> DEFINE s == "MigrationHelper"
<1>1. Runs(s) /\ place \in DOMAIN Pipeline /\ place > 21
  BY Places, Positions DEF DeployMigrationHelper, Statement, RolloutInv, RunOK, Runs
<1>2. At("BaseRegistrarImplementation") = Sole("BaseRegistrarImplementation")
      /\ At("NameWrapper") = Sole("NameWrapper")
  BY <1>1, Places, Addresses, InOrder DEF OwnName, Statement, RolloutInv, RunOK
<1>3. Return(TRUE) => UNCHANGED <<chain, saved>>
  BY DEF Return
<1>4. \/ pc = 1 /\ Deploy(s, Arguments(s))
      \/ pc = 2 /\ SendUnless(Owner = Deployer \/ OwnedBy(s, Owner), OwnedBy(s, Deployer),
                              SetOwner(s, Owner))
      \/ pc = 3 /\ UNCHANGED <<chain, saved>>
  BY <1>2, <1>3, ArgumentsOf DEF DeployMigrationHelper
<1> QED
  BY <1>1, <1>4, Holders

LEMMA GatewayScript ==
  ASSUME Statement, Control, DeployGatewayProvider PROVE WiredInv'
<1> DEFINE s == "BatchGatewayProvider"
<1>1. Runs(s) /\ s \in OwnName \cup LegacyName /\ s \notin LegacyName /\ s \notin HandedBehind
      /\ s \in Held /\ s \notin TopicScripts /\ env.gateways
  BY DEF DeployGatewayProvider, OwnName, LegacyName, HandedBehind, Held, TopicScripts, Statement,
         WiredInv, OrderlyOK, GoodEnv
<1>2. CASE pc = 1
  <2>1. Create(s, Arguments(s), Constructed(s, Owner))
    <3>1. pc # 2
      BY <1>2
    <3>2. Create(s, <<Owner>>, Constructed(s, Owner))
      BY <1>1, <3>1, Zenon DEF DeployGatewayProvider
    <3> QED
      BY <3>2, ArgumentsOf
  <2>2. s \notin DOMAIN saved => Touches(Constructed(s, Owner), {}, {}, {}, {}, {})
    BY Built DEF Statement
  <2>3. Constructed(s, Owner).owner = Put(chain.owner, NewAt(s), Owner)
    BY DEF Constructed, Statement, RolloutInv, ChainOK
  <2>4. /\ Leaves({}, {s}, {}, {}, {}, {}) /\ Present(s)'
        /\ s \in DOMAIN saved => UNCHANGED <<saved, chain>>
        /\ s \notin DOMAIN saved => OwnedBy(s, Owner)'
    <3>1. /\ Leaves({}, {s}, {}, {}, {}, {}) /\ Present(s)'
          /\ s \in DOMAIN saved => UNCHANGED <<saved, chain>>
          /\ \A who : s \notin DOMAIN saved
                      /\ Constructed(s, Owner).owner = Put(chain.owner, NewAt(s), who)
                      => OwnedBy(s, who)'
      BY <1>1, <1>2, <2>1, <2>2, Deploying
    <3>2. Owner' = Owner
      BY Constant DEF Statement
    <3>3. s \notin DOMAIN saved => \A who : who = Owner => OwnedBy(s, who)'
      BY <2>3, <3>1
    <3> QED
      BY <3>1, <3>2, <3>3
  <2>5. OwnedBy(s, Owner)'
    <3>1. s \in DOMAIN saved => OwnedBy(s, Owner)
      BY <1>1 DEF Statement, WiredInv, OwnersOK, HolderOK
    <3> QED
      BY <2>4, <3>1, Constant DEF OwnedBy, At, Statement
  <2>6. HolderOK(s)'
    BY <2>5 DEF HolderOK
  <2> QED
    BY <1>1, <2>4, <2>6, PlainScript
<1>3. CASE pc = 2
  <2>1. UNCHANGED <<chain, saved>>
    BY <1>3 DEF DeployGatewayProvider, Return
  <2>2. Leaves({}, {s}, {}, {}, {}, {})
    BY <2>1, Still
  <2>3. Present(s)' /\ HolderOK(s)'
    BY <1>1, <1>3, <2>2, Holding
  <2> QED
    BY <1>1, <2>2, <2>3, PlainScript
<1> QED
  BY <1>2, <1>3 DEF DeployGatewayProvider

LEMMA ReverseResolverScript ==
  ASSUME Statement, Control, DeployDefaultReverseResolver PROVE WiredInv'
<1> DEFINE s == "DefaultReverseResolver"
<1>1. Runs(s) /\ s \in OwnName \cup LegacyName /\ s \notin LegacyName /\ s \notin HandedBehind
      /\ s \notin Held /\ s \in Scripts /\ s \in Lasting
  BY ScriptNames
     DEF DeployDefaultReverseResolver, OwnName, LegacyName, HandedBehind, Held, Lasting
<1>2. /\ place > 15 /\ Behind("ReverseRegistrar") /\ Behind("DefaultReverseRegistrar")
      /\ ~Runs("ReverseRegistrar") /\ Owner' = Owner
  <2>1. place = 34
    BY <1>1, Places, Positions DEF Statement, RolloutInv, RunOK, Runs
  <2> QED
    BY <1>1, <2>1, Constant, InOrder DEF Runs, Statement
<1>3. /\ At("DefaultReverseRegistrar") = Sole("DefaultReverseRegistrar")
      /\ "ReverseRegistrar" \in DOMAIN saved /\ At("ReverseRegistrar")= Sole("ReverseRegistrar")
  BY <1>2, Addresses DEF OwnName
<1>4. /\ chain.node["reverse."] = Owner /\ chain.node["addr.reverse."] = At("ReverseRegistrar")
      /\ RootAllows(Owner) /\ ~(LeavesWiring \/ ~OwnedBy("Root", Owner))
  <2>1. \A k : Beyond("ReverseRegistrar", k)
    BY <1>2, <1>3 DEF Beyond
  <2> QED
    BY <1>2, <2>1, OwnersPowers, WholeNetwork DEF Statement, WiredInv, ReverseOK
<1>5. /\ \A k : Did(s, k) <=> pc > k
      /\ GoesOn => \A k : Did(s, k)' <=> pc' > k
  BY <1>1, Advancing
<1>6. ASSUME NEW N, NEW R, Leaves({}, {s}, N, R, {}, {}), N \subseteq {"reverse."},
             R \subseteq {"reverse."}, Present(s)', ReverseOK', ReverseResolverOK'
      PROVE  WiredInv'
  <2>1. N \cap {"root.", "com.", "etn."} = {} /\ "etn." \notin R /\ "resolver" \notin R
    BY <1>6
  <2> QED
    BY <1>1, <1>6, <2>1, OwnScript
<1>7. CASE pc = 1
  <2>1. Deploy(s, Arguments(s))
    BY <1>3, <1>7, ArgumentsOf DEF DeployDefaultReverseResolver
  <2>2. Leaves({}, {s}, {}, {}, {}, {}) /\ Present(s)' /\ ~Did(s, 3)'
    BY <1>1, <1>7, <2>1, DeployingOwned, 3 \in Nat
  <2>3. ReverseOK' /\ ReverseResolverOK'
    BY <1>1, <2>2, OwnSteps DEF ReverseResolverOK
  <2> QED
    BY <1>6, <2>2, <2>3
<1>8. CASE pc = 2
  <2>1. SendUnless(chain.node["reverse."] = Owner, RootAllows(Owner), SetNode("reverse.", Owner))
    <3>1. pc # 1 /\ pc # 3 /\ pc # 4
      BY <1>8
    <3> QED
      BY <1>4, <3>1, Zenon DEF DeployDefaultReverseResolver
  <2>2. UNCHANGED <<chain, saved, mem>> /\ (pc' = pc + 1) /\ GoesOn
    BY <1>4, <2>1, GoingOn, Zenon
  <2>3. Leaves({}, {s}, {}, {}, {}, {})
    BY <2>2, Still
  <2>4. ~Did(s, 3)'
    BY <1>5, <1>8, <2>2
  <2>5. ReverseOK' /\ ReverseResolverOK' /\ Present(s)'
    BY <1>1, <1>8, <2>3, <2>4, OnceDeployed, OwnSteps DEF ReverseResolverOK
  <2> QED
    BY <1>6, <2>3, <2>5
<1>9. CASE pc = 3
  <2> DEFINE settled == chain.resolver["reverse."] = At(s)
             allowed == chain.node["reverse."] = Owner
             after   == SetResolver("reverse.", At(s))
  <2>1. SendUnless(settled, allowed, after) /\ allowed
    BY <1>4, <1>9 DEF DeployDefaultReverseResolver
  <2>2. /\ UNCHANGED <<saved, mem>>
        /\ (settled /\ UNCHANGED chain) \/ (~settled /\ chain' = after)
    <3> HIDE DEF settled, allowed, after
    <3> QED
      BY <2>1, GoingOn, Zenon
  <2>3. Leaves({}, {s}, {}, {"reverse."}, {}, {})
    <3>1. Touches(after, {} \cup ({s} \ Lasting), {}, {"reverse."}, {}, {})
      BY Touching DEF Statement
    <3> QED
      BY <2>2, <3>1, Sent
  <2>4. chain'.resolver["reverse."] = At(s)
    BY <2>2 DEF SetResolver, Statement, RolloutInv, ChainOK, Nodes, OtherNodes
  <2>5. s \in DOMAIN saved' /\ At(s)' = At(s) /\ Present(s)'
    BY <1>1, <1>9, <2>2, <2>3, OnceDeployed DEF At
  <2>6. ReverseOK' /\ ReverseResolverOK'
    BY <1>1, <2>3, <2>4, <2>5, OwnSteps DEF ReverseResolverOK
  <2> QED
    BY <1>6, <2>3, <2>5, <2>6
<1>10. CASE pc = 4
  <2>1. UNCHANGED <<chain, saved>>
    BY <1>10 DEF DeployDefaultReverseResolver, Return
  <2>2. Leaves({}, {s}, {}, {}, {}, {})
    BY <2>1, Still
  <2>3. ReverseResolverOK'
    BY <1>5, <1>10, <2>1 DEF Statement, WiredInv, ReverseResolverOK, At
  <2>4. ReverseOK' /\ Present(s)'
    BY <1>1, <1>10, <2>2, OwnSteps, OnceDeployed
  <2> QED
    BY <1>6, <2>2, <2>3, <2>4
<1> QED
  BY <1>7, <1>8, <1>9, <1>10 DEF DeployDefaultReverseResolver

LEMMA OwnedResolverScript ==
  ASSUME Statement, Control, DeployOwnedResolver PROVE WiredInv'
<1> DEFINE s == "OwnedResolver"
<1>1. Runs(s) /\ s \in OwnName \cup LegacyName /\ s \notin LegacyName /\ s \in HandedBehind
      /\ s \notin Held /\ s \in Scripts /\ s \in Lasting
  BY ScriptNames DEF DeployOwnedResolver, OwnName, LegacyName, HandedBehind, Held, Lasting
<1>2. place > 15
  BY <1>1, Places, Positions DEF Statement, RolloutInv, RunOK, Runs
<1>3. /\ \A k : Did(s, k) <=> pc > k
      /\ GoesOn => \A k : Did(s, k)' <=> pc' > k
  BY <1>1, Advancing
<1>4. ASSUME NEW C \in SUBSET {s}, NEW R, Leaves(C, {s}, {}, R, {}, {}), R \subseteq {"etn."},
             Present(s)', HandedOver(s)', TldResolverOK'
      PROVE  WiredInv'
  <2>1. C \subseteq {s} \ {"Root", "BaseRegistrarImplementation"}
        /\ "reverse." \notin R /\ "resolver" \notin R
    BY <1>4
  <2>2. {} \cap {"root.", "com.", "etn."} = {} /\ {} \subseteq Registrants
        /\ {"reverse.", "addr.reverse."} \cap {} = {} /\ {"defaultResolver", "resolver"} \cap {} = {}
    OBVIOUS
  <2> QED
    BY <1>1, <1>4, <2>1, <2>2, OwnScript
<1>5. CASE pc = 1
  <2>1. Deploy(s, Arguments(s))
    BY <1>5, ArgumentsOf DEF DeployOwnedResolver
  <2>2. Leaves({}, {s}, {}, {}, {}, {}) /\ Present(s)' /\ HandedOver(s)' /\ ~Did(s, 3)'
    BY <1>1, <1>5, <2>1, DeployingOwned, 3 \in Nat
  <2> QED
    BY <1>4, <2>2 DEF TldResolverOK
<1>6. CASE pc = 2
  <2>1. IF mem.fresh THEN HandOver(s) ELSE Skip
    BY <1>6 DEF DeployOwnedResolver
  <2>2. /\ Leaves({s}, {s}, {}, {}, {}, {}) /\ Present(s)' /\ HandedOver(s)' /\ ~Throw
        /\ GoesOn => pc' = 3
    BY <1>1, <1>6, <2>1, Handing
  <2>3. ~Did(s, 3)'
    <3>1. pc' = 3 => GoesOn
      BY <2>2 DEF Control, Return
    <3>2. pc' = pc + 1
      BY <1>6, <2>1, <2>2 DEF HandOver, SendUnless, Send, Tx, Skip, Goto, Throw
    <3> QED
      BY <1>3, <1>6, <3>1, <3>2
  <2> QED
    BY <1>4, <2>2, <2>3 DEF TldResolverOK
<1>7. CASE pc = 3
  <2> DEFINE settled == chain.resolver["etn."] = At(s)
             allowed == SecurityControllerAllows
                          /\ chain.node["etn."] = At("BaseRegistrarImplementation")
             after   == SetResolver("etn.", At(s))
  <2>1. SendUnless(settled, allowed, after)
    <3>1. pc # 1 /\ pc # 2 /\ pc # 4
      BY <1>7
    <3> QED
      BY <3>1, Zenon DEF DeployOwnedResolver
  <2>2. allowed
    BY <1>2, OwnersPowers DEF NodeOfTld
  <2>3. settled \/ allowed
    BY <2>2
  <2>4. /\ UNCHANGED <<saved, mem>> /\ (pc' = pc + 1)
        /\ (settled /\ UNCHANGED chain) \/ (~settled /\ chain' = after)
    <3> HIDE DEF settled, allowed, after
    <3> QED
      BY <2>1, <2>3, GoingOn, Zenon
  <2>5. Leaves({}, {s}, {}, {"etn."}, {}, {})
    <3>1. Touches(after, {} \cup ({s} \ Lasting), {}, {"etn."}, {}, {})
      BY Touching DEF Statement
    <3> QED
      BY <2>4, <3>1, Sent
  <2>6. chain'.resolver["etn."] = At(s)
    BY <2>4 DEF SetResolver, Statement, RolloutInv, ChainOK, Nodes, OtherNodes
  <2>7. s \in DOMAIN saved' /\ At(s)' = At(s) /\ Present(s)' /\ HandedOver(s)'
    BY <1>1, <1>7, <2>4, <2>5, OnceDeployed, HandedOn DEF At
  <2> QED
    BY <1>4, <2>5, <2>6, <2>7 DEF TldResolverOK
<1>8. CASE pc = 4
  <2>1. UNCHANGED <<chain, saved>> /\ pc' # 2
    BY <1>8 DEF DeployOwnedResolver, Return
  <2>2. Leaves({}, {s}, {}, {}, {}, {})
    BY <2>1, Still
  <2>3. TldResolverOK'
    BY <1>3, <1>8, <2>1 DEF Statement, WiredInv, TldResolverOK, At
  <2>4. Present(s)' /\ HandedOver(s)'
    BY <1>1, <1>8, <2>1, <2>2, HandedOn
  <2> QED
    BY <1>4, <2>2, <2>3, <2>4
<1> QED
  BY <1>5, <1>6, <1>7, <1>8 DEF DeployOwnedResolver

(***************************************************************************)
(* The controllers.                                                        *)
(***************************************************************************)
Takers == {"NameWrapper", "WrappedETHRegistrarController", "ETHRegistrarController"}

LEMMA OtherRoles ==
  ASSUME Statement, NEW s, Runs(s), NEW C, NEW N, NEW R, NEW P, NEW X, Leaves(C, {s}, N, R, P, X)
  PROVE  /\ s # "LegacyETHRegistrarController" =>
              (Tag("legacy") /\ Did("LegacyETHRegistrarController", 2)
                => Registers("LegacyETHRegistrarController"))'
         /\ s # "NameWrapper" => Takes("NameWrapper", 3, "BaseRegistrarImplementation")'
         /\ s # "WrappedETHRegistrarController" =>
              Takes("WrappedETHRegistrarController", 4, "BaseRegistrarImplementation")'
         /\ s # "ETHRegistrarController" =>
              /\ Takes("ETHRegistrarController", 3, "BaseRegistrarImplementation")'
              /\ Takes("ETHRegistrarController", 4, "ReverseRegistrar")'
              /\ Takes("ETHRegistrarController", 5, "DefaultReverseRegistrar")'
<1>1. \A t : t # s => ~Runs(t)
  BY DEF Runs
<1>2. {"BaseRegistrarImplementation", "ReverseRegistrar", "DefaultReverseRegistrar"} \subseteq Lasting
  BY DEF Lasting, OwnName
<1>3. ControllersOK
  BY DEF Statement, WiredInv
<1> QED
  BY <1>1, <1>2, <1>3, KeepingRoles, {3, 4, 5} \subseteq Nat \ {0} DEF ControllersOK

\* The transaction that makes a contract a controller of another.
LEMMA Adding ==
  ASSUME Statement, Control, NEW s \in Lasting, s \in DOMAIN saved, NEW on \in Lasting,
         on \in DOMAIN saved, UNCHANGED saved, chain' = AddController(on, At(s))
  PROVE  Leaves({}, {s}, {}, {}, {}, {Sole(s)}) /\ Uses(on, s)'
<1>1. At(s) = Sole(s) /\ At(s)' = At(s) /\ At(on)' = At(on)
  BY Addresses DEF At
<1>2. Touches(AddController(on, At(s)), {} \cup ({s} \ Lasting), {}, {}, {}, {Sole(s)})
  BY <1>1, Touching DEF Statement
<1>3. <<At(on), At(s)>> \in chain'.controllers
  BY DEF AddController, Statement, RolloutInv, ChainOK
<1> QED
  BY <1>1, <1>2, <1>3, Sent DEF Uses, IsController

\* What is so of the script's own roles before and after the one that it gives in statement k.
LEMMA Taking ==
  ASSUME Statement, Control, NEW s \in Takers, Runs(s), s \in DOMAIN saved, pc > 1,
         NEW C, NEW N, NEW R, NEW P, NEW X, Leaves(C, {s}, N, R, P, X), NEW on \in Lasting,
         NEW k \in {3, 4, 5}, Takes(s, k, on),
         GoesOn => (pc' = pc + 1) /\ UNCHANGED mem,
         ~GoesOn => pc > k \/ ~mem.fresh,
         pc = k => Uses(on, s)'
  PROVE  Takes(s, k, on)'
<1>1. s \in Lasting /\ s \in Scripts /\ pc \in Nat
  BY ScriptNames DEF Takers, Lasting, OwnName, LegacyName, Statement, RolloutInv, RunOK
<1>2. CASE pc = k
  BY <1>2 DEF Takes
<1>3. CASE pc # k
  <2>1. Beyond(s, k)' => Beyond(s, k)
    <3>1. CASE GoesOn
      <4>1. Beyond(s, k)' => ~(mem.fresh /\ pc + 1 \in 2 .. k)
        BY <1>1, <3>1, Advancing
      <4>2. pc + 1 \notin 2 .. k => pc \notin 2 .. k
        BY <1>1, <1>3
      <4> QED
        BY <4>1, <4>2 DEF Beyond
    <3>2. CASE ~GoesOn
      BY <1>1, <3>2 DEF Beyond
    <3> QED
      BY <3>1, <3>2
  <2> QED
    BY <1>1, <2>1, Keeps DEF Takes
<1> QED
  BY <1>2, <1>3

\* And while the script deploys and hands over.
LEMMA NotYetTaking ==
  ASSUME Statement, NEW s \in Takers,
         NEW C, NEW N, NEW R, NEW P, NEW X, Leaves(C, {s}, N, R, P, X), NEW on \in Lasting,
         NEW k, Takes(s, k, on), Beyond(s, k)' => Beyond(s, k)
  PROVE  Takes(s, k, on)'
<1>1. s \in Lasting
  BY DEF Takers, Lasting, OwnName, LegacyName
<1> QED
  BY <1>1, Keeps DEF Takes

LEMMA LegacyControllerScript ==
  ASSUME Statement, Control, DeployLegacyController PROVE WiredInv'
<1> DEFINE s == "LegacyETHRegistrarController"
           registrar == "BaseRegistrarImplementation"
<1>1. Runs(s) /\ s \in OwnName \cup LegacyName /\ s \in LegacyName /\ s \notin HandedBehind
      /\ s \in Held /\ s \in Scripts /\ s \in Lasting /\ s \notin OwnName /\ registrar \in Lasting
      /\ registrar \in OwnName
  BY ScriptNames DEF DeployLegacyController, OwnName, LegacyName, HandedBehind, Held, Lasting
<1>2. place = 17 /\ place \in DOMAIN Pipeline
  BY <1>1, Places, Positions DEF Statement, RolloutInv, RunOK, Runs
<1>3. /\ At(registrar) = Sole(registrar) /\ registrar \in DOMAIN saved
      /\ At("ExponentialPremiumPriceOracle") = Sole("ExponentialPremiumPriceOracle")
      /\ SecurityControllerAllows
  BY <1>1, <1>2, Addresses, InOrder, OwnersPowers DEF Statement
<1>4. /\ \A t : Tag(t)' = Tag(t)
      /\ Owner' = Owner
      /\ \A k : Did(s, k) <=> pc > k
      /\ Throw => \A k : ~Did(s, k)'
      /\ GoesOn => \A k : Did(s, k)' <=> pc' > k
  BY <1>1, Advancing, Constant DEF Statement
<1>5. ASSUME NEW X, Leaves({}, {s}, {}, {}, {}, X), X \subseteq Registrants,
             GoesOn => Tag("legacy"), Present(s)', HolderOK(s)',
             Tag("legacy") /\ Did(s, 2)' => Registers(s)'
      PROVE  WiredInv'
  <2>1. ControllersOK'
    <3>1. (Tag("legacy") /\ Did(s, 2) => Registers(s))'
      BY <1>4, <1>5
    <3>2. /\ Takes("NameWrapper", 3, "BaseRegistrarImplementation")'
          /\ Takes("WrappedETHRegistrarController", 4, "BaseRegistrarImplementation")'
          /\ Takes("ETHRegistrarController", 3, "BaseRegistrarImplementation")'
          /\ Takes("ETHRegistrarController", 4, "ReverseRegistrar")'
          /\ Takes("ETHRegistrarController", 5, "DefaultReverseRegistrar")'
      BY <1>1, <1>5, OtherRoles
    <3> QED
      BY <3>1, <3>2 DEF ControllersOK
  <2> QED
    BY <1>1, <1>5, <2>1, OwnScript
<1>0. pc = 1 \/ pc = 2 \/ pc = 3
  BY Zenon DEF DeployLegacyController
<1>6. CASE pc = 1 /\ ~Tag("legacy")
  <2>1. Return(FALSE)
    <3>1. pc # 2 /\ pc # 3
      BY <1>6
    <3> QED
      BY <1>6, <3>1, Zenon DEF DeployLegacyController
  <2>2. UNCHANGED <<chain, saved>> /\ ~GoesOn
    BY <2>1 DEF Return, GoesOn
  <2>3. Leaves({}, {s}, {}, {}, {}, {})
    BY <2>2, Still
  <2>4. HolderOK(s)'
    <3>1. HolderOK(s)
      BY <1>1 DEF Statement, WiredInv, OwnersOK
    <3> QED
      BY <1>4, <2>2, <3>1 DEF HolderOK, OwnedBy, At
  <2>5. Present(s)'
    BY <1>1, <1>4, <1>6 DEF Present
  <2> QED
    BY <1>5, <1>6, <2>2, <2>3, <2>4, <2>5
<1>7. CASE pc = 1 /\ Tag("legacy")
  <2>1. Deploy(s, Arguments(s))
    <3>1. pc # 2 /\ pc # 3
      BY <1>7
    <3>2. Deploy(s, <<At(registrar), At("ExponentialPremiumPriceOracle")>>)
      BY <1>7, <3>1, Zenon DEF DeployLegacyController
    <3> QED
      BY <1>3, <3>2, ArgumentsOf
  <2>2. Leaves({}, {s}, {}, {}, {}, {}) /\ Present(s)' /\ HolderOK(s)' /\ ~Did(s, 2)'
    BY <1>1, <1>7, <2>1, DeployingOwned, 2 \in Nat
  <2> QED
    BY <1>5, <1>7, <2>2
<1>8. CASE pc > 1
  <2>1. Tag("legacy")
    BY <1>1, <1>8 DEF Statement, WiredInv, LegacyOK
  <2>2. s \in DOMAIN saved
    BY <1>1, <1>8, <2>1, OnceDeployed
  <2>3. CASE pc = 2
    <3>1. Send(SecurityControllerAllows, AddController(registrar, At(s)))
      BY <2>3 DEF DeployLegacyController, AddRegistrarController
    <3>2. UNCHANGED <<saved, mem>> /\ chain' = AddController(registrar, At(s))
      BY <1>3, <3>1, GoingOn, Zenon
    <3>3. Leaves({}, {s}, {}, {}, {}, {Sole(s)}) /\ Registers(s)'
      BY <1>1, <1>3, <2>2, <3>2, Adding DEF Registers
    <3>4. Present(s)' /\ HolderOK(s)'
      BY <1>1, <1>8, <2>1, <3>3, Holding
    <3>5. {Sole(s)} \subseteq Registrants
      BY <2>1 DEF Registrants
    <3> QED
      BY <1>5, <2>1, <3>3, <3>4, <3>5
  <2>4. CASE pc = 3
    <3>1. UNCHANGED <<chain, saved>>
      BY <2>4 DEF DeployLegacyController, Return
    <3>2. Leaves({}, {s}, {}, {}, {}, {})
      BY <3>1, Still
    <3>3. Present(s)' /\ HolderOK(s)'
      BY <1>1, <1>8, <2>1, <3>2, Holding
    <3>4. Registers(s)'
      BY <1>4, <2>1, <2>4, <3>1
         DEF Statement, WiredInv, ControllersOK, Registers, Uses, IsController, At
    <3> QED
      BY <1>5, <2>1, <3>2, <3>3, <3>4
  <2> QED
    BY <1>8, <1>0, <2>3, <2>4
<1> QED
  BY <1>6, <1>7, <1>8, <1>0

\* setInterface writes to a slot of its own, if to any.
LEMMA Interfacing ==
  ASSUME Statement, Control, NEW n, NEW slot, slot \notin Slots, NEW x, NEW s, SetInterface(n, slot, x)
  PROVE  /\ Leaves({}, {s}, {}, {}, {}, {})
         /\ GoesOn => (pc' = pc + 1) /\ UNCHANGED mem
         /\ pc > 1 => pc' # 2
<1> DEFINE after == SetPointer(chain.resolver[n], slot, x)
<1>1. TypesOK /\ pc \in Nat
  BY DEF Statement, RolloutInv, TypesOK, RunOK
<1>2. \/ Return(FALSE)
      \/ \E allowed : allowed = (chain.owner[chain.resolver[n]] = Owner) /\ Send(allowed, after)
  BY DEF SetInterface
<1>3. /\ UNCHANGED saved /\ chain' \in {chain, after}
      /\ GoesOn => (pc' = pc + 1) /\ UNCHANGED mem
      /\ pc' \in {0, 1, pc + 1}
  BY <1>1, <1>2, Zenon DEF Return, Send, Tx, Throw, GoesOn
<1>4. Touches(after, {} \cup ({s} \ Lasting), {}, {}, {}, {})
  BY Touching DEF Statement
<1>5. Leaves({}, {s}, {}, {}, {}, {})
  BY <1>3, <1>4, Sent
<1> QED
  BY <1>1, <1>3, <1>5

LEMMA ControllerScript ==
  ASSUME Statement, Control, DeployController PROVE WiredInv'
<1> DEFINE s == "ETHRegistrarController"
           registrar == "BaseRegistrarImplementation"
           reverse   == "ReverseRegistrar"
           default   == "DefaultReverseRegistrar"
<1>1. Runs(s) /\ s \in OwnName \cup LegacyName /\ s \notin LegacyName /\ s \in HandedBehind
      /\ s \notin Held /\ s \in Scripts /\ s \in Lasting /\ s \in Takers
      /\ {registrar, reverse, default} \subseteq Lasting
      /\ {registrar, reverse, default} \subseteq OwnName
  BY ScriptNames DEF DeployController, OwnName, LegacyName, HandedBehind, Held, Lasting, Takers
<1>2. place = 24 /\ place \in DOMAIN Pipeline
  BY <1>1, Places, Positions DEF Statement, RolloutInv, RunOK, Runs
<1>3. /\ SecurityControllerAllows /\ "ENSRegistry" \in DOMAIN saved
      /\ Behind(registrar) /\ Behind(reverse) /\ Behind(default)
      /\ Behind("ENSRegistry") /\ Behind("ExponentialPremiumPriceOracle")
      /\ ~Runs(reverse) /\ ~Runs(default) /\ ~LeavesWiring
  BY <1>1, <1>2, InOrder, OwnersPowers, WholeNetwork DEF Statement, Runs
<1>4. /\ At(registrar) = Sole(registrar) /\ At(reverse) = Sole(reverse) /\ At(default) = Sole(default)
      /\ At("ExponentialPremiumPriceOracle") = Sole("ExponentialPremiumPriceOracle")
      /\ At("ENSRegistry") = Sole("ENSRegistry")
      /\ {registrar, reverse, default} \subseteq DOMAIN saved
  BY <1>1, <1>3, Addresses
<1>5. OwnedBy(reverse, Owner) /\ OwnedBy(default, Owner)
  <2>1. Beyond(reverse, 2) /\ Did(default, 2)
    BY <1>3, <1>4 DEF Beyond, Did
  <2> QED
    BY <2>1 DEF Statement, WiredInv, HandedOK, HandedOver, HandedBehind, OwnersOK, HolderOK, Held
<1>6. ControllersOK /\ {3, 4, 5} \subseteq Nat
  BY DEF Statement, WiredInv
<1>7. ASSUME NEW C \in SUBSET {s}, NEW X, Leaves(C, {s}, {}, {}, {}, X), X \subseteq Registrants,
             Present(s)', HandedOver(s)', Takes(s, 3, registrar)', Takes(s, 4, reverse)',
             Takes(s, 5, default)'
      PROVE  WiredInv'
  <2>1. ControllersOK'
    <3>1. /\ (Tag("legacy") /\ Did("LegacyETHRegistrarController", 2)
                => Registers("LegacyETHRegistrarController"))'
          /\ Takes("NameWrapper", 3, registrar)'
          /\ Takes("WrappedETHRegistrarController", 4, registrar)'
      BY <1>1, <1>7, OtherRoles
    <3> QED
      BY <1>7, <3>1 DEF ControllersOK
  <2>2. C \subseteq {s} \ {"Root", "BaseRegistrarImplementation"}
    BY <1>7
  <2>3. {} \cap {"root.", "com.", "etn."} = {}
        /\ {"reverse.", "addr.reverse."} \cap {} = {} /\ {"defaultResolver", "resolver"} \cap {} = {}
    OBVIOUS
  <2> QED
    BY <1>1, <1>7, <2>1, <2>2, <2>3, OwnScript
<1>8. ASSUME NEW C \in SUBSET {s}, Leaves(C, {s}, {}, {}, {}, {}), Present(s)', HandedOver(s)',
             \A k \in {3, 4, 5} : Beyond(s, k)' => Beyond(s, k)
      PROVE  WiredInv'
  <2>1. Takes(s, 3, registrar)' /\ Takes(s, 4, reverse)' /\ Takes(s, 5, default)'
    BY <1>1, <1>6, <1>8, NotYetTaking DEF ControllersOK
  <2> QED
    BY <1>7, <1>8, <2>1
<1>9. ASSUME NEW X, X \subseteq Registrants, Leaves({}, {s}, {}, {}, {}, X), pc > 2, pc' # 2,
             GoesOn => (pc' = pc + 1) /\ UNCHANGED mem, ~GoesOn => pc > 5,
             pc = 3 => Uses(registrar, s)', pc = 4 => Uses(reverse, s)', pc = 5 => Uses(default, s)'
      PROVE  WiredInv'
  <2>1. Present(s)' /\ HandedOver(s)' /\ s \in DOMAIN saved
    <3>1. pc > 1
      BY <1>9 DEF Statement, RolloutInv, RunOK
    <3> QED
      BY <1>1, <1>9, <3>1, HandedOn, OnceDeployed
  <2>2. pc > 1 /\ pc \in Nat /\ (~GoesOn => pc > 3 /\ pc > 4)
    BY <1>9 DEF Statement, RolloutInv, RunOK
  <2>3. Takes(s, 3, registrar)'
    BY <1>1, <1>6, <1>9, <2>1, <2>2, Taking DEF ControllersOK
  <2>4. Takes(s, 4, reverse)'
    BY <1>1, <1>6, <1>9, <2>1, <2>2, Taking DEF ControllersOK
  <2>5. Takes(s, 5, default)'
    BY <1>1, <1>6, <1>9, <2>1, <2>2, Taking DEF ControllersOK
  <2> QED
    BY <1>7, <1>9, <2>1, <2>3, <2>4, <2>5
<1>10. CASE pc = 1
  <2>1. Deploy(s, Arguments(s))
    <3>1. pc # 2 /\ pc # 3 /\ pc # 4 /\ pc # 5 /\ pc # 6 /\ pc # 7
      BY <1>10
    <3>2. Deploy(s, <<At(registrar), At("ExponentialPremiumPriceOracle"), At(reverse), At(default),
                      At("ENSRegistry")>>)
      BY <3>1, Zenon DEF DeployController
    <3> QED
      BY <1>4, <3>2, ArgumentsOf
  <2>2. /\ Leaves({}, {s}, {}, {}, {}, {}) /\ Present(s)' /\ HandedOver(s)'
        /\ \A k \in Nat : k > 1 => (Beyond(s, k)' => Beyond(s, k))
    BY <1>1, <1>10, <2>1, DeployingOwned
  <2> QED
    BY <1>8, <2>2
<1>11. CASE pc = 2
  <2>1. HandOverIfFresh(s)
    <3>1. pc # 1 /\ pc # 3 /\ pc # 4 /\ pc # 5 /\ pc # 6 /\ pc # 7
      BY <1>11
    <3> QED
      BY <3>1, Zenon DEF DeployController
  <2>2. /\ Leaves({s}, {s}, {}, {}, {}, {}) /\ Present(s)' /\ HandedOver(s)'
        /\ \A k \in Nat : k > 2 /\ Beyond(s, k)' => Beyond(s, k)
    BY <1>1, <1>11, <2>1, HandingIfFresh
  <2> QED
    BY <1>8, <2>2
<1>12. ASSUME NEW on \in {registrar, reverse, default}, UNCHANGED <<saved, mem>>, pc' = pc + 1,
              GoesOn, chain' = AddController(on, At(s)), pc \in 3 .. 5,
              on = registrar <=> pc = 3, on = reverse <=> pc = 4, on = default <=> pc = 5
       PROVE  WiredInv'
  <2>1. s \in DOMAIN saved
    BY <1>1, <1>12, OnceDeployed
  <2>2. Leaves({}, {s}, {}, {}, {}, {Sole(s)}) /\ Uses(on, s)'
    BY <1>1, <1>4, <1>12, <2>1, Adding
  <2>3. {Sole(s)} \subseteq Registrants
    BY DEF Registrants
  <2> QED
    BY <1>9, <1>12, <2>2, <2>3
<1>13. CASE pc = 3
  <2>1. Send(SecurityControllerAllows, AddController(registrar, At(s)))
    <3>1. pc # 1 /\ pc # 2 /\ pc # 4 /\ pc # 5 /\ pc # 6 /\ pc # 7
      BY <1>13
    <3> QED
      BY <1>3, <3>1, Zenon DEF DeployController, AddRegistrarController
  <2>2. /\ UNCHANGED <<saved, mem>> /\ (pc' = pc + 1) /\ GoesOn
        /\ chain' = AddController(registrar, At(s))
    BY <1>3, <2>1, GoingOn, Zenon
  <2> QED
    BY <1>12, <1>13, <2>2
<1>14. CASE pc = 4
  <2>1. Send(OwnedBy(reverse, Owner), AddController(reverse, At(s)))
    <3>1. pc # 1 /\ pc # 2 /\ pc # 3 /\ pc # 5 /\ pc # 6 /\ pc # 7
      BY <1>14
    <3> QED
      BY <3>1, Zenon DEF DeployController, SetControllerOn
  <2>2. /\ UNCHANGED <<saved, mem>> /\ (pc' = pc + 1) /\ GoesOn
        /\ chain' = AddController(reverse, At(s))
    BY <1>5, <2>1, GoingOn, Zenon
  <2> QED
    BY <1>12, <1>14, <2>2
<1>15. CASE pc = 5
  <2>1. Send(OwnedBy(default, Owner), AddController(default, At(s)))
    <3>1. pc # 1 /\ pc # 2 /\ pc # 3 /\ pc # 4 /\ pc # 6 /\ pc # 7
      BY <1>15
    <3> QED
      BY <3>1, Zenon DEF DeployController, SetControllerOn
  <2>2. /\ UNCHANGED <<saved, mem>> /\ (pc' = pc + 1) /\ GoesOn
        /\ chain' = AddController(default, At(s))
    BY <1>5, <2>1, GoingOn, Zenon
  <2> QED
    BY <1>12, <1>15, <2>2
<1>16. CASE pc = 6
  <2>1. SetInterface("etn.", "IETHRegistrarController", At(s))
    <3>1. pc # 1 /\ pc # 2 /\ pc # 3 /\ pc # 4 /\ pc # 5 /\ pc # 7
      BY <1>16
    <3> QED
      BY <3>1, Zenon DEF DeployController
  <2>2. "IETHRegistrarController" \notin Slots
    BY DEF Slots
  <2>3. /\ Leaves({}, {s}, {}, {}, {}, {})
        /\ GoesOn => (pc' = pc + 1) /\ UNCHANGED mem
        /\ pc > 1 => pc' # 2
    BY <2>1, <2>2, Interfacing, Zenon
  <2> QED
    BY <1>9, <1>16, <2>3
<1>17. CASE pc = 7
  <2>1. UNCHANGED <<chain, saved>> /\ (pc' = 1) /\ ~GoesOn
    <3>1. pc # 1 /\ pc # 2 /\ pc # 3 /\ pc # 4 /\ pc # 5 /\ pc # 6
      BY <1>17
    <3>2. Return(FALSE)
      BY <3>1, Zenon DEF DeployController
    <3> QED
      BY <3>2 DEF Return, GoesOn
  <2>2. Leaves({}, {s}, {}, {}, {}, {})
    BY <2>1, Still
  <2> QED
    BY <1>9, <1>17, <2>1, <2>2
<1>18. pc \in 1 .. 7
  <2>1. pc = 1 \/ pc = 2 \/ pc = 3 \/ pc = 4 \/ pc = 5 \/ pc = 6 \/ pc = 7
    BY Zenon DEF DeployController
  <2> QED
    BY <2>1
<1> QED
  BY <1>10, <1>11, <1>13, <1>14, <1>15, <1>16, <1>17, <1>18

LEMMA WrappedControllerScript ==
  ASSUME Statement, Control, DeployWrappedController PROVE WiredInv'
<1> DEFINE s == "WrappedETHRegistrarController"
           registrar == "BaseRegistrarImplementation"
           reverse   == "ReverseRegistrar"
           wrapper   == "NameWrapper"
<1>1. Runs(s) /\ s \in OwnName \cup LegacyName /\ s \in LegacyName /\ s \in HandedBehind
      /\ s \notin Held /\ s \in Scripts /\ s \in Lasting /\ s \in Takers
      /\ {registrar, reverse, wrapper} \subseteq Lasting
      /\ {registrar, reverse, wrapper} \subseteq OwnName
  BY ScriptNames
     DEF DeployWrappedController, OwnName, LegacyName, HandedBehind, Held, Lasting, Takers
<1>2. place = 22 /\ place \in DOMAIN Pipeline
  BY <1>1, Places, Positions DEF Statement, RolloutInv, RunOK, Runs
<1>3. /\ SecurityControllerAllows /\ "ENSRegistry" \in DOMAIN saved
      /\ Behind(registrar) /\ Behind(reverse) /\ Behind(wrapper)
      /\ Behind("ENSRegistry") /\ Behind("ExponentialPremiumPriceOracle")
      /\ ~Runs(reverse) /\ ~Runs(wrapper) /\ ~LeavesWiring
  BY <1>1, <1>2, InOrder, OwnersPowers, WholeNetwork DEF Statement, Runs
<1>4. /\ At(registrar) = Sole(registrar) /\ At(reverse) = Sole(reverse) /\ At(wrapper) = Sole(wrapper)
      /\ At("ExponentialPremiumPriceOracle") = Sole("ExponentialPremiumPriceOracle")
      /\ At("ENSRegistry") = Sole("ENSRegistry")
      /\ {registrar, reverse, wrapper} \subseteq DOMAIN saved
  BY <1>1, <1>3, Addresses
<1>5. OwnedBy(reverse, Owner) /\ OwnedBy(wrapper, Owner)
  <2>1. Beyond(reverse, 2) /\ Beyond(wrapper, 2)
    BY <1>3, <1>4 DEF Beyond
  <2> QED
    BY <2>1 DEF Statement, WiredInv, HandedOK, HandedOver, HandedBehind
<1>6. /\ ControllersOK /\ {3, 4, 5} \subseteq Nat
      /\ pc > 1 => Tag("legacy")
      /\ \A t : Tag(t)' = Tag(t)
  BY <1>1, Constant DEF Statement, WiredInv, LegacyOK
<1>7. ASSUME NEW C \in SUBSET {s}, NEW X, Leaves(C, {s}, {}, {}, {}, X), X \subseteq Registrants,
             GoesOn => Tag("legacy"), Present(s)', HandedOver(s)', Takes(s, 4, registrar)'
      PROVE  WiredInv'
  <2>1. ControllersOK'
    <3>1. /\ (Tag("legacy") /\ Did("LegacyETHRegistrarController", 2)
                => Registers("LegacyETHRegistrarController"))'
          /\ Takes("NameWrapper", 3, registrar)'
          /\ Takes("ETHRegistrarController", 3, "BaseRegistrarImplementation")'
          /\ Takes("ETHRegistrarController", 4, "ReverseRegistrar")'
          /\ Takes("ETHRegistrarController", 5, "DefaultReverseRegistrar")'
      BY <1>1, <1>7, OtherRoles
    <3> QED
      BY <1>7, <3>1 DEF ControllersOK
  <2>2. C \subseteq {s} \ {"Root", "BaseRegistrarImplementation"}
    BY <1>7
  <2>3. {} \cap {"root.", "com.", "etn."} = {}
        /\ {"reverse.", "addr.reverse."} \cap {} = {} /\ {"defaultResolver", "resolver"} \cap {} = {}
    OBVIOUS
  <2> QED
    BY <1>1, <1>7, <2>1, <2>2, <2>3, OwnScript
<1>8. ASSUME NEW C \in SUBSET {s}, Leaves(C, {s}, {}, {}, {}, {}), GoesOn => Tag("legacy"),
             Present(s)', HandedOver(s)', Beyond(s, 4)' => Beyond(s, 4)
      PROVE  WiredInv'
  <2>1. Takes(s, 4, registrar)'
    BY <1>1, <1>6, <1>8, NotYetTaking DEF ControllersOK
  <2> QED
    BY <1>7, <1>8, <2>1
<1>9. ASSUME NEW X, X \subseteq Registrants, Leaves({}, {s}, {}, {}, {}, X), pc > 2, pc' # 2,
             GoesOn => (pc' = pc + 1) /\ UNCHANGED mem, ~GoesOn => pc > 4,
             pc = 4 => Uses(registrar, s)'
      PROVE  WiredInv'
  <2>1. pc > 1 /\ pc \in Nat /\ Tag("legacy")
    BY <1>6, <1>9 DEF Statement, RolloutInv, RunOK
  <2>2. Present(s)' /\ HandedOver(s)' /\ s \in DOMAIN saved
    BY <1>1, <1>9, <2>1, HandedOn, OnceDeployed
  <2>3. Takes(s, 4, registrar)'
    BY <1>1, <1>6, <1>9, <2>1, <2>2, Taking DEF ControllersOK
  <2> QED
    BY <1>7, <1>9, <2>1, <2>2, <2>3
<1>10. CASE pc = 1 /\ ~Tag("legacy")
  <2>1. Return(FALSE)
    <3>1. pc # 2 /\ pc # 3 /\ pc # 4 /\ pc # 5 /\ pc # 6
      BY <1>10
    <3> QED
      BY <1>10, <3>1, Zenon DEF DeployWrappedController
  <2>2. UNCHANGED <<chain, saved>> /\ ~GoesOn
    BY <2>1 DEF Return, GoesOn
  <2>3. Leaves({}, {s}, {}, {}, {}, {})
    BY <2>2, Still
  <2>4. HandedOver(s)' /\ (Beyond(s, 4)' => Beyond(s, 4))
    <3>1. HandedOver(s) /\ ~Runs(s)' /\ Owner' = Owner
      BY <1>1, <2>1, Progress, Constant DEF Statement, WiredInv, HandedOK
    <3>2. Beyond(s, 2)' \/ Beyond(s, 4)' => s \in DOMAIN saved
      BY <2>2 DEF Beyond
    <3>3. s \in DOMAIN saved => Beyond(s, 2) /\ Beyond(s, 4)
      BY <1>10 DEF Beyond
    <3>4. \A who : OwnedBy(s, who)' <=> OwnedBy(s, who)
      BY <2>2 DEF OwnedBy, At
    <3> QED
      BY <3>1, <3>2, <3>3, <3>4 DEF HandedOver
  <2>5. Present(s)'
    BY <1>1, <1>6, <1>10 DEF Present
  <2> QED
    BY <1>8, <2>2, <2>3, <2>4, <2>5
<1>11. CASE pc = 1 /\ Tag("legacy")
  <2>1. Deploy(s, Arguments(s))
    <3>1. pc # 2 /\ pc # 3 /\ pc # 4 /\ pc # 5 /\ pc # 6
      BY <1>11
    <3>2. Deploy(s, <<At(registrar), At("ExponentialPremiumPriceOracle"), At(reverse), At(wrapper),
                      At("ENSRegistry")>>)
      BY <1>11, <3>1, Zenon DEF DeployWrappedController
    <3> QED
      BY <1>4, <3>2, ArgumentsOf
  <2>2. /\ Leaves({}, {s}, {}, {}, {}, {}) /\ Present(s)' /\ HandedOver(s)'
        /\ Beyond(s, 4)' => Beyond(s, 4)
    BY <1>1, <1>11, <2>1, DeployingOwned, 4 \in Nat
  <2> QED
    BY <1>8, <1>11, <2>2
<1>12. CASE pc = 2
  <2>1. HandOverIfFresh(s)
    <3>1. pc # 1 /\ pc # 3 /\ pc # 4 /\ pc # 5 /\ pc # 6
      BY <1>12
    <3> QED
      BY <3>1, Zenon DEF DeployWrappedController
  <2>2. /\ Leaves({s}, {s}, {}, {}, {}, {}) /\ Present(s)' /\ HandedOver(s)'
        /\ Beyond(s, 4)' => Beyond(s, 4)
    BY <1>1, <1>6, <1>12, <2>1, HandingIfFresh, 4 \in Nat
  <2> QED
    BY <1>6, <1>8, <1>12, <2>2
<1>13. ASSUME NEW on \in {registrar, reverse, wrapper}, UNCHANGED <<saved, mem>>, pc' = pc + 1,
              GoesOn, chain' = AddController(on, At(s)), pc \in 3 .. 5, pc = 4 => on = registrar
       PROVE  WiredInv'
  <2>1. s \in DOMAIN saved /\ Tag("legacy")
    BY <1>1, <1>6, <1>13, OnceDeployed
  <2>2. Leaves({}, {s}, {}, {}, {}, {Sole(s)}) /\ Uses(on, s)'
    BY <1>1, <1>4, <1>13, <2>1, Adding
  <2>3. {Sole(s)} \subseteq Registrants
    BY <2>1 DEF Registrants
  <2> QED
    BY <1>9, <1>13, <2>2, <2>3
<1>14. CASE pc = 3
  <2>1. Send(OwnedBy(wrapper, Owner), AddController(wrapper, At(s)))
    <3>1. pc # 1 /\ pc # 2 /\ pc # 4 /\ pc # 5 /\ pc # 6
      BY <1>14
    <3> QED
      BY <1>3, <3>1, Zenon DEF DeployWrappedController, SetControllerOn
  <2>2. /\ UNCHANGED <<saved, mem>> /\ (pc' = pc + 1) /\ GoesOn
        /\ chain' = AddController(wrapper, At(s))
    BY <1>5, <2>1, GoingOn, Zenon
  <2> QED
    BY <1>13, <1>14, <2>2
<1>15. CASE pc = 4
  <2>1. Send(SecurityControllerAllows, AddController(registrar, At(s)))
    <3>1. pc # 1 /\ pc # 2 /\ pc # 3 /\ pc # 5 /\ pc # 6
      BY <1>15
    <3> QED
      BY <3>1, Zenon DEF DeployWrappedController, AddRegistrarController
  <2>2. /\ UNCHANGED <<saved, mem>> /\ (pc' = pc + 1) /\ GoesOn
        /\ chain' = AddController(registrar, At(s))
    BY <1>3, <2>1, GoingOn, Zenon
  <2> QED
    BY <1>13, <1>15, <2>2
<1>16. CASE pc = 5
  <2>1. Send(OwnedBy(reverse, Owner), AddController(reverse, At(s)))
    <3>1. pc # 1 /\ pc # 2 /\ pc # 3 /\ pc # 4 /\ pc # 6
      BY <1>16
    <3> QED
      BY <3>1, Zenon DEF DeployWrappedController, SetControllerOn
  <2>2. /\ UNCHANGED <<saved, mem>> /\ (pc' = pc + 1) /\ GoesOn
        /\ chain' = AddController(reverse, At(s))
    BY <1>5, <2>1, GoingOn, Zenon
  <2> QED
    BY <1>13, <1>16, <2>2
<1>17. CASE pc = 6
  <2>1. SetInterface("eth.", "IWrappedETHRegistrarController", At(s))
    <3>1. pc # 1 /\ pc # 2 /\ pc # 3 /\ pc # 4 /\ pc # 5
      BY <1>17
    <3> QED
      BY <3>1, Zenon DEF DeployWrappedController
  <2>2. "IWrappedETHRegistrarController" \notin Slots
    BY DEF Slots
  <2>3. /\ Leaves({}, {s}, {}, {}, {}, {})
        /\ GoesOn => (pc' = pc + 1) /\ UNCHANGED mem
        /\ pc > 1 => pc' # 2
    BY <2>1, <2>2, Interfacing, Zenon
  <2> QED
    BY <1>9, <1>17, <2>3
<1>18. pc \in 1 .. 6
  <2>1. pc = 1 \/ pc = 2 \/ pc = 3 \/ pc = 4 \/ pc = 5 \/ pc = 6
    BY Zenon DEF DeployWrappedController
  <2> QED
    BY <2>1
<1> QED
  BY <1>10, <1>11, <1>12, <1>14, <1>15, <1>16, <1>17, <1>18

LEMMA WrapperScript ==
  ASSUME Statement, Control, DeployNameWrapper PROVE WiredInv'
<1> DEFINE s == "NameWrapper"
           registrar == "BaseRegistrarImplementation"
           resolver  == "OwnedResolver"
<1>1. Runs(s) /\ s \in OwnName \cup LegacyName /\ s \notin LegacyName /\ s \in HandedBehind
      /\ s \notin Held /\ s \in Scripts /\ s \in Lasting /\ s \in Takers
      /\ {registrar, resolver} \subseteq Lasting \cap OwnName /\ resolver \in HandedBehind
  BY ScriptNames DEF DeployNameWrapper, OwnName, LegacyName, HandedBehind, Held, Lasting, Takers
<1>2. place = 21 /\ place \in DOMAIN Pipeline
  BY <1>1, Places, Positions DEF Statement, RolloutInv, RunOK, Runs
<1>3. /\ SecurityControllerAllows /\ ~LeavesWiring
      /\ Behind(registrar) /\ Behind(resolver) /\ ~Runs(resolver)
  BY <1>1, <1>2, InOrder, OwnersPowers, WholeNetwork DEF Statement, Runs
<1>4. /\ At(registrar) = Sole(registrar) /\ registrar \in DOMAIN saved
      /\ At(resolver) = Sole(resolver) /\ resolver \in DOMAIN saved
  BY <1>1, <1>3, Addresses
<1>5. chain.resolver["etn."] = At(resolver) /\ OwnedBy(resolver, Owner)
  <2>1. Beyond(resolver, 2) /\ Did(resolver, 3)
    BY <1>3, <1>4 DEF Beyond, Did
  <2> QED
    BY <1>1, <2>1 DEF Statement, WiredInv, HandedOK, HandedOver, TldResolverOK
<1>6. /\ s \notin done /\ ControllersOK
      /\ s \in DOMAIN saved => mem.fresh /\ pc \in 2 .. 5
  BY <1>1 DEF Statement, WiredInv, OrderlyOK, WrapperOK, Runs
<1>7. ASSUME NEW C \in SUBSET {s}, NEW X, Leaves(C, {s}, {}, {}, {}, X), X \subseteq Registrants,
             Present(s)', HandedOver(s)', Takes(s, 3, registrar)', WrapperOK'
      PROVE  WiredInv'
  <2>1. ControllersOK'
    <3>1. /\ (Tag("legacy") /\ Did("LegacyETHRegistrarController", 2)
                => Registers("LegacyETHRegistrarController"))'
          /\ Takes("WrappedETHRegistrarController", 4, registrar)'
          /\ Takes("ETHRegistrarController", 3, "BaseRegistrarImplementation")'
          /\ Takes("ETHRegistrarController", 4, "ReverseRegistrar")'
          /\ Takes("ETHRegistrarController", 5, "DefaultReverseRegistrar")'
      BY <1>1, <1>7, OtherRoles
    <3> QED
      BY <1>7, <3>1 DEF ControllersOK
  <2>2. C \subseteq {s} \ {"Root", "BaseRegistrarImplementation"}
    BY <1>7
  <2>3. {} \cap {"root.", "com.", "etn."} = {}
        /\ {"reverse.", "addr.reverse."} \cap {} = {} /\ {"defaultResolver", "resolver"} \cap {} = {}
    OBVIOUS
  <2> QED
    BY <1>1, <1>7, <2>1, <2>2, <2>3, OwnScript
<1>8. GoesOn => Runs(s)'
  BY <1>1, Advancing
<1>9. ASSUME NEW X, X \subseteq Registrants, Leaves({}, {s}, {}, {}, {}, X), pc \in 3 .. 4,
             GoesOn, pc' = pc + 1, UNCHANGED mem, pc = 3 => Uses(registrar, s)'
      PROVE  WiredInv'
  <2>1. pc > 1 /\ pc > 2 /\ pc' # 2 /\ pc' \in 2 .. 5
    BY <1>9
  <2>2. Present(s)' /\ HandedOver(s)' /\ s \in DOMAIN saved
    BY <1>1, <1>9, <2>1, HandedOn, OnceDeployed
  <2>3. Takes(s, 3, registrar)'
    BY <1>1, <1>6, <1>9, <2>1, <2>2, Taking DEF ControllersOK
  <2>4. WrapperOK'
    BY <1>6, <1>8, <1>9, <2>1, <2>2 DEF WrapperOK
  <2> QED
    BY <1>7, <1>9, <2>2, <2>3, <2>4
<1>10. CASE pc = 1
  <2> DEFINE built == [Constructed(s, Deployer) EXCEPT
                        !.points = Put(@, <<NewAt(s), "metadataService">>, At("StaticMetadataService"))]
             args  == <<At("ENSRegistry"), At(registrar), At("StaticMetadataService")>>
  <2>1. DeployClaiming(s, args, built)
    BY <1>10 DEF DeployNameWrapper
  <2>2. s \notin DOMAIN saved
    BY <1>6, <1>10
  <2>3. CASE Throw
    <3>1. UNCHANGED <<chain, saved>>
      BY <2>3 DEF Throw
    <3>2. ~Did(s, 1)' /\ s \notin DOMAIN saved' /\ ~Runs(s)'
      BY <1>1, <2>2, <2>3, <3>1, Advancing
    <3> QED
      BY <1>7, <3>1, <3>2, Still DEF Present, HandedOver, Beyond, Takes, WrapperOK
  <2>4. CASE Create(s, args, built)
    <3>1. Touches(built, {}, {}, {}, {}, {})
      <4>1. Touches(Constructed(s, Deployer), {}, {}, {}, {}, {})
        BY <2>2, Built DEF Statement
      <4>2. /\ built.owner = Constructed(s, Deployer).owner
            /\ built.token = Constructed(s, Deployer).token
            /\ built.node = Constructed(s, Deployer).node
            /\ built.resolver = Constructed(s, Deployer).resolver
            /\ built.controllers = Constructed(s, Deployer).controllers
            /\ built.code = Constructed(s, Deployer).code
            /\ built.points = Put(Constructed(s, Deployer).points,
                                  <<NewAt(s), "metadataService">>, At("StaticMetadataService"))
        BY DEF Constructed, Statement, RolloutInv, ChainOK
      <4> HIDE DEF built
      <4> QED
        BY <4>1, <4>2 DEF Touches, Put, Slots
    <3>2. built.owner = Put(chain.owner, NewAt(s), Deployer)
      BY DEF Constructed, Statement, RolloutInv, ChainOK
    <3> HIDE DEF built, args
    <3>3. /\ Leaves({}, {s}, {}, {}, {}, {}) /\ Present(s)' /\ GoesOn /\ (pc' = 2)
          /\ mem'.fresh /\ OwnedBy(s, Deployer)'
          /\ \A k \in Nat : k > 1 => ~Beyond(s, k)'
      BY <1>1, <1>10, <2>2, <2>4, <3>1, <3>2, Deploying
    <3>4. HandedOver(s)' /\ Takes(s, 3, registrar)' /\ WrapperOK'
      BY <1>8, <3>3, {2, 3} \subseteq Nat DEF HandedOver, Takes, WrapperOK, Deployer
    <3> QED
      BY <1>7, <3>3, <3>4
  <2> QED
    BY <2>1, <2>3, <2>4 DEF DeployClaiming
<1>11. CASE pc = 2
  <2>1. HandOverIfFresh(s) /\ s \in DOMAIN saved
    BY <1>1, <1>11, OnceDeployed DEF DeployNameWrapper
  <2>2. mem.fresh
    BY <1>6, <2>1
  <2>3. /\ Leaves({s}, {s}, {}, {}, {}, {}) /\ Present(s)' /\ HandedOver(s)' /\ ~Throw
        /\ Beyond(s, 3)' => Beyond(s, 3)
        /\ GoesOn => pc' = 3
    BY <1>1, <1>11, <2>1, HandingIfFresh, 3 \in Nat
  <2>4. UNCHANGED mem /\ GoesOn
    BY <1>11, <2>1, <2>2, <2>3
       DEF HandOverIfFresh, HandOver, SendUnless, Send, Tx, Skip, Goto, Throw, Return, Control
  <2>5. WrapperOK'
    BY <1>8, <2>2, <2>3, <2>4 DEF WrapperOK
  <2>6. Takes(s, 3, registrar)'
    BY <1>1, <1>6, <2>3, NotYetTaking DEF ControllersOK
  <2> QED
    BY <1>7, <2>3, <2>5, <2>6
<1>12. CASE pc = 3
  <2>1. Send(SecurityControllerAllows, AddController(registrar, At(s)))
    <3>1. pc # 1 /\ pc # 2 /\ pc # 4 /\ pc # 5
      BY <1>12
    <3> QED
      BY <1>3, <3>1, Zenon DEF DeployNameWrapper
  <2>2. /\ UNCHANGED <<saved, mem>> /\ (pc' = pc + 1) /\ GoesOn
        /\ chain' = AddController(registrar, At(s))
    BY <1>3, <2>1, GoingOn, Zenon
  <2>3. s \in DOMAIN saved
    BY <1>1, <1>12, OnceDeployed
  <2>4. Leaves({}, {s}, {}, {}, {}, {Sole(s)}) /\ Uses(registrar, s)'
    BY <1>1, <1>4, <2>2, <2>3, Adding
  <2>5. {Sole(s)} \subseteq Registrants
    BY DEF Registrants
  <2> QED
    BY <1>9, <1>12, <2>2, <2>4, <2>5
<1>13. CASE pc = 4
  <2> DEFINE allowed == chain.owner[chain.resolver["etn."]] = Owner
             after   == SetPointer(chain.resolver["etn."], "INameWrapper", At(s))
  <2>1. Send(allowed, after)
    <3>1. pc # 1 /\ pc # 2 /\ pc # 3 /\ pc # 5
      BY <1>13
    <3>2. chain.resolver["etn."] # Nobody
      BY <1>4, <1>5 DEF Sole, Nobody
    <3> QED
      BY <3>1, <3>2, Zenon DEF DeployNameWrapper
  <2>2. allowed
    BY <1>5 DEF OwnedBy
  <2>3. /\ UNCHANGED <<saved, mem>> /\ (pc' = pc + 1) /\ GoesOn /\ chain' = after
    <3> HIDE DEF allowed, after
    <3> QED
      BY <2>1, <2>2, GoingOn, Zenon
  <2>4. Leaves({}, {s}, {}, {}, {}, {})
    <3>1. Touches(after, {} \cup ({s} \ Lasting), {}, {}, {}, {})
      BY Touching DEF Statement, Slots
    <3> QED
      BY <2>3, <3>1, Sent
  <2> QED
    BY <1>9, <1>13, <2>3, <2>4
<1>14. CASE pc = 5
  <2>1. Return(TRUE)
    <3>1. pc # 1 /\ pc # 2 /\ pc # 3 /\ pc # 4
      BY <1>14
    <3> QED
      BY <3>1, Zenon DEF DeployNameWrapper, NameWrapperIsDone
  <2>2. UNCHANGED <<chain, saved>> /\ pc' # 2 /\ s \in done'
    BY <1>1, <2>1 DEF Return, Runs
  <2>3. Leaves({}, {s}, {}, {}, {}, {})
    BY <2>2, Still
  <2>4. Present(s)' /\ HandedOver(s)' /\ s \in DOMAIN saved
    BY <1>1, <1>14, <2>2, <2>3, HandedOn, OnceDeployed
  <2>5. Takes(s, 3, registrar)'
    <3>1. Beyond(s, 3)
      BY <1>14, <2>4 DEF Beyond
    <3> QED
      BY <1>1, <1>6, <2>3, <3>1, NotYetTaking DEF ControllersOK
  <2> QED
    BY <1>7, <2>2, <2>3, <2>4, <2>5 DEF WrapperOK
<1>15. pc \in 1 .. 5
  <2>1. pc = 1 \/ pc = 2 \/ pc = 3 \/ pc = 4 \/ pc = 5
    BY Zenon DEF DeployNameWrapper
  <2> QED
    BY <2>1
<1> QED
  BY <1>10, <1>11, <1>12, <1>13, <1>14, <1>15

LEMMA ReverseScript ==
  ASSUME Statement, Control, DeployReverseRegistrar PROVE WiredInv'
<1> DEFINE s == "ReverseRegistrar"
<1>1. Runs(s) /\ s \in OwnName \cup LegacyName /\ s \notin LegacyName /\ s \in HandedBehind
      /\ s \notin Held /\ s \in Scripts /\ s \in Lasting
  BY ScriptNames DEF DeployReverseRegistrar, OwnName, LegacyName, HandedBehind, Held, Lasting
<1>2. place = 18 /\ place \in DOMAIN Pipeline
  BY <1>1, Places, Positions DEF Statement, RolloutInv, RunOK, Runs
<1>3. /\ RootAllows(Owner) /\ ~LeavesWiring /\ At("ENSRegistry") = Sole("ENSRegistry")
      /\ Owner' = Owner
      /\ ReverseOK
      /\ {"reverse.", "addr.reverse."} \subseteq Nodes
  BY <1>1, <1>2, Addresses, Constant, InOrder, OwnersPowers, WholeNetwork
     DEF Statement, WiredInv, Nodes, OtherNodes
<1>4. GoesOn => \A k : Beyond(s, k)' => ~(mem'.fresh /\ pc' \in 2 .. k)
  BY <1>1, Advancing
<1>5. ASSUME NEW C \in SUBSET {s}, NEW N, Leaves(C, {s}, N, {}, {}, {}),
             N \subseteq {"reverse.", "addr.reverse."}, Present(s)', HandedOver(s)', ReverseOK'
      PROVE  WiredInv'
  <2>1. C \subseteq {s} \ {"Root", "BaseRegistrarImplementation"}
        /\ N \cap {"root.", "com.", "etn."} = {}
    BY <1>5
  <2> QED
    BY <1>1, <1>5, <2>1, OwnScript
<1>6. CASE pc = 1
  <2>1. Deploy(s, Arguments(s))
    BY <1>3, <1>6, ArgumentsOf DEF DeployReverseRegistrar
  <2>2. /\ Leaves({}, {s}, {}, {}, {}, {}) /\ Present(s)' /\ HandedOver(s)'
        /\ Beyond(s, 3)' => Beyond(s, 3) /\ UNCHANGED <<saved, chain>>
        /\ Beyond(s, 4)' => Beyond(s, 4) /\ UNCHANGED <<saved, chain>>
    BY <1>1, <1>6, <2>1, DeployingOwned, {3, 4} \subseteq Nat
  <2> QED
    BY <1>3, <1>5, <2>2 DEF ReverseOK, At
<1>7. CASE pc = 2
  <2>1. HandOverIfFresh(s)
    BY <1>7 DEF DeployReverseRegistrar
  <2>2. /\ Leaves({s}, {s}, {}, {}, {}, {}) /\ Present(s)' /\ HandedOver(s)'
        /\ Beyond(s, 3)' => Beyond(s, 3) /\ UNCHANGED <<saved, chain>>
        /\ Beyond(s, 4)' => Beyond(s, 4) /\ UNCHANGED <<saved, chain>>
    BY <1>1, <1>7, <2>1, HandingIfFresh, {3, 4} \subseteq Nat
  <2> QED
    BY <1>3, <1>5, <2>2 DEF ReverseOK, At
<1>8. CASE pc > 2
  <2>1. s \in DOMAIN saved /\ \A k : Beyond(s, k) <=> ~(mem.fresh /\ pc \in 2 .. k)
    <3>1. pc > 1
      BY <1>8 DEF Statement, RolloutInv, RunOK
    <3> QED
      BY <1>1, <3>1, OnceDeployed DEF Beyond
  <2>2. CASE pc = 3
    <3>1. Send(RootAllows(Owner), SetNode("reverse.", Owner))
      <4>1. pc # 1 /\ pc # 2 /\ pc # 4 /\ pc # 5
        BY <2>2
      <4> QED
        BY <1>3, <4>1, Zenon DEF DeployReverseRegistrar
    <3>2. /\ UNCHANGED <<saved, mem>> /\ (pc' = pc + 1) /\ GoesOn
          /\ chain' = SetNode("reverse.", Owner)
      BY <1>3, <3>1, GoingOn, Zenon
    <3>3. Leaves({}, {s}, {"reverse."}, {}, {}, {})
      <4>1. Touches(SetNode("reverse.", Owner), {} \cup ({s} \ Lasting), {"reverse."}, {}, {}, {})
        BY Touching DEF Statement
      <4> QED
        BY <3>2, <4>1, Sent
    <3>4. ReverseOK'
      <4>1. chain'.node["reverse."] = Owner
        BY <1>3, <3>2 DEF SetNode, Statement, RolloutInv, ChainOK
      <4>2. chain'.node["addr.reverse."] = chain.node["addr.reverse."] /\ At(s)' = At(s)
        BY <1>3, <3>2 DEF SetNode, Statement, RolloutInv, ChainOK, At
      <4>3. Beyond(s, 4)' => Beyond(s, 4)
        BY <1>4, <2>1, <2>2, <3>2
      <4> QED
        BY <1>3, <4>1, <4>2, <4>3 DEF ReverseOK
    <3>5. Present(s)' /\ HandedOver(s)'
      BY <1>1, <1>8, <2>2, <3>2, <3>3, HandedOn
    <3> QED
      BY <1>5, <3>3, <3>4, <3>5
  <2>3. CASE pc = 4
    <3>1. Send(chain.node["reverse."] = Owner, SetNode("addr.reverse.", At(s)))
      BY <2>3 DEF DeployReverseRegistrar
    <3>2. chain.node["reverse."] = Owner
      BY <1>3, <2>1, <2>3 DEF ReverseOK
    <3>3. /\ UNCHANGED <<saved, mem>> /\ (pc' = pc + 1) /\ GoesOn
          /\ chain' = SetNode("addr.reverse.", At(s))
      BY <3>1, <3>2, GoingOn, Zenon
    <3>4. Leaves({}, {s}, {"addr.reverse."}, {}, {}, {})
      <4>1. Touches(SetNode("addr.reverse.", At(s)), {} \cup ({s} \ Lasting), {"addr.reverse."}, {}, {}, {})
        BY Touching DEF Statement
      <4> QED
        BY <3>3, <4>1, Sent
    <3>5. ReverseOK'
      <4>1. /\ chain'.node["addr.reverse."] = At(s) /\ At(s)' = At(s)
            /\ chain'.node["reverse."] = chain.node["reverse."]
        BY <1>3, <3>3 DEF SetNode, Statement, RolloutInv, ChainOK, At
      <4> QED
        BY <1>3, <3>2, <4>1 DEF ReverseOK
    <3>6. Present(s)' /\ HandedOver(s)'
      BY <1>1, <1>8, <2>3, <3>3, <3>4, HandedOn
    <3> QED
      BY <1>5, <3>4, <3>5, <3>6
  <2>4. CASE pc = 5
    <3>1. UNCHANGED <<chain, saved>> /\ pc' # 2
      BY <2>4 DEF DeployReverseRegistrar, Return
    <3>2. Leaves({}, {s}, {}, {}, {}, {})
      BY <3>1, Still
    <3>3. Present(s)' /\ HandedOver(s)'
      BY <1>1, <1>8, <3>1, <3>2, HandedOn
    <3>4. Beyond(s, 3) /\ Beyond(s, 4)
      BY <2>1, <2>4
    <3> QED
      BY <1>3, <1>5, <3>1, <3>2, <3>3, <3>4 DEF ReverseOK, At
  <2>5. pc = 3 \/ pc = 4 \/ pc = 5
    <3>1. pc = 1 \/ pc = 2 \/ pc = 3 \/ pc = 4 \/ pc = 5
      BY Zenon DEF DeployReverseRegistrar
    <3> QED
      BY <1>8, <3>1
  <2> QED
    BY <2>2, <2>3, <2>4, <2>5
<1>9. pc = 1 \/ pc = 2 \/ pc > 2
  BY DEF Statement, RolloutInv, RunOK
<1> QED
  BY <1>6, <1>7, <1>8, <1>9

LEMMA ResolverScript ==
  ASSUME Statement, Control, DeployPublicResolver PROVE WiredInv'
<1> DEFINE s == "PublicResolver"
           reverse == "ReverseRegistrar"
<1>1. Runs(s) /\ s \in OwnName \cup LegacyName /\ s \notin LegacyName /\ s \notin HandedBehind
      /\ s \notin Held /\ s \in Scripts /\ s \in Lasting
      /\ {"NameWrapper", "ETHRegistrarController", reverse} \subseteq OwnName
  BY ScriptNames DEF DeployPublicResolver, OwnName, LegacyName, HandedBehind, Held, Lasting
<1>2. place = 28 /\ place \in DOMAIN Pipeline
  BY <1>1, Places, Positions DEF Statement, RolloutInv, RunOK, Runs
<1>3. /\ Behind("ENSRegistry") /\ Behind(reverse) /\ Behind("NameWrapper")
      /\ Behind("ETHRegistrarController") /\ Behind("ReservedNames") /\ ~Runs(reverse)
      /\ ~LeavesWiring
  BY <1>1, <1>2, InOrder, WholeNetwork DEF Statement, Runs
<1>4. /\ At("ENSRegistry") = Sole("ENSRegistry") /\ At("NameWrapper") = Sole("NameWrapper")
      /\ At("ETHRegistrarController") = Sole("ETHRegistrarController")
      /\ At(reverse) = Sole(reverse) /\ reverse \in DOMAIN saved
  BY <1>1, <1>3, Addresses
<1>5. OwnedBy(reverse, Owner) /\ PublicResolverOK
  <2>1. Beyond(reverse, 2)
    BY <1>3, <1>4 DEF Beyond
  <2> QED
    BY <2>1 DEF Statement, WiredInv, HandedOK, HandedOver, HandedBehind
<1>6. chain.node["resolver"] = Owner /\ "resolver" \in Nodes
  <2>1. PICK i \in DOMAIN Reserved : Reserved[i] = "resolver"
    BY WiringAssumption
  <2>2. "resolver" \in Labels
    BY <2>1 DEF Labels
  <2>3. chain.token["resolver"] = Owner
    BY <1>3, <2>1 DEF Statement, WiredInv, LentOK, Available
  <2> QED
    BY <2>2, <2>3 DEF Statement, RolloutInv, NamesOK, Nodes
<1>7. /\ GoesOn => \A k : Beyond(s, k)' => ~(mem'.fresh /\ pc' \in 2 .. k)
      /\ Throw => \A k : ~Did(s, k)'
  BY <1>1, Advancing
<1>8. ASSUME NEW R, NEW P, Leaves({}, {s}, {}, R, P, {}), R \subseteq {"resolver"},
             P \subseteq {"defaultResolver", "resolver"}, Present(s)', PublicResolverOK'
      PROVE  WiredInv'
  <2>1. "suffixes" \notin P /\ "etn." \notin R /\ "reverse." \notin R
    BY <1>8
  <2>2. {} \cap {"root.", "com.", "etn."} = {} /\ {} \subseteq Registrants
        /\ {"reverse.", "addr.reverse."} \cap {} = {}
    OBVIOUS
  <2> QED
    BY <1>1, <1>8, <2>1, <2>2, OwnScript
<1>9. ASSUME UNCHANGED <<chain, saved>>, Present(s)',
             \A k \in {2, 3, 4} : Beyond(s, k)' => Beyond(s, k)
      PROVE  WiredInv'
  <2>1. Leaves({}, {s}, {}, {}, {}, {})
    BY <1>9, Still
  <2>2. PublicResolverOK'
    BY <1>5, <1>9 DEF PublicResolverOK, Pointer, At
  <2> QED
    BY <1>8, <1>9, <2>1, <2>2
<1>10. CASE pc = 1
  <2>1. DeployClaiming(s, Arguments(s), chain)
    BY <1>4, <1>10, ArgumentsOf DEF DeployPublicResolver
  <2>2. CASE Throw /\ s \notin DOMAIN saved
    <3>1. UNCHANGED <<chain, saved>> /\ ~Did(s, 1)' /\ s \notin DOMAIN saved'
      BY <1>7, <2>2 DEF Throw
    <3> QED
      BY <1>9, <3>1 DEF Present, Beyond
  <2>3. CASE Create(s, Arguments(s), chain)
    <3>1. /\ Leaves({}, {s}, {}, {}, {}, {}) /\ Present(s)'
          /\ s \in DOMAIN saved => UNCHANGED <<saved, chain>>
          /\ \A k \in Nat : k > 1 => (Beyond(s, k)' => s \in DOMAIN saved /\ Beyond(s, k))
      <4>1. Touches(chain, {}, {}, {}, {}, {})
        BY Untouched
      <4> QED
        BY <1>1, <1>10, <2>3, <4>1, Deploying
    <3>2. \A k \in {2, 3, 4} : Beyond(s, k)' => s \in DOMAIN saved /\ Beyond(s, k)
      BY <3>1
    <3>3. PublicResolverOK'
      BY <1>5, <3>1, <3>2 DEF PublicResolverOK, Pointer, At
    <3> QED
      BY <1>8, <3>1, <3>3
  <2>4. s \in DOMAIN saved => saved[s].args = Arguments(s)
    BY <1>1 DEF Statement, WiredInv, RecordsOK
  <2> QED
    BY <2>1, <2>2, <2>3, <2>4 DEF DeployClaiming
<1>11. ASSUME pc > 1
       PROVE  /\ s \in DOMAIN saved /\ At(s) = Sole(s)
              /\ \A k : Beyond(s, k) <=> ~(mem.fresh /\ pc \in 2 .. k)
              /\ \A R, P : Leaves({}, {s}, {}, R, P, {}) => Present(s)'
  BY <1>1, <1>11, OnceDeployed DEF Beyond
<1>12. CASE pc = 2 /\ ~mem.fresh
  <2>1. Return(FALSE)
    <3>1. pc # 1 /\ pc # 3 /\ pc # 4 /\ pc # 5
      BY <1>12
    <3> QED
      BY <1>12, <3>1, Zenon DEF DeployPublicResolver
  <2>2. UNCHANGED <<chain, saved>>
    BY <2>1 DEF Return
  <2> QED
    BY <1>9, <1>11, <1>12, <2>2, Still
<1>13. CASE pc = 2 /\ mem.fresh
  <2> DEFINE settled == Pointer(At(reverse), "defaultResolver") = At(s)
             after   == SetPointer(At(reverse), "defaultResolver", At(s))
  <2>1. SendUnless(settled, OwnedBy(reverse, Owner), after)
    <3>1. pc # 1 /\ pc # 3 /\ pc # 4 /\ pc # 5
      BY <1>13
    <3> QED
      BY <1>3, <1>13, <3>1, Zenon DEF DeployPublicResolver
  <2>2. /\ UNCHANGED <<saved, mem>> /\ (pc' = pc + 1) /\ GoesOn
        /\ (settled /\ UNCHANGED chain) \/ (~settled /\ chain' = after)
    <3> HIDE DEF settled, after
    <3> QED
      BY <1>5, <2>1, GoingOn, Zenon
  <2>3. Leaves({}, {s}, {}, {}, {"defaultResolver"}, {})
    <3>1. Touches(after, {} \cup ({s} \ Lasting), {}, {}, {"defaultResolver"}, {})
      BY Touching DEF Statement
    <3> QED
      BY <2>2, <3>1, Sent
  <2>4. Pointer(At(reverse), "defaultResolver")' = At(s)
    BY <2>2 DEF SetPointer, Pointer, Put, Statement, RolloutInv, ChainOK, At
  <2>5. PublicResolverOK'
    <3>1. ~Beyond(s, 3)' /\ ~Beyond(s, 4)'
      BY <1>7, <1>13, <2>2
    <3>2. At(s)' = At(s) /\ reverse \in DOMAIN saved'
      BY <1>4, <2>2 DEF At
    <3> QED
      BY <2>4, <3>1, <3>2 DEF PublicResolverOK
  <2> QED
    BY <1>8, <1>11, <1>13, <2>3, <2>5
<1>14. CASE pc = 3
  <2> DEFINE settled == chain.resolver["resolver"] = At(s)
             after   == SetResolver("resolver", At(s))
  <2>1. SendUnless(settled, TRUE, after)
    <3>1. pc # 1 /\ pc # 2 /\ pc # 4 /\ pc # 5
      BY <1>14
    <3> QED
      BY <1>6, <3>1, Zenon DEF DeployPublicResolver
  <2>2. /\ UNCHANGED <<saved, mem>> /\ (pc' = pc + 1) /\ GoesOn
        /\ (settled /\ UNCHANGED chain) \/ (~settled /\ chain' = after)
    <3> HIDE DEF settled, after
    <3> QED
      BY <2>1, GoingOn, Zenon
  <2>3. Leaves({}, {s}, {}, {"resolver"}, {}, {})
    <3>1. Touches(after, {} \cup ({s} \ Lasting), {}, {"resolver"}, {}, {})
      BY Touching DEF Statement
    <3> QED
      BY <2>2, <3>1, Sent
  <2>4. PublicResolverOK'
    <3>1. Beyond(s, 2) /\ (Beyond(s, 4)' => Beyond(s, 4))
      BY <1>7, <1>11, <1>14, <2>2
    <3>2. At(s)' = At(s) /\ At(reverse)' = At(reverse) /\ reverse \in DOMAIN saved'
          /\ chain'.points = chain.points
      BY <1>4, <2>2 DEF At, SetResolver, Statement, RolloutInv, ChainOK
    <3>3. chain'.resolver["resolver"] = At(s)
      BY <1>6, <2>2 DEF SetResolver, Statement, RolloutInv, ChainOK
    <3> QED
      BY <1>5, <3>1, <3>2, <3>3 DEF PublicResolverOK, Pointer
  <2> QED
    BY <1>8, <1>11, <1>14, <2>3, <2>4
<1>15. CASE pc = 4
  <2> DEFINE settled == Pointer(At(s), "resolver") = At(s)
             allowed == chain.node["resolver"] = Owner
             after   == SetPointer(At(s), "resolver", At(s))
  <2>1. SendUnless(settled, allowed, after)
    <3>1. pc # 1 /\ pc # 2 /\ pc # 3 /\ pc # 5
      BY <1>15
    <3> QED
      BY <3>1, Zenon DEF DeployPublicResolver
  <2>2. allowed
    BY <1>6
  <2>3. /\ UNCHANGED <<saved, mem>> /\ (pc' = pc + 1) /\ GoesOn
        /\ (settled /\ UNCHANGED chain) \/ (~settled /\ chain' = after)
    <3> HIDE DEF settled, allowed, after
    <3> QED
      BY <2>1, <2>2, GoingOn, Zenon
  <2>4. Leaves({}, {s}, {}, {}, {"resolver"}, {})
    <3>1. Touches(after, {} \cup ({s} \ Lasting), {}, {}, {"resolver"}, {})
      BY Touching DEF Statement
    <3> QED
      BY <2>3, <3>1, Sent
  <2>5. PublicResolverOK'
    <3>1. Beyond(s, 2) /\ Beyond(s, 3)
      BY <1>11, <1>15
    <3>2. At(s)' = At(s) /\ At(reverse)' = At(reverse) /\ reverse \in DOMAIN saved'
          /\ chain'.resolver = chain.resolver
      BY <1>4, <2>3 DEF At, SetPointer, Statement, RolloutInv, ChainOK
    <3>3. /\ Pointer(At(s), "resolver")' = At(s)
          /\ Pointer(At(reverse), "defaultResolver")' = Pointer(At(reverse), "defaultResolver")
      BY <2>3, <3>2 DEF SetPointer, Pointer, Put, Statement, RolloutInv, ChainOK
    <3> QED
      BY <1>5, <3>1, <3>2, <3>3 DEF PublicResolverOK
  <2> QED
    BY <1>8, <1>11, <1>15, <2>4, <2>5
<1>16. CASE pc = 5
  <2>1. Return(FALSE)
    <3>1. pc # 1 /\ pc # 2 /\ pc # 3 /\ pc # 4
      BY <1>16
    <3> QED
      BY <3>1, Zenon DEF DeployPublicResolver
  <2>2. UNCHANGED <<chain, saved>>
    BY <2>1 DEF Return
  <2>3. Beyond(s, 2) /\ Beyond(s, 3) /\ Beyond(s, 4)
    BY <1>11, <1>16
  <2> QED
    BY <1>9, <1>11, <1>16, <2>2, <2>3, Still
<1>17. pc = 1 \/ pc = 2 \/ pc = 3 \/ pc = 4 \/ pc = 5
  BY Zenon DEF DeployPublicResolver
<1> QED
  BY <1>10, <1>12, <1>13, <1>14, <1>15, <1>16, <1>17

-----------------------------------------------------------------------------
(* The scripts whose contracts are not their namesakes. *)

OtherScript == {"ENSRegistry", "ExponentialPremiumPriceOracle", "Root:setup", "SetTlds",
                "Multicall3", "UniversalSigValidator", "BaseRegistrarImplementation:setup"}
OtherContract == {"LegacyENSRegistry", "ENSRegistry", "OwnedUsdOracle", "DummyOracle",
                  "ExponentialPremiumPriceOracle", "Multicall3", "UniversalSigValidator"}

LEMMA OtherSteps ==
  ASSUME Statement, NEW s \in OtherScript, Runs(s), NEW C, NEW D, NEW N,
         Leaves(C, D, N, {}, {}, {}), D \subseteq OtherContract,
         C \subseteq {"Root", "BaseRegistrarImplementation", "OwnedUsdOracle", "DummyOracle"},
         {"reverse.", "addr.reverse."} \cap N = {},
         {"OwnedUsdOracle", "DummyOracle"} \cap (C \cup D) # {} => s = "ExponentialPremiumPriceOracle",
         {"Multicall3", "UniversalSigValidator"} \cap D # {}
           => s \in {"Multicall3", "UniversalSigValidator"},
         Return(TRUE) => s # "SetTlds",
         s \in {"ENSRegistry", "ExponentialPremiumPriceOracle"} => PresentOK',
         s = "ExponentialPremiumPriceOracle" => FeedOK',
         "Root" \in C => HolderOK("Root")',
         s = "Root:setup" \/ "Root" \in C \/ "root." \in N => RootOK',
         s \in {"Multicall3", "UniversalSigValidator"} => SharedOK',
         s = "SetTlds" \/ "com." \in N => TldsOK',
         s = "BaseRegistrarImplementation:setup" => RegistrarOK',
         "BaseRegistrarImplementation" \in C \/ "etn." \in N => RegistrarOK'
  PROVE  WiredInv'
<1>1. /\ \A t : t # s => ~Runs(t)
      /\ \A t \in OwnName \cup LegacyName \cup HandedBehind \cup Held : t # s
      /\ \A t \in {"ReservedNames", "InfrastructureNames", "SimplePublicSuffixList"} : t # s
  BY DEF Runs, OtherScript, OwnName, LegacyName, HandedBehind, Held
<1>2. /\ \A c \in HandedBehind : c \notin C /\ c \notin D
      /\ \A c \in Held : c \notin D /\ (c # "Root" => c \notin C)
      /\ \A c \in OwnName \cup LegacyName : c \notin D
      /\ "DNSRegistrar" \notin D
  BY DEF OtherContract, OwnName, LegacyName, HandedBehind, Held
<1>3. NamedOK' /\ LegacyOK'
  <2>1. \A t \in LegacyName : ~Runs(t)
    BY <1>1
  <2>2. LegacyOK'
    BY <2>1, Keeping
  <2> QED
    BY <1>1, <2>2, Keeping DEF NamedOK
<1>4. HandedOK'
  BY <1>1, <1>2, Keeping DEF HandedOK
<1>5. OwnersOK'
  <2>1. \A c \in Held : c \notin C => HolderOK(c)'
    BY <1>1, <1>2, Keeping
  <2> QED
    BY <1>2, <2>1 DEF OwnersOK
<1>6. OrderlyOK' /\ RecordsOK'
  <2>1. Return(TRUE) => ~Runs("SetTlds")
    BY <1>1
  <2> QED
    BY <2>1, Keeping
<1>7. PresentOK' /\ FeedOK'
  <2>1. CASE s = "ExponentialPremiumPriceOracle"
    BY <2>1
  <2>2. CASE s # "ExponentialPremiumPriceOracle"
    <3>1. /\ ~Runs("ExponentialPremiumPriceOracle")
          /\ {"OwnedUsdOracle", "DummyOracle"} \cap (C \cup D) = {}
          /\ {"OwnedUsdOracle", "DummyOracle"} \cap D = {}
          /\ s # "ENSRegistry" => ~Runs("ENSRegistry")
      BY <1>1, <2>2
    <3> QED
      BY <3>1, Keeping
  <2> QED
    BY <2>1, <2>2
<1>8. RootOK' /\ SuffixesOK'
  <2>1. s # "Root:setup" => ~Runs("Root:setup")
    BY <1>1
  <2>2. ~Runs("SimplePublicSuffixList") /\ "SimplePublicSuffixList" \notin D
    BY <1>1, <1>2 DEF HandedBehind
  <2> QED
    BY <2>1, <2>2, Keeping
<1>9. SharedOK'
  <2>1. CASE s \notin {"Multicall3", "UniversalSigValidator"}
    <3>1. ~Runs("Multicall3") /\ ~Runs("UniversalSigValidator")
          /\ {"Multicall3", "UniversalSigValidator"} \cap D = {}
      BY <1>1, <2>1
    <3> QED
      BY <3>1, Keeping
  <2> QED
    BY <2>1
<1>10. TldsOK' /\ RegistrarOK'
  <2>1. /\ s # "SetTlds" => ~Runs("SetTlds")
        /\ s # "BaseRegistrarImplementation:setup" => ~Runs("BaseRegistrarImplementation:setup")
    BY <1>1
  <2> QED
    BY <1>2, <2>1, Keeping
<1>11. ControllersOK' /\ NoOthers' /\ LentOK' /\ LaunchOK' /\ HandoverOK'
  <2>1. {"BaseRegistrarImplementation", "ReverseRegistrar", "DefaultReverseRegistrar"} \subseteq Lasting
    BY DEF Lasting, OwnName
  <2>2. ControllersOK
    BY DEF Statement, WiredInv
  <2>3. \A c \in {"NameWrapper", "WrappedETHRegistrarController", "ETHRegistrarController",
                  "LegacyETHRegistrarController"} : ~Runs(c) /\ c \notin D
    BY <1>1, <1>2 DEF OwnName, LegacyName
  <2>4. ~Runs("ReservedNames") /\ ~Runs("InfrastructureNames") /\ Owner \notin {} /\ {} \subseteq Registrants
    BY <1>1
  <2>5. ControllersOK'
    BY <2>1, <2>2, <2>3, KeepingRoles, {3, 4, 5} \subseteq Nat \ {0} DEF ControllersOK
  <2> QED
    BY <2>4, <2>5, KeepingRoles
<1>12. ReverseOK' /\ TldResolverOK' /\ WrapperOK' /\ PublicResolverOK' /\ ReverseResolverOK'
  <2>1. \A c \in {"ReverseRegistrar", "OwnedResolver", "NameWrapper", "PublicResolver",
                  "DefaultReverseResolver"} : ~Runs(c) /\ c \notin D
    BY <1>1, <1>2 DEF OwnName
  <2>2. {"defaultResolver", "resolver"} \cap {} = {}
    OBVIOUS
  <2> QED
    BY <2>1, <2>2, KeepingNodes
<1> QED
  BY <1>3, <1>4, <1>5, <1>6, <1>7, <1>8, <1>9, <1>10, <1>11, <1>12 DEF WiredInv

LEMMA RegistryScript ==
  ASSUME Statement, Control, DeployRegistry PROVE WiredInv'
<1> DEFINE s == "ENSRegistry"
           predecessor == "LegacyENSRegistry"
<1> USE DEF Statement
<1>1. /\ Runs(s) /\ s \in OtherScript /\ s \in Scripts /\ pc \in 1 .. 4 /\ Tag("use_root")
      /\ s \in Lasting /\ predecessor \in Lasting /\ s \in OtherContract /\ predecessor \in OtherContract
  <2>1. Runs(s) /\ pc \in 1 .. 4
    <3>1. Runs(s) /\ (pc = 1 \/ pc = 2 \/ pc = 3 \/ pc = 4)
      BY Zenon DEF DeployRegistry
    <3> QED
      BY <3>1
  <2>2. Tag("use_root") /\ s \in Scripts
    BY ScriptNames, WholeNetwork
  <2>3. /\ s \in OtherScript /\ s \in OtherContract /\ predecessor \in OtherContract
        /\ s \in Lasting /\ predecessor \in Lasting
    BY DEF OtherScript, Lasting, OtherContract
  <2> QED
    BY <2>1, <2>2, <2>3
<1>2. /\ \A k : Did(s, k) <=> pc > k
      /\ GoesOn => \A k : Did(s, k)' <=> pc' > k
  BY <1>1, Advancing
<1>3. /\ Tag("legacy") /\ Did(s, 1) => predecessor \in DOMAIN saved
      /\ Did(s, 2) => s \in DOMAIN saved
  BY DEF WiredInv, PresentOK
<1>4. ASSUME NEW D, NEW N, Leaves({}, D, N, {}, {}, {}), D \subseteq {s, predecessor},
             N \subseteq {"root."}, "root." \in N => RootOK',
             Tag("legacy") /\ Did(s, 1)' => predecessor \in DOMAIN saved',
             Did(s, 2)' => s \in DOMAIN saved'
      PROVE  WiredInv'
  <2>1. /\ Feed' = Feed /\ HasFeed' = HasFeed /\ \A t : Tag(t)' = Tag(t)
    BY Constant
  <2>2. \A k \in {1, 3} : Did("ExponentialPremiumPriceOracle", k)' => Did("ExponentialPremiumPriceOracle", k)
    BY <1>1, Standing, ScriptNames, {1, 3} \subseteq Nat \ {0} DEF Runs
  <2>3. DOMAIN saved \subseteq DOMAIN saved' /\ (Feed \in DOMAIN saved' => Feed \in DOMAIN saved)
    BY <1>4, Keeps DEF Feed
  <2>4. PresentOK'
    BY <1>4, <2>1, <2>2, <2>3 DEF WiredInv, PresentOK
  <2>5. /\ D \subseteq OtherContract /\ {"reverse.", "addr.reverse."} \cap N = {}
        /\ {"OwnedUsdOracle", "DummyOracle"} \cap ({} \cup D) = {}
        /\ {"Multicall3", "UniversalSigValidator"} \cap D = {}
        /\ "com." \notin N /\ "etn." \notin N
        /\ {} \subseteq {"Root", "BaseRegistrarImplementation", "OwnedUsdOracle", "DummyOracle"}
    BY <1>1, <1>4
  <2> QED
    BY <1>1, <1>4, <2>4, <2>5, OtherSteps
<1>5. CASE pc = 1
  <2>1. /\ Tag("legacy") => Deploy(predecessor, << >>)
        /\ ~Tag("legacy") => Skip
    BY <1>5 DEF DeployRegistry
  <2>2. CASE ~Tag("legacy")
    <3>1. UNCHANGED <<chain, saved>> /\ (pc' = 2) /\ GoesOn
      BY <1>5, <2>1, <2>2 DEF Skip, Goto, GoesOn, RolloutInv, MemOK
    <3>2. Leaves({}, {}, {}, {}, {}, {})
      BY <3>1, Still
    <3>3. ~Did(s, 2)'
      BY <1>2, <3>1
    <3> QED
      BY <1>4, <2>2, <3>2, <3>3
  <2>3. CASE Tag("legacy")
    <3>1. Arguments(predecessor) = << >>
      BY DEF Arguments
    <3>2. Create(predecessor, Arguments(predecessor), Constructed(predecessor, Deployer))
      BY <2>1, <2>3, <3>1 DEF Deploy
    <3>3. /\ Deploys({predecessor}) /\ (pc' = pc + 1) /\ predecessor \in DOMAIN saved'
          /\ IF predecessor \in DOMAIN saved THEN UNCHANGED <<saved, chain>> /\ ~mem'.fresh
             ELSE (chain' = Constructed(predecessor, Deployer)) /\ mem'.fresh
      BY <1>1, <3>2, Lasts
    <3>4. Touches(chain', {} \cup ({predecessor} \ Lasting), {}, {}, {}, {})
      <4>1. predecessor \notin DOMAIN saved => Touches(Constructed(predecessor, Deployer), {}, {}, {}, {}, {})
        BY Built
      <4>2. {} \cup ({predecessor} \ Lasting) = {}
        BY <1>1
      <4> QED
        BY <3>3, <4>1, <4>2, Untouched
    <3>5. Leaves({}, {predecessor}, {}, {}, {}, {})
      BY <3>3, <3>4 DEF Leaves
    <3>6. GoesOn
      BY <1>5, <3>3 DEF Control, Throw, Return
    <3>7. ~Did(s, 2)'
      BY <1>2, <1>5, <3>3, <3>6
    <3> QED
      BY <1>4, <3>3, <3>5, <3>7
  <2> QED
    BY <2>2, <2>3
<1>6. CASE pc = 2
  <2>1. Tag("legacy") => At(predecessor) = Sole(predecessor)
    BY <1>1, <1>2, <1>3, <1>6, Addresses
  <2>2. Create(s, Arguments(s), SetNode("root.", Deployer))
    <3>1. Create(s, IF Tag("legacy") THEN <<At(predecessor)>> ELSE << >>, SetNode("root.", Deployer))
      BY <1>6 DEF DeployRegistry
    <3>2. Arguments(s) = IF Tag("legacy") THEN <<Sole(predecessor)>> ELSE << >>
      BY DEF Arguments
    <3> QED
      BY <2>1, <3>1, <3>2
  <2>3. /\ Deploys({s}) /\ (pc' = pc + 1) /\ s \in DOMAIN saved'
        /\ IF s \in DOMAIN saved THEN UNCHANGED <<saved, chain>> /\ ~mem'.fresh
           ELSE (chain' = SetNode("root.", Deployer)) /\ mem'.fresh
    BY <1>1, <2>2, Lasts
  <2>4. predecessor \in DOMAIN saved => predecessor \in DOMAIN saved'
    BY <2>3 DEF Deploys
  <2>5. CASE s \in DOMAIN saved
    <3>1. Leaves({}, {}, {}, {}, {}, {})
      BY <2>3, <2>5, Still
    <3> QED
      BY <1>2, <1>3, <1>4, <1>6, <2>3, <2>4, <3>1
  <2>6. CASE s \notin DOMAIN saved
    <3>1. Touches(chain', {} \cup ({s} \ Lasting), {"root."}, {}, {}, {})
      <4>1. {} \cup ({s} \ Lasting) = {}
        BY <1>1
      <4>2. Touches(SetNode("root.", Deployer), {}, {"root."}, {}, {}, {})
        BY Touching
      <4> QED
        BY <2>3, <2>6, <4>1, <4>2
    <3>2. Leaves({}, {s}, {"root."}, {}, {}, {})
      BY <2>3, <3>1 DEF Leaves
    <3>3. RootOK'
      <4>1. ~Did("Root:setup", 1)
        BY <2>6 DEF WiredInv, RootOK
      <4>2. \A k \in {1, 2, 3} : Did("Root:setup", k)' => Did("Root:setup", k)
        BY <1>1, Standing, ScriptNames, {1, 2, 3} \subseteq Nat \ {0} DEF Runs
      <4>3. \A k \in {1, 2, 3} : Did("Root:setup", k) => Did("Root:setup", 1)
        BY DEF Did, RolloutInv, RunOK
      <4> QED
        BY <4>1, <4>2, <4>3 DEF RootOK
    <3> QED
      BY <1>2, <1>3, <1>4, <1>6, <2>3, <2>4, <3>2, <3>3
  <2> QED
    BY <2>5, <2>6
<1>7. CASE pc \in {3, 4}
  <2>1. UNCHANGED <<chain, saved>>
    BY <1>1, <1>7 DEF DeployRegistry, SendUnless, Skip, Goto, Return
  <2>2. Leaves({}, {}, {}, {}, {}, {})
    BY <2>1, Still
  <2> QED
    BY <1>2, <1>3, <1>4, <1>7, <2>1, <2>2
<1> QED
  BY <1>1, <1>5, <1>6, <1>7

LEMMA OracleScript ==
  ASSUME Statement, Control, DeployPriceOracle PROVE WiredInv'
<1> DEFINE s == "ExponentialPremiumPriceOracle"
           value == IF Tag("owned_oracle") THEN env.price ELSE "160000000000"
<1> USE DEF Statement
<1>1. /\ Runs(s) /\ (pc = 1 \/ pc = 2 \/ pc = 3 \/ pc = 4)
      /\ pc = 1 => IF HasFeed THEN Deploy(Feed, <<value>>) ELSE Skip
      /\ pc = 2 => IF Tag("owned_oracle") /\ mem.fresh THEN HandOver(Feed) ELSE Skip
      /\ pc = 3 => Deploy(s, <<At(Feed)>>)
      /\ pc = 4 => Return(FALSE)
  <2>1. /\ (pc = 1 => pc # 2 /\ pc # 3 /\ pc # 4) /\ (pc = 2 => pc # 1 /\ pc # 3 /\ pc # 4)
        /\ (pc = 3 => pc # 1 /\ pc # 2 /\ pc # 4) /\ (pc = 4 => pc # 1 /\ pc # 2 /\ pc # 3)
    OBVIOUS
  <2> QED
    BY <2>1, Zenon DEF DeployPriceOracle, Feed, HasFeed
<1>2. s \in OtherScript /\ s \in Scripts /\ s \in Lasting /\ s \in OtherContract
  BY ScriptNames DEF OtherScript, Lasting, OtherContract
<1>3. /\ Feed \in {"OwnedUsdOracle", "DummyOracle"} /\ Feed \in Lasting /\ Feed \in OtherContract
      /\ Feed # s
  BY DEF Feed, Lasting, OtherContract
<1>4. /\ \A k : Did(s, k) <=> pc > k
      /\ GoesOn => Runs(s)' /\ \A k : Did(s, k)' <=> pc' > k
      /\ Return(FALSE) => ~Runs(s)'
  BY <1>1, <1>2, Advancing
<1>5. /\ Owner' = Owner /\ Feed' = Feed /\ HasFeed' = HasFeed /\ \A t : Tag(t)' = Tag(t)
  BY Constant
<1>6. /\ HasFeed /\ Did(s, 1) => Feed \in DOMAIN saved
      /\ Did(s, 3) => s \in DOMAIN saved
      /\ Feed \in DOMAIN saved => HasFeed
      /\ Tag("owned_oracle") /\ Feed \in DOMAIN saved =>
           OwnedBy(Feed, IF HandsFeedOver THEN Deployer ELSE Owner)
  BY DEF WiredInv, PresentOK, FeedOK
<1>7. ASSUME NEW C, NEW D, Leaves(C, D, {}, {}, {}, {}), D \subseteq {s, Feed}, C \subseteq {Feed},
             HasFeed /\ Did(s, 1)' => Feed \in DOMAIN saved', Did(s, 3)' => s \in DOMAIN saved',
             Feed \in DOMAIN saved' => HasFeed, FeedOK'
      PROVE  WiredInv'
  <2>1. \A k \in {1, 2} : Did("ENSRegistry", k)' => Did("ENSRegistry", k)
    BY <1>1, Standing, ScriptNames, {1, 2} \subseteq Nat \ {0} DEF Runs
  <2>2. DOMAIN saved \subseteq DOMAIN saved'
    BY <1>7, Keeps
  <2>3. PresentOK'
    BY <1>5, <1>7, <2>1, <2>2 DEF WiredInv, PresentOK
  <2>4. /\ D \subseteq OtherContract /\ {"reverse.", "addr.reverse."} \cap {} = {}
        /\ {"Multicall3", "UniversalSigValidator"} \cap D = {}
        /\ "com." \notin {} /\ "etn." \notin {} /\ "root." \notin {}
        /\ C \subseteq {"Root", "BaseRegistrarImplementation", "OwnedUsdOracle", "DummyOracle"}
        /\ "Root" \notin C /\ "BaseRegistrarImplementation" \notin C
    BY <1>2, <1>3, <1>7
  <2> QED
    BY <1>1, <1>2, <1>7, <2>3, <2>4, OtherSteps
<1>8. \A what \in {s, Feed} :
        /\ {} \cup ({what} \ Lasting) = {} /\ {what} \cup ({what} \ Lasting) = {what}
        /\ what \notin DOMAIN saved => Touches(Constructed(what, Deployer), {}, {}, {}, {}, {})
  BY <1>2, <1>3, Built
<1>9. UNCHANGED <<chain, saved>> /\ ~HandsFeedOver /\ ~HandsFeedOver' => FeedOK'
  BY <1>5, <1>6 DEF FeedOK, OwnedBy, At
<1>10. CASE pc = 1
  <2>1. ~HandsFeedOver
    BY <1>10 DEF HandsFeedOver
  <2>2. CASE ~HasFeed
    <3>1. UNCHANGED <<chain, saved, mem>> /\ (pc' = 2) /\ GoesOn /\ ~mem.fresh
      BY <1>1, <1>10, <2>2 DEF Skip, Goto, GoesOn, RolloutInv, MemOK, NoLocals
    <3>2. Leaves({}, {}, {}, {}, {}, {})
      BY <3>1, Still
    <3>3. ~Did(s, 3)' /\ ~HandsFeedOver'
      BY <1>4, <3>1 DEF HandsFeedOver
    <3> QED
      BY <1>6, <1>7, <1>9, <2>1, <2>2, <3>1, <3>2, <3>3
  <2>3. CASE HasFeed
    <3>1. Create(Feed, Arguments(Feed), Constructed(Feed, Deployer))
      <4>1. Create(Feed, <<value>>, Constructed(Feed, Deployer))
        BY <1>1, <1>10, <2>3 DEF Deploy
      <4>2. env.price = Price
        BY <1>1, WholeNetwork DEF WiredInv, OrderlyOK, RolloutInv, RunOK, Runs
      <4>3. Arguments(Feed) = <<value>>
        BY <4>2 DEF Arguments, Feed
      <4> QED
        BY <4>1, <4>3
    <3>2. /\ Deploys({Feed}) /\ (pc' = 2) /\ Feed \in DOMAIN saved' /\ (saved'[Feed].at = Sole(Feed))
          /\ IF Feed \in DOMAIN saved THEN UNCHANGED <<saved, chain>> /\ ~mem'.fresh
             ELSE (chain' = Constructed(Feed, Deployer)) /\ mem'.fresh
      <4>1. /\ Deploys({Feed}) /\ (pc' = pc + 1) /\ Feed \in DOMAIN saved'
            /\ (saved'[Feed].at = Sole(Feed))
            /\ IF Feed \in DOMAIN saved THEN UNCHANGED <<saved, chain>> /\ ~mem'.fresh
               ELSE (chain' = Constructed(Feed, Deployer)) /\ mem'.fresh
        <5>1. Feed # "NameWrapper"
          BY <1>3
        <5> QED
          BY <1>3, <3>1, <5>1, Lasts
      <4> QED
        BY <1>10, <4>1
    <3>3. Leaves({}, {Feed}, {}, {}, {}, {})
      <4>1. Touches(chain', {} \cup ({Feed} \ Lasting), {}, {}, {}, {})
        BY <1>8, <3>2, Untouched
      <4> QED
        BY <3>2, <4>1 DEF Leaves
    <3>4. GoesOn
      BY <3>2 DEF Control, Throw, Return
    <3>5. ~Did(s, 3)' /\ Runs(s)'
      BY <1>4, <3>2, <3>4
    <3>6. FeedOK'
      <4>1. CASE Feed \in DOMAIN saved
        <5>1. ~HandsFeedOver'
          BY <3>2, <4>1 DEF HandsFeedOver
        <5> QED
          BY <1>9, <2>1, <3>2, <4>1, <5>1
      <4>2. CASE Feed \notin DOMAIN saved
        <5>1. HandsFeedOver'
          BY <3>2, <3>5, <4>2 DEF HandsFeedOver
        <5>2. NewAt(Feed) = Sole(Feed) /\ (At(Feed)' = Sole(Feed))
          <6>1. NewAt(Feed) = Sole(Feed)
            BY <4>2 DEF NewAt, At, Sole, Nobody
          <6>2. At(Feed)' = saved'[Feed].at
            BY <1>5, <3>2 DEF At
          <6> QED
            BY <3>2, <6>1, <6>2
        <5>3. chain'.owner = Put(chain.owner, NewAt(Feed), Deployer)
          BY <3>2, <4>2 DEF Constructed, RolloutInv, ChainOK
        <5>4. OwnedBy(Feed, Deployer)'
          BY <5>2, <5>3 DEF OwnedBy, Put, Deployer
        <5> QED
          BY <1>5, <5>1, <5>4 DEF FeedOK, Deployer
      <4> QED
        BY <4>1, <4>2
    <3>7. {} \subseteq {Feed} /\ {Feed} \subseteq {s, Feed}
      OBVIOUS
    <3> QED
      BY <1>7, <2>3, <3>2, <3>3, <3>5, <3>6, <3>7
  <2> QED
    BY <2>2, <2>3
<1>11. CASE pc = 2
  <2>1. ASSUME NEW C, C \subseteq {Feed}, Leaves(C, {}, {}, {}, {}, {}), FeedOK', UNCHANGED saved,
               pc' = 3, GoesOn
        PROVE  WiredInv'
    <3>1. ~Did(s, 3)'
      BY <1>4, <2>1
    <3>2. HasFeed => Feed \in DOMAIN saved
      BY <1>4, <1>6, <1>11
    <3> QED
      BY <1>6, <1>7, <2>1, <3>1, <3>2
  <2>2. ASSUME UNCHANGED <<chain, saved>>, pc' = 3, GoesOn,
               Tag("owned_oracle") /\ mem.fresh => Owner = Deployer
        PROVE  WiredInv'
    <3>1. FeedOK'
      <4>1. ~HandsFeedOver'
        BY <2>2 DEF HandsFeedOver
      <4>2. Tag("owned_oracle") /\ Feed \in DOMAIN saved => OwnedBy(Feed, Owner)
        BY <1>6, <2>2 DEF HandsFeedOver
      <4> QED
        BY <1>5, <2>2, <4>1, <4>2 DEF FeedOK, OwnedBy, At
    <3>2. Leaves({}, {}, {}, {}, {}, {})
      BY <2>2, Still
    <3> QED
      BY <2>1, <2>2, <3>1, <3>2
  <2>3. CASE ~(Tag("owned_oracle") /\ mem.fresh)
    <3>1. UNCHANGED <<chain, saved>> /\ (pc' = 3) /\ GoesOn
      BY <1>1, <1>11, <2>3 DEF Skip, Goto, GoesOn, RolloutInv, MemOK
    <3> QED
      BY <2>2, <2>3, <3>1
  <2>4. CASE Tag("owned_oracle") /\ mem.fresh
    <3>1. OwnedBy(Feed, Deployer) /\ Feed \in DOMAIN saved
      <4>1. HandsFeedOver
        BY <1>1, <1>11, <2>4 DEF HandsFeedOver
      <4>2. HasFeed
        BY <2>4 DEF HasFeed
      <4> QED
        BY <1>4, <1>6, <1>11, <2>4, <4>1, <4>2
    <3>2. /\ UNCHANGED <<saved, mem>> /\ GoesOn /\ (pc' = 3)
          /\ \/ Owner = Deployer /\ UNCHANGED chain
             \/ Owner # Deployer /\ chain' = SetOwner(Feed, Owner)
      <4>1. SendUnless(Owner = Deployer, OwnedBy(Feed, Deployer), SetOwner(Feed, Owner))
        BY <1>1, <1>11, <2>4 DEF HandOver
      <4>2. /\ UNCHANGED <<saved, mem>> /\ (pc' = pc + 1) /\ GoesOn
            /\ \/ Owner = Deployer /\ UNCHANGED chain
               \/ Owner # Deployer /\ chain' = SetOwner(Feed, Owner)
        BY <3>1, <4>1, GoingOn, Zenon
      <4> QED
        BY <1>11, <4>2
    <3>3. CASE Owner = Deployer /\ UNCHANGED chain
      BY <2>2, <3>2, <3>3
    <3>4. CASE chain' = SetOwner(Feed, Owner)
      <4>1. FeedOK'
        <5>1. At(Feed) \in DOMAIN chain.owner /\ At(Feed)' = At(Feed)
          BY <1>5, <3>1, <3>2 DEF OwnedBy, At
        <5>2. chain'.owner = [chain.owner EXCEPT ![At(Feed)] = Owner]
          BY <3>4 DEF SetOwner, RolloutInv, ChainOK
        <5>3. OwnedBy(Feed, Owner)'
          BY <1>5, <5>1, <5>2 DEF OwnedBy
        <5>4. ~HandsFeedOver'
          BY <3>2 DEF HandsFeedOver
        <5> QED
          BY <5>3, <5>4 DEF FeedOK
      <4>2. Leaves({Feed}, {}, {}, {}, {}, {})
        <5>1. Touches(SetOwner(Feed, Owner), {Feed} \cup ({} \ Lasting), {}, {}, {}, {})
          BY <3>1, Touching
        <5> QED
          BY <3>2, <3>4, <5>1, Sent
      <4> QED
        BY <2>1, <3>2, <4>1, <4>2
    <3> QED
      BY <3>2, <3>3, <3>4
  <2> QED
    BY <2>3, <2>4
<1>12. CASE pc = 3
  <2>1. Create(s, Arguments(s), Constructed(s, Deployer))
    <3>1. Create(s, <<At(Feed)>>, Constructed(s, Deployer))
      BY <1>1, <1>12 DEF Deploy
    <3>2. Arguments(s) = <<IF HasFeed THEN Sole(Feed) ELSE Nobody>>
      BY DEF Arguments
    <3>3. At(Feed) = IF HasFeed THEN Sole(Feed) ELSE Nobody
      <4>1. HasFeed => At(Feed) = Sole(Feed)
        BY <1>3, <1>4, <1>6, <1>12, Addresses
      <4>2. ~HasFeed => At(Feed) = Nobody
        BY <1>6 DEF At
      <4> QED
        BY <4>1, <4>2
    <3> QED
      BY <3>1, <3>2, <3>3
  <2>2. /\ Deploys({s}) /\ (pc' = pc + 1) /\ s \in DOMAIN saved'
        /\ IF s \in DOMAIN saved THEN UNCHANGED <<saved, chain>> /\ ~mem'.fresh
           ELSE (chain' = Constructed(s, Deployer)) /\ mem'.fresh
    BY <1>2, <2>1, Lasts
  <2>3. Leaves({}, {s}, {}, {}, {}, {})
    <3>1. Touches(chain', {} \cup ({s} \ Lasting), {}, {}, {}, {})
      BY <1>8, <2>2, Untouched
    <3> QED
      BY <2>2, <3>1 DEF Leaves
  <2>4. HasFeed => Feed \in DOMAIN saved'
    BY <1>4, <1>6, <1>12, <2>2 DEF Deploys
  <2>5. Feed \in DOMAIN saved' => Feed \in DOMAIN saved
    BY <1>3, <2>2 DEF Deploys
  <2>6. FeedOK'
    <3>1. ~HandsFeedOver /\ ~HandsFeedOver'
      BY <1>12, <2>2 DEF HandsFeedOver
    <3>2. \A who : Feed \in DOMAIN saved /\ OwnedBy(Feed, who) => OwnedBy(Feed, who)'
      BY <1>3, <1>5, <2>3, Keeps
    <3> QED
      BY <1>5, <1>6, <2>5, <3>1, <3>2 DEF FeedOK
  <2>7. {} \subseteq {Feed} /\ {s} \subseteq {s, Feed}
    OBVIOUS
  <2> QED
    BY <1>6, <1>7, <2>2, <2>3, <2>4, <2>5, <2>6, <2>7
<1>13. CASE pc = 4
  <2>1. UNCHANGED <<chain, saved>> /\ ~Runs(s)' /\ ~HandsFeedOver /\ ~HandsFeedOver'
    BY <1>1, <1>4, <1>13 DEF Return, HandsFeedOver
  <2>2. Leaves({}, {}, {}, {}, {}, {})
    BY <2>1, Still
  <2>3. Did(s, 1) /\ Did(s, 3)
    BY <1>4, <1>13
  <2> QED
    BY <1>6, <1>7, <1>9, <2>1, <2>2, <2>3
<1> QED
  BY <1>1, <1>10, <1>11, <1>12, <1>13

LEMMA SetupRootScript ==
  ASSUME Statement, Control, SetupRoot PROVE WiredInv'
<1> DEFINE s == "Root:setup"
<1> USE DEF Statement
<1>1. /\ Runs(s) /\ s \in OtherScript /\ s \in Scripts /\ Tag("use_root")
      /\ {"Root", "ENSRegistry"} \subseteq DOMAIN saved /\ At("Root") = Sole("Root")
      /\ "Root" \in Lasting /\ s # "SetTlds"
  <2>1. Runs(s)
    BY DEF SetupRoot
  <2>2. Behind("ENSRegistry") /\ Behind("Root")
    BY <2>1, InOrder
  <2> QED
    BY <2>1, <2>2, Addresses, ScriptNames, WholeNetwork DEF OtherScript, OwnName, Lasting
<1>2. /\ (pc = 1 \/ pc = 2 \/ pc = 3 \/ pc = 4 \/ pc = 5)
      /\ pc = 1 => SendUnless(chain.node["root."] = At("Root"),
                              chain.node["root."] = Deployer, SetNode("root.", At("Root")))
      /\ pc = 2 => IF OwnedBy("Root", Deployer) THEN Send(TRUE, SetOwner("Root", Owner))
                   ELSE IF OwnedBy("Root", Owner) THEN Skip ELSE Goto(5)
      /\ pc = 3 => SendUnless(IsController("Root", Owner), TRUE, AddController("Root", Owner))
      /\ pc = 4 => SendUnless(IsController("Root", At("RootSecurityController")), TRUE,
                              AddController("Root", At("RootSecurityController")))
      /\ pc = 5 => Return(TRUE)
  <2>1. /\ (pc = 1 => pc # 2 /\ pc # 3 /\ pc # 4 /\ pc # 5)
        /\ (pc = 2 => pc # 1 /\ pc # 3 /\ pc # 4 /\ pc # 5)
        /\ (pc = 3 => pc # 1 /\ pc # 2 /\ pc # 4 /\ pc # 5)
        /\ (pc = 4 => pc # 1 /\ pc # 2 /\ pc # 3 /\ pc # 5)
        /\ (pc = 5 => pc # 1 /\ pc # 2 /\ pc # 3 /\ pc # 4)
    OBVIOUS
  <2> QED
    BY <1>1, <2>1, Zenon DEF SetupRoot
<1>3. /\ \A k : Did(s, k) <=> pc > k
      /\ GoesOn => \A k : Did(s, k)' <=> pc' > k
      /\ Throw => \A k : ~Did(s, k)'
  BY <1>1, Advancing
<1>4. /\ Did(s, 1) => chain.node["root."] = At("Root")
      /\ Did(s, 2) => OwnedBy("Root", Owner)
      /\ Did(s, 3) => IsController("Root", Owner)
      /\ OwnedBy("Root", Deployer) \/ OwnedBy("Root", Owner)
  BY <1>1 DEF WiredInv, RootOK, OwnersOK, HolderOK, Held
<1>5. Owner' = Owner
  BY Constant
<1>6. ASSUME NEW C, NEW N, Leaves(C, {}, N, {}, {}, {}), C \subseteq {"Root"}, N \subseteq {"root."},
             "Root" \in C => OwnedBy("Root", Owner)',
             Did(s, 1)' => chain'.node["root."] = At("Root")',
             Did(s, 2)' => OwnedBy("Root", Owner)',
             Did(s, 3)' => IsController("Root", Owner)'
      PROVE  WiredInv'
  <2>1. RootOK'
    BY <1>1, <1>6, Keeps DEF RootOK
  <2>2. "Root" \in C => HolderOK("Root")'
    BY <1>6 DEF HolderOK
  <2>3. /\ {} \subseteq OtherContract /\ {"reverse.", "addr.reverse."} \cap N = {}
        /\ {"OwnedUsdOracle", "DummyOracle"} \cap (C \cup {}) = {}
        /\ {"Multicall3", "UniversalSigValidator"} \cap {} = {}
        /\ "com." \notin N /\ "etn." \notin N
        /\ C \subseteq {"Root", "BaseRegistrarImplementation", "OwnedUsdOracle", "DummyOracle"}
        /\ "BaseRegistrarImplementation" \notin C
    BY <1>6
  <2>4. /\ s # "ENSRegistry" /\ s # "ExponentialPremiumPriceOracle" /\ s # "Multicall3"
        /\ s # "UniversalSigValidator" /\ s # "BaseRegistrarImplementation:setup"
    OBVIOUS
  <2> QED
    BY <1>1, <1>6, <2>1, <2>2, <2>3, <2>4, OtherSteps
<1>7. At("Root")' = At("Root") \/ saved' # saved
  BY DEF At
<1>8. ASSUME UNCHANGED <<chain, saved>>,
             Did(s, 1)' => chain.node["root."] = At("Root"),
             Did(s, 2)' => OwnedBy("Root", Owner),
             Did(s, 3)' => IsController("Root", Owner)
      PROVE  WiredInv'
  <2>1. Leaves({}, {}, {}, {}, {}, {})
    BY <1>8, Still
  <2> QED
    BY <1>5, <1>6, <1>7, <1>8, <2>1 DEF OwnedBy, IsController
<1>9. CASE pc = 1
  <2>1. CASE Throw
    <3>1. UNCHANGED <<chain, saved>> /\ \A k : ~Did(s, k)'
      BY <1>3, <2>1 DEF Throw
    <3> QED
      BY <1>8, <3>1
  <2>2. CASE ~Throw
    <3>1. /\ UNCHANGED <<saved, mem>> /\ GoesOn /\ (pc' = 2)
          /\ \/ UNCHANGED chain /\ chain.node["root."] = At("Root")
             \/ chain' = SetNode("root.", At("Root"))
      <4>1. SendUnless(chain.node["root."] = At("Root"),
                       chain.node["root."] = Deployer, SetNode("root.", At("Root")))
        BY <1>2, <1>9
      <4>2. /\ UNCHANGED <<saved, mem>> /\ (pc' = 2)
            /\ \/ UNCHANGED chain /\ chain.node["root."] = At("Root")
               \/ chain' = SetNode("root.", At("Root"))
        BY <1>9, <2>2, <4>1 DEF SendUnless, Send, Tx, Skip, Goto
      <4>3. GoesOn
        BY <2>2, <4>2 DEF Control, Return
      <4> QED
        BY <4>2, <4>3
    <3>2. ~Did(s, 2)' /\ ~Did(s, 3)'
      BY <1>3, <3>1
    <3>3. CASE UNCHANGED chain /\ chain.node["root."] = At("Root")
      BY <1>8, <3>1, <3>2, <3>3
    <3>4. CASE chain' = SetNode("root.", At("Root"))
      <4>1. Touches(SetNode("root.", At("Root")), {} \cup ({} \ Lasting), {"root."}, {}, {}, {})
        BY Touching
      <4>2. Leaves({}, {}, {"root."}, {}, {}, {})
        BY <3>1, <3>4, <4>1, Sent
      <4>3. chain'.node["root."] = At("Root")'
        BY <1>7, <3>1, <3>4, FixedNodes DEF SetNode, RolloutInv, ChainOK, Nodes
      <4> QED
        BY <1>6, <3>2, <4>2, <4>3
    <3> QED
      BY <3>1, <3>3, <3>4
  <2> QED
    BY <2>1, <2>2
<1>10. CASE pc = 2
  <2>1. chain.node["root."] = At("Root")
    BY <1>3, <1>4, <1>10
  <2>2. CASE ~OwnedBy("Root", Deployer)
    <3>1. Skip
      BY <1>2, <1>4, <1>10, <2>2
    <3>2. UNCHANGED <<chain, saved>> /\ (pc' = 3) /\ GoesOn
      BY <1>10, <3>1 DEF Skip, Goto, GoesOn, RolloutInv, MemOK
    <3>3. ~Did(s, 3)'
      BY <1>3, <3>2
    <3> QED
      BY <1>4, <1>8, <2>1, <2>2, <3>2, <3>3
  <2>3. CASE OwnedBy("Root", Deployer)
    <3>1. /\ UNCHANGED <<saved, mem>> /\ GoesOn /\ (pc' = 3) /\ (chain' = SetOwner("Root", Owner))
      <4>1. Send(TRUE, SetOwner("Root", Owner))
        BY <1>2, <1>10, <2>3
      <4>2. /\ UNCHANGED <<saved, mem>> /\ (pc' = pc + 1) /\ (chain' = SetOwner("Root", Owner))
            /\ GoesOn
        BY <4>1, GoingOn
      <4> QED
        BY <1>10, <4>2
    <3>2. ~Did(s, 3)'
      BY <1>3, <3>1
    <3>3. Leaves({"Root"}, {}, {}, {}, {}, {})
      <4>1. Touches(SetOwner("Root", Owner), {"Root"} \cup ({} \ Lasting), {}, {}, {}, {})
        BY <1>1, Touching
      <4> QED
        BY <3>1, <4>1, Sent
    <3>4. OwnedBy("Root", Owner)'
      <4>1. chain'.owner = [chain.owner EXCEPT ![At("Root")] = Owner]
        BY <3>1 DEF SetOwner, RolloutInv, ChainOK
      <4> QED
        BY <1>5, <1>7, <2>3, <3>1, <4>1 DEF OwnedBy
    <3>5. chain'.node["root."] = At("Root")'
      BY <1>7, <2>1, <3>1 DEF SetOwner, RolloutInv, ChainOK
    <3> QED
      BY <1>6, <3>2, <3>3, <3>4, <3>5
  <2> QED
    BY <2>2, <2>3
<1>11. ASSUME NEW who, SendUnless(IsController("Root", who), TRUE, AddController("Root", who)),
              pc \in {3, 4}, pc = 3 => who = Owner
       PROVE  WiredInv'
  <2>1. chain.node["root."] = At("Root") /\ OwnedBy("Root", Owner)
        /\ (pc = 4 => IsController("Root", Owner))
    BY <1>3, <1>4, <1>11
  <2>2. /\ UNCHANGED <<saved, mem>> /\ GoesOn
        /\ \/ UNCHANGED chain /\ IsController("Root", who)
           \/ chain' = AddController("Root", who)
    BY <1>11, GoingOn
  <2>3. CASE UNCHANGED chain /\ IsController("Root", who)
    BY <1>8, <1>11, <2>1, <2>2, <2>3
  <2>4. CASE chain' = AddController("Root", who)
    <3>1. Touches(AddController("Root", who), {} \cup ({} \ Lasting), {}, {}, {}, {})
      <4>1. At("Root") # Sole("BaseRegistrarImplementation")
        BY <1>1 DEF Sole
      <4> QED
        BY <4>1, Touching
    <3>2. Leaves({}, {}, {}, {}, {}, {})
      BY <2>2, <2>4, <3>1, Sent
    <3>3. /\ chain'.node = chain.node /\ chain'.owner = chain.owner
          /\ chain'.controllers = chain.controllers \cup {<<At("Root"), who>>}
      BY <2>4 DEF AddController, RolloutInv, ChainOK
    <3>4. IsController("Root", Owner)' /\ OwnedBy("Root", Owner)'
          /\ (chain'.node["root."] = At("Root")')
      BY <1>5, <1>7, <1>11, <2>1, <2>2, <3>3 DEF IsController, OwnedBy
    <3> QED
      BY <1>6, <3>2, <3>4
  <2> QED
    BY <2>2, <2>3, <2>4
<1>12. CASE pc = 5
  <2>1. UNCHANGED <<chain, saved>>
    BY <1>2, <1>12 DEF Return
  <2>2. Did(s, 1) /\ Did(s, 2) /\ Did(s, 3)
    BY <1>3, <1>12
  <2> QED
    BY <1>4, <1>8, <2>1, <2>2
<1> QED
  BY <1>2, <1>9, <1>10, <1>11, <1>12

LEMMA SetupRegistrarScript ==
  ASSUME Statement, Control, SetupBaseRegistrar PROVE WiredInv'
<1> DEFINE s == "BaseRegistrarImplementation:setup"
           registrar == "BaseRegistrarImplementation"
           controller == "RegistrarSecurityController"
<1> USE DEF Statement
<1>1. /\ Runs(s) /\ s \in OtherScript /\ s \in Scripts /\ Tag("use_root") /\ s # "SetTlds"
      /\ {registrar, controller} \subseteq DOMAIN saved /\ "etn." \in Nodes
  <2>1. Runs(s)
    BY DEF SetupBaseRegistrar
  <2>2. Behind(registrar) /\ Behind(controller)
    BY <2>1, InOrder
  <2> QED
    BY <2>1, <2>2, Addresses, ScriptNames, WholeNetwork, FixedNodes DEF OtherScript, OwnName, Nodes
<1>2. /\ (pc = 1 \/ pc = 2 \/ pc = 3)
      /\ pc = 1 => SendUnless(RegistrarIsSecured, OwnedBy(registrar, Deployer),
                              SetOwner(registrar, At(controller)))
      /\ pc = 2 => SendUnless(chain.node["etn."] = At(registrar), RootAllows(Owner),
                              SetNode("etn.", At(registrar)))
      /\ pc = 3 => Return(FALSE)
  <2>1. (pc = 1 => pc # 2 /\ pc # 3) /\ (pc = 2 => pc # 1 /\ pc # 3) /\ (pc = 3 => pc # 1 /\ pc # 2)
    OBVIOUS
  <2> QED
    BY <1>1, <2>1, Zenon DEF SetupBaseRegistrar
<1>3. /\ \A k : Did(s, k) <=> pc > k
      /\ GoesOn => \A k : Did(s, k)' <=> pc' > k
      /\ Throw => \A k : ~Did(s, k)'
  BY <1>1, Advancing
<1>4. /\ Did(s, 1) => OwnedBy(registrar, At(controller))
      /\ Did(s, 2) => chain.node["etn."] = At(registrar)
  BY DEF WiredInv, RegistrarOK, NodeOfTld
<1>5. ASSUME NEW C, NEW N, Leaves(C, {}, N, {}, {}, {}), C \subseteq {registrar}, N \subseteq {"etn."},
             Did(s, 1)' => OwnedBy(registrar, At(controller))',
             Did(s, 2)' => chain'.node["etn."] = At(registrar)'
      PROVE  WiredInv'
  <2>1. RegistrarOK'
    BY <1>1, <1>5, Keeps DEF RegistrarOK, NodeOfTld, OwnedBy
  <2>2. /\ {} \subseteq OtherContract /\ {"reverse.", "addr.reverse."} \cap N = {}
        /\ {"OwnedUsdOracle", "DummyOracle"} \cap (C \cup {}) = {}
        /\ {"Multicall3", "UniversalSigValidator"} \cap {} = {}
        /\ "com." \notin N /\ "root." \notin N
        /\ C \subseteq {"Root", "BaseRegistrarImplementation", "OwnedUsdOracle", "DummyOracle"}
        /\ "Root" \notin C
    BY <1>5
  <2>3. /\ s # "ENSRegistry" /\ s # "ExponentialPremiumPriceOracle" /\ s # "Multicall3"
        /\ s # "UniversalSigValidator" /\ s # "Root:setup"
    OBVIOUS
  <2> QED
    BY <1>1, <1>5, <2>1, <2>2, <2>3, OtherSteps
<1>6. UNCHANGED saved => At(registrar)' = At(registrar) /\ At(controller)' = At(controller)
  BY DEF At
<1>7. ASSUME UNCHANGED <<chain, saved>>,
             Did(s, 1)' => OwnedBy(registrar, At(controller)),
             Did(s, 2)' => chain.node["etn."] = At(registrar)
      PROVE  WiredInv'
  <2>1. Leaves({}, {}, {}, {}, {}, {})
    BY <1>7, Still
  <2> QED
    BY <1>5, <1>6, <1>7, <2>1 DEF OwnedBy
<1>8. pc' = pc + 1 => GoesOn
  BY <1>2 DEF Control, Return, Throw
<1>9. Throw => WiredInv'
  BY <1>3, <1>7 DEF Throw
<1>10. CASE pc = 1
  <2>1. CASE ~Throw
    <3>1. /\ UNCHANGED saved /\ (pc' = pc + 1)
          /\ (RegistrarIsSecured /\ UNCHANGED chain) \/ chain' = SetOwner(registrar, At(controller))
      BY <1>2, <1>10, <2>1 DEF SendUnless, Send, Tx, Skip, Goto
    <3>2. ~Did(s, 2)'
      BY <1>3, <1>8, <1>10, <3>1
    <3>3. CASE RegistrarIsSecured /\ UNCHANGED chain
      BY <1>7, <3>1, <3>2, <3>3 DEF RegistrarIsSecured
    <3>4. CASE chain' = SetOwner(registrar, At(controller))
      <4>1. Touches(SetOwner(registrar, At(controller)), {registrar} \cup ({} \ Lasting), {}, {}, {}, {})
        BY <1>1, Touching
      <4>2. Leaves({registrar}, {}, {}, {}, {}, {})
        BY <3>1, <3>4, <4>1, Sent
      <4>3. OwnedBy(registrar, At(controller))'
        <5>1. At(registrar) \in DOMAIN chain.owner
          <6>1. OwnedBy(registrar, Deployer) \/ RegistrarIsSecured
            BY <1>2, <1>10, <2>1, Zenon DEF SendUnless, Send, Tx
          <6> QED
            BY <6>1 DEF OwnedBy, RegistrarIsSecured
        <5>2. chain'.owner = [chain.owner EXCEPT ![At(registrar)] = At(controller)]
          BY <3>4 DEF SetOwner, RolloutInv, ChainOK
        <5> QED
          BY <1>6, <3>1, <5>1, <5>2 DEF OwnedBy
      <4> QED
        BY <1>5, <3>2, <4>2, <4>3
    <3> QED
      BY <3>1, <3>3, <3>4
  <2> QED
    BY <1>9, <2>1
<1>11. CASE pc = 2
  <2>1. OwnedBy(registrar, At(controller))
    BY <1>3, <1>4, <1>11
  <2>2. CASE ~Throw
    <3>1. /\ UNCHANGED saved /\ (pc' = pc + 1)
          /\ \/ chain.node["etn."] = At(registrar) /\ UNCHANGED chain
             \/ chain' = SetNode("etn.", At(registrar))
      BY <1>2, <1>11, <2>2 DEF SendUnless, Send, Tx, Skip, Goto
    <3>2. CASE chain.node["etn."] = At(registrar) /\ UNCHANGED chain
      BY <1>7, <2>1, <3>1, <3>2
    <3>3. CASE chain' = SetNode("etn.", At(registrar))
      <4>1. Touches(SetNode("etn.", At(registrar)), {} \cup ({} \ Lasting), {"etn."}, {}, {}, {})
        BY Touching
      <4>2. Leaves({}, {}, {"etn."}, {}, {}, {})
        BY <3>1, <3>3, <4>1, Sent
      <4>3. OwnedBy(registrar, At(controller))' /\ (chain'.node["etn."] = At(registrar)')
        <5>1. chain'.owner = chain.owner /\ chain'.node["etn."] = At(registrar)
          BY <1>1, <3>3 DEF SetNode, RolloutInv, ChainOK
        <5> QED
          BY <1>6, <2>1, <3>1, <5>1 DEF OwnedBy
      <4> QED
        BY <1>5, <4>2, <4>3
    <3> QED
      BY <3>1, <3>2, <3>3
  <2> QED
    BY <1>9, <2>2
<1>12. CASE pc = 3
  <2>1. UNCHANGED <<chain, saved>> /\ Did(s, 1) /\ Did(s, 2)
    BY <1>2, <1>3, <1>12 DEF Return
  <2> QED
    BY <1>4, <1>7, <2>1
<1> QED
  BY <1>2, <1>10, <1>11, <1>12

LEMMA TldsScript ==
  ASSUME Statement, Control, EnableTlds PROVE WiredInv'
<1> DEFINE s == "SetTlds"
           settled == \/ SuffixIsSet
                      \/ Pointer(At("SimplePublicSuffixList"), "suffixes") = Nobody
                      \/ ~MulticallHasCode
           after == SetNode("com.", At("DNSRegistrar"))
<1> USE DEF Statement
<1>1. Runs(s) /\ s \in OtherScript /\ s \in Scripts /\ "com." \in Nodes
  BY ScriptNames, FixedNodes DEF EnableTlds, OtherScript, Nodes
<1>2. /\ \A k : Did(s, k) <=> pc > k
      /\ Throw => \A k : ~Did(s, k)'
  BY <1>1, Advancing
<1>3. settled => SuffixIsSet
  <2>1. Behind("SimplePublicSuffixList") /\ Behind("Multicall3")
    BY <1>1, InOrder
  <2>2. MulticallHasCode
    BY <2>1 DEF WiredInv, SharedOK, HasCode, MulticallHasCode
  <2>3. Pointer(At("SimplePublicSuffixList"), "suffixes") # Nobody
    <3>1. "SimplePublicSuffixList" \in DOMAIN saved
      BY <2>1, Addresses DEF OwnName
    <3>2. ~Runs("SimplePublicSuffixList")
      BY <1>1 DEF Runs
    <3> QED
      BY <3>1, <3>2 DEF WiredInv, SuffixesOK, Beyond
  <2> QED
    BY <2>2, <2>3
<1>r. ~Return(TRUE)
  <2>1. CASE pc = 1
    <3>1. \/ pc' = pc + 1 \/ pc' = 0
      BY <2>1 DEF EnableTlds, Send, Tx, Skip, Goto, Throw
    <3> QED
      BY <2>1, <3>1 DEF Return
  <2>2. CASE pc # 1
    <3>1. Return(FALSE)
      BY <2>2, Zenon DEF EnableTlds
    <3>2. Pipeline[place] \notin done
      BY DEF WiredInv, OrderlyOK
    <3> QED
      BY <3>1, <3>2 DEF Return
  <2> QED
    BY <2>1, <2>2
<1>4. ASSUME NEW N, Leaves({}, {}, N, {}, {}, {}), N \subseteq {"com."}, TldsOK'
      PROVE  WiredInv'
  <2>1. /\ {} \subseteq OtherContract /\ {"reverse.", "addr.reverse."} \cap N = {}
        /\ {"OwnedUsdOracle", "DummyOracle"} \cap ({} \cup {}) = {}
        /\ {"Multicall3", "UniversalSigValidator"} \cap {} = {}
        /\ "etn." \notin N /\ "root." \notin N
        /\ {} \subseteq {"Root", "BaseRegistrarImplementation", "OwnedUsdOracle", "DummyOracle"}
        /\ "Root" \notin {} /\ "BaseRegistrarImplementation" \notin {}
    BY <1>4
  <2>2. /\ s # "ENSRegistry" /\ s # "ExponentialPremiumPriceOracle" /\ s # "Multicall3"
        /\ s # "UniversalSigValidator" /\ s # "Root:setup" /\ s # "BaseRegistrarImplementation:setup"
    OBVIOUS
  <2> QED
    BY <1>1, <1>4, <1>r, <2>1, <2>2, OtherSteps
<1>5. ASSUME UNCHANGED <<chain, saved>>, Did(s, 1)' => SuffixIsSet
      PROVE  WiredInv'
  <2>1. Leaves({}, {}, {}, {}, {}, {})
    BY <1>5, Still
  <2>2. TldsOK'
    BY <1>5 DEF TldsOK, SuffixIsSet, At
  <2>3. {} \subseteq {"com."}
    OBVIOUS
  <2> QED
    BY <1>4, <2>1, <2>2, <2>3
<1>6. CASE pc = 1
  <2>1. IF settled THEN Skip ELSE Send(EnableNodeAllowed, after)
    <3>1. pc # 2
      BY <1>6
    <3> QED
      BY <3>1, Zenon DEF EnableTlds
  <2>2. \/ Throw
        \/ UNCHANGED <<chain, saved>> /\ (pc' = pc + 1) /\ settled
        \/ UNCHANGED saved /\ (pc' = pc + 1) /\ (chain' = after)
    <3> HIDE DEF settled, after
    <3> QED
      BY <2>1, Zenon DEF Send, Tx, Skip, Goto
  <2>5. CASE Throw
    BY <1>2, <1>5, <2>5 DEF Throw
  <2>6. CASE UNCHANGED <<chain, saved>> /\ settled
    BY <1>3, <1>5, <2>6
  <2>7. CASE UNCHANGED saved /\ chain' = after
    <3>1. Touches(after, {} \cup ({} \ Lasting), {"com."}, {}, {}, {})
      BY Touching
    <3>2. Leaves({}, {}, {"com."}, {}, {}, {})
      BY <2>7, <3>1, Sent
    <3>3. chain'.node["com."] = At("DNSRegistrar")'
      BY <1>1, <2>7 DEF SetNode, RolloutInv, ChainOK, At
    <3> QED
      BY <1>4, <3>2, <3>3 DEF TldsOK
  <2> QED
    BY <2>2, <2>5, <2>6, <2>7
<1>7. CASE pc # 1
  <2>1. (pc = 2) /\ Return(FALSE)
    BY <1>7, Zenon DEF EnableTlds
  <2>3. Did(s, 1) => SuffixIsSet
    BY DEF WiredInv, TldsOK, SuffixIsSet
  <2>4. UNCHANGED <<chain, saved>> /\ Did(s, 1)
    BY <1>2, <2>1 DEF Return
  <2> QED
    BY <1>5, <2>3, <2>4
<1> QED
  BY <1>6, <1>7

LEMMA SharedSteps ==
  ASSUME Statement, NEW s \in {"Multicall3", "UniversalSigValidator"}, Runs(s),
         Leaves({}, {s}, {}, {}, {}, {}),
         Behind(s)' \/ s \in DOMAIN saved' => HasCode(s)',
         s = "Multicall3" /\ Runs(s)' /\ pc' = 5 => "Multicall3" \in chain'.code,
         s = "Multicall3" /\ Runs(s)' /\ pc' = 8 => "Multicall3" \in DOMAIN saved',
         s = "UniversalSigValidator" /\ Runs(s)' /\ pc' = 7 => "UniversalSigValidator" \in DOMAIN saved'
  PROVE  WiredInv'
<1> USE DEF Statement
<1>1. s \in OtherScript /\ s \in OtherContract /\ s \in Scripts /\ Control
  BY ScriptNames, Keeps DEF OtherScript, OtherContract
<1>2. SharedOK'
  <2>1. ASSUME NEW t \in {"Multicall3", "UniversalSigValidator"}, t # s
        PROVE  /\ Behind(t)' \/ t \in DOMAIN saved' => HasCode(t)'
               /\ Runs(t)' => pc' = 1
    <3>1. t \in Scripts /\ ~Runs(t)
      BY <2>1, ScriptNames DEF Runs
    <3>2. (Behind(t)' => Behind(t)) /\ (Runs(t)' => pc' = 1)
      BY <1>1, <3>1, Progress
    <3>3. (t \in DOMAIN saved' => t \in DOMAIN saved) /\ chain.code \subseteq chain'.code
      BY <2>1, Keeps
    <3>4. Behind(t) \/ t \in DOMAIN saved => HasCode(t)
      BY DEF WiredInv, SharedOK
    <3>5. HasCode(t) => HasCode(t)'
      <4>1. t \notin DOMAIN saved => At(t)[2] = 0
        BY DEF At, Nobody
      <4>2. t \in DOMAIN saved => At(t)' = At(t)
        BY <2>1, Keeps
      <4> QED
        BY <3>3, <4>1, <4>2 DEF HasCode
    <3> QED
      BY <3>2, <3>3, <3>4, <3>5
  <2> QED
    BY <2>1 DEF SharedOK
<1>3. /\ {s} \subseteq OtherContract /\ {"reverse.", "addr.reverse."} \cap {} = {}
      /\ {"OwnedUsdOracle", "DummyOracle"} \cap ({} \cup {s}) = {}
      /\ "com." \notin {} /\ "etn." \notin {} /\ "root." \notin {}
      /\ {} \subseteq {"Root", "BaseRegistrarImplementation", "OwnedUsdOracle", "DummyOracle"}
      /\ "Root" \notin {} /\ "BaseRegistrarImplementation" \notin {}
      /\ s # "ENSRegistry" /\ s # "ExponentialPremiumPriceOracle" /\ s # "SetTlds"
      /\ s # "Root:setup" /\ s # "BaseRegistrarImplementation:setup"
  BY <1>1
<1> QED
  BY <1>1, <1>2, <1>3, OtherSteps

\* Without a record.
LEMMA SharedWrites ==
  ASSUME Statement, Control, NEW s \in {"Multicall3", "UniversalSigValidator"}, Runs(s),
         UNCHANGED saved, NEW x,
         \/ chain' = chain \/ chain' = [chain EXCEPT !.code = @ \cup {x}]
         \/ chain' = [chain EXCEPT !.funded = @ \cup {x}],
         GoesOn \/ Throw \/ s \in DOMAIN saved \/ s \in chain.code,
         s = "Multicall3" /\ Runs(s)' /\ pc' = 5 => "Multicall3" \in chain'.code,
         s = "Multicall3" => pc' # 8, s = "UniversalSigValidator" => pc' # 7
  PROVE  WiredInv'
<1> USE DEF Statement
<1>1. s \in Scripts
  BY ScriptNames
<1>2. Leaves({}, {s}, {}, {}, {}, {})
  <2>1. /\ Touches([chain EXCEPT !.code = @ \cup {x}], {} \cup ({s} \ Lasting), {}, {}, {}, {})
        /\ Touches([chain EXCEPT !.funded = @ \cup {x}], {} \cup ({s} \ Lasting), {}, {}, {}, {})
    BY Touching
  <2> QED
    BY <2>1, Sent, Still
<1>3. GoesOn \/ Throw => ~Behind(s)'
  BY <1>1, Progress
<1>4. s \in DOMAIN saved => HasCode(s)
  BY DEF WiredInv, SharedOK
<1>5. HasCode(s) => HasCode(s)'
  <2>1. chain.code \subseteq chain'.code
    BY <1>2, Keeps
  <2> QED
    BY <2>1 DEF HasCode, At
<1>6. Behind(s)' \/ s \in DOMAIN saved' => HasCode(s)'
  BY <1>3, <1>4, <1>5 DEF HasCode
<1> QED
  BY <1>2, <1>6, SharedSteps

LEMMA Broadcasting ==
  ASSUME NEW site, NEW mined, NEW rejected, NEW unfunded,
         Broadcast(site, mined, rejected, unfunded)
  PROVE  /\ UNCHANGED saved
         /\ \/ UNCHANGED chain /\ (pc' = rejected \/ pc' = unfunded)
            \/ (chain' = [chain EXCEPT !.code = @ \cup {site}]) /\ (pc' = mined)
BY DEF Broadcast, Tx, Goto

\* The contract itself, where the canonical one cannot be had.
LEMMA SharedDeployed ==
  ASSUME Statement, Control, NEW s \in {"Multicall3", "UniversalSigValidator"}, Runs(s),
         Deploy(s, << >>),
         s = "Multicall3" => pc = 7, s = "UniversalSigValidator" => pc = 6
  PROVE  WiredInv'
<1> USE DEF Statement
<1>1. s \notin Lasting
  BY DEF Lasting, OwnName, LegacyName
<1>2. /\ Deploys({s}) /\ (pc' = pc + 1) /\ s \in DOMAIN saved'
      /\ chain' \in {chain, Constructed(s, Deployer)}
  BY <1>1, Replaceable DEF Deploy
<1>3. Leaves({}, {s}, {}, {}, {}, {})
  <2>1. Touches(Constructed(s, Deployer), {} \cup ({s} \ Lasting), {}, {}, {}, {})
    BY <1>1, Built
  <2>2. Touches(chain', {} \cup ({s} \ Lasting), {}, {}, {}, {})
    BY <1>2, <2>1, Untouched
  <2> QED
    BY <1>2, <2>2 DEF Leaves
<1>4. HasCode(s)'
  <2>1. chain.code \subseteq chain'.code
    BY <1>3, Keeps
  <2>2. CASE saved' = Put(saved, s, [at |-> NewAt(s), args |-> << >>])
    <3>1. At(s)' = NewAt(s)
      BY <2>2 DEF At, Put
    <3>2. \E k \in Nat \ {0} : NewAt(s) = <<s, k>>
      BY AtIsAddress DEF RolloutInv
    <3>3. NewAt(s)[2] # 0
      BY <3>2
    <3>4. At(s)'[2] # 0
      BY <3>1, <3>3
    <3> QED
      BY <3>4 DEF HasCode
  <2>3. CASE s \in DOMAIN saved /\ UNCHANGED saved
    <3>1. HasCode(s)
      BY <2>3 DEF WiredInv, SharedOK
    <3> QED
      BY <2>1, <2>3, <3>1 DEF HasCode, At
  <2> QED
    BY <2>2, <2>3 DEF Deploy, Create
<1>5. (s = "Multicall3" => pc' # 5) /\ (s = "UniversalSigValidator" => pc' = 7)
  BY <1>2
<1> QED
  BY <1>2, <1>3, <1>4, <1>5, SharedSteps

LEMMA MulticallScript ==
  ASSUME Statement, Control, DeployMulticall PROVE WiredInv'
<1> DEFINE s == "Multicall3"
<1> USE DEF Statement
<1>1. Runs(s) /\ s \in Scripts /\ pc \in Nat \ {0} /\ s \notin Lasting
  BY ScriptNames DEF DeployMulticall, RolloutInv, RunOK, Lasting, OwnName, LegacyName
<1>2. pc' \in Nat \ {0, 1} => GoesOn
  BY DEF Control, Return, Throw
<1>3. ASSUME Broadcast(s, 5, 7, 2) PROVE WiredInv'
  <2>1. /\ UNCHANGED saved
        /\ \/ UNCHANGED chain /\ (pc' = 7 \/ pc' = 2)
           \/ (chain' = [chain EXCEPT !.code = @ \cup {s}]) /\ (pc' = 5)
    BY <1>3, Broadcasting
  <2>2. GoesOn
    BY <1>2, <2>1
  <2>3. pc' = 5 => s \in chain'.code
    BY <2>1 DEF RolloutInv, ChainOK
  <2> QED
    BY <1>1, <2>1, <2>2, <2>3, SharedWrites
<1>4. ASSUME NEW account, Fund(account), pc = 2 \/ pc = 3 PROVE WiredInv'
  <2>1. UNCHANGED saved /\ (chain' = [chain EXCEPT !.funded = @ \cup {account}]) /\ (pc' = pc + 1)
    BY <1>4 DEF Fund, Send, Tx
  <2>2. GoesOn /\ pc' # 5 /\ pc' # 8
    BY <1>2, <1>4, <2>1
  <2> QED
    BY <1>1, <2>1, <2>2, SharedWrites
<1>5. CASE pc = 5 /\ Record(s)
  <2>1. /\ saved' = Put(saved, s, [at |-> <<s, 0>>, args |-> << >>])
        /\ (pc' = 6) /\ UNCHANGED chain
    BY <1>5 DEF Record
  <2>2. /\ DOMAIN saved' = DOMAIN saved \cup {s}
        /\ \A d \in DOMAIN saved \ {s} : saved'[d] = saved[d]
    BY <2>1 DEF Put
  <2>3. Deploys({s})
    <3>1. \A d : Arguments(d)' = Arguments(d)
      BY Constant
    <3> QED
      BY <1>1, <2>2, <3>1 DEF Deploys, WiredInv, RecordsOK
  <2>4. Leaves({}, {s}, {}, {}, {}, {})
    BY <2>1, <2>3, Untouched DEF Leaves
  <2>5. HasCode(s)'
    BY <1>1, <1>5, <2>1 DEF WiredInv, SharedOK, HasCode
  <2> QED
    BY <1>1, <2>1, <2>4, <2>5, SharedSteps
<1>6. CASE pc = 8 /\ Return(FALSE)
  <2>1. UNCHANGED <<chain, saved>> /\ pc' # 5 /\ pc' # 8
    BY <1>6 DEF Return
  <2>2. s \in DOMAIN saved
    BY <1>1, <1>6 DEF WiredInv, SharedOK
  <2> QED
    BY <1>1, <2>1, <2>2, SharedWrites
<1>7. CASE s \in chain.code /\ Return(FALSE)
  <2>1. UNCHANGED <<chain, saved>> /\ pc' # 5 /\ pc' # 8
    BY <1>7 DEF Return
  <2> QED
    BY <1>1, <1>7, <2>1, SharedWrites
<1>8. CASE Throw
  <2>1. UNCHANGED <<chain, saved>> /\ pc' # 5 /\ pc' # 8
    BY <1>8 DEF Throw
  <2> QED
    BY <1>1, <1>8, <2>1, SharedWrites
<1>9. CASE pc = 7 /\ Deploy(s, << >>)
  BY <1>1, <1>9, SharedDeployed
<1> QED
  BY <1>3, <1>4, <1>5, <1>6, <1>7, <1>8, <1>9, Zenon DEF DeployMulticall, ProbeMulticall

LEMMA SigValidatorScript ==
  ASSUME Statement, Control, DeploySigValidator PROVE WiredInv'
<1> DEFINE s == "UniversalSigValidator"
<1> USE DEF Statement
<1>1. Runs(s) /\ s \in Scripts /\ pc \in Nat \ {0}
  BY ScriptNames DEF DeploySigValidator, RolloutInv, RunOK
<1>2. pc' \in Nat \ {0, 1} => GoesOn
  BY DEF Control, Return, Throw
<1>3. ASSUME Broadcast("DDP", 4, 6, 2) PROVE WiredInv'
  <2>1. /\ UNCHANGED saved
        /\ \/ UNCHANGED chain /\ (pc' = 6 \/ pc' = 2)
           \/ (chain' = [chain EXCEPT !.code = @ \cup {"DDP"}]) /\ (pc' = 4)
    BY <1>3, Broadcasting
  <2>2. GoesOn /\ pc' # 7
    BY <1>2, <2>1
  <2> QED
    BY <1>1, <2>1, <2>2, SharedWrites
<1>4. ASSUME Fund("DDP"), pc = 2 PROVE WiredInv'
  <2>1. UNCHANGED saved /\ (chain' = [chain EXCEPT !.funded = @ \cup {"DDP"}]) /\ (pc' = pc + 1)
    BY <1>4 DEF Fund, Send, Tx
  <2>2. GoesOn /\ pc' # 7
    BY <1>2, <1>4, <2>1
  <2> QED
    BY <1>1, <2>1, <2>2, SharedWrites
<1>5. CASE pc = 4 /\ Send(TRUE, [chain EXCEPT !.code = @ \cup {s}])
  <2>1. UNCHANGED saved /\ (chain' = [chain EXCEPT !.code = @ \cup {s}]) /\ (pc' = pc + 1)
    BY <1>5 DEF Send, Tx
  <2>2. GoesOn /\ pc' # 7
    BY <1>2, <1>5, <2>1
  <2> QED
    BY <1>1, <2>1, <2>2, SharedWrites
<1>6. CASE Goto(4)
  <2>1. UNCHANGED <<chain, saved>> /\ (pc' = 4)
    BY <1>6 DEF Goto
  <2>2. GoesOn /\ pc' # 7
    BY <1>2, <2>1
  <2> QED
    BY <1>1, <2>1, <2>2, SharedWrites
<1>7. CASE (s \in chain.code \/ pc = 7) /\ Return(TRUE)
  <2>1. UNCHANGED <<chain, saved>> /\ pc' # 7
    BY <1>7 DEF Return
  <2>2. s \in DOMAIN saved \/ s \in chain.code
    BY <1>1, <1>7 DEF WiredInv, SharedOK
  <2> QED
    BY <1>1, <2>1, <2>2, SharedWrites
<1>8. CASE Throw
  <2>1. UNCHANGED <<chain, saved>> /\ pc' # 7
    BY <1>8 DEF Throw
  <2> QED
    BY <1>1, <1>8, <2>1, SharedWrites
<1>9. CASE pc = 6 /\ Deploy(s, << >>)
  BY <1>1, <1>9, SharedDeployed
<1> QED
  BY <1>3, <1>4, <1>5, <1>6, <1>7, <1>8, <1>9, Zenon DEF DeploySigValidator

-----------------------------------------------------------------------------
(* The scripts that register names: what they have to do with the wiring.  *)

\* What their writes leave as it is.
Spares(after) ==
  /\ after.owner = chain.owner /\ after.points = chain.points
  /\ chain.code \subseteq after.code
  /\ \A n \in OtherNodes \cup {"resolver"} : after.resolver[n] = chain.resolver[n]
  /\ \A n \in OtherNodes : after.node[n] = chain.node[n]
  /\ \A a, x : \/ a = At("BaseRegistrarImplementation") /\ x = Owner
               \/ <<a, x>> \in after.controllers <=> <<a, x>> \in chain.controllers

LEMMA Sparing ==
  ASSUME RolloutInv
  PROVE  /\ Spares(chain)
         /\ Spares(AddController("BaseRegistrarImplementation", Owner))
         /\ Spares(DropController("BaseRegistrarImplementation", Owner))
         /\ \A c : Spares([chain EXCEPT !.code = @ \cup {c}])
         /\ \A l \in Labels :
              /\ Spares(Registered(l))
              /\ \A who : Spares(SetNode(l, who)) /\ Spares([chain EXCEPT !.token[l] = who])
              /\ \A who : l # "resolver" => Spares(SetResolver(l, who))
<1>1. ChainOK /\ Labels \subseteq Nodes /\ OtherNodes \subseteq Nodes /\ "resolver" \in Labels
      /\ Labels \cap OtherNodes = {}
  BY RolloutAssumption, WiringAssumption DEF RolloutInv, Nodes, Labels
\* Whatever leaves the contracts and those nodes as they were.
<1>2. ASSUME NEW after, after.owner = chain.owner, after.points = chain.points,
             after.code = chain.code, after.controllers = chain.controllers,
             \A n \in OtherNodes \cup {"resolver"} : after.resolver[n] = chain.resolver[n],
             \A n \in OtherNodes : after.node[n] = chain.node[n]
      PROVE  Spares(after)
  BY <1>2 DEF Spares
<1>3. ASSUME NEW l \in Labels, NEW who
      PROVE  /\ Spares(Registered(l)) /\ Spares(SetNode(l, who))
             /\ Spares([chain EXCEPT !.token[l] = who])
             /\ l # "resolver" => Spares(SetResolver(l, who))
  <2>1. l \in Nodes /\ l \notin OtherNodes /\ \A n \in OtherNodes \cup {"resolver"} : n \in Nodes
    BY <1>1
  <2>2. Spares(Registered(l))
    <3> DEFINE X == Registered(l)
    <3>1. /\ X.owner = chain.owner /\ X.points = chain.points /\ X.code = chain.code
          /\ X.controllers = chain.controllers /\ X.resolver = chain.resolver
          /\ \A n \in Nodes \ {l} : X.node[n] = chain.node[n]
      BY <1>1 DEF ChainOK, Registered
    <3> HIDE DEF X
    <3>2. Spares(X)
      BY <1>2, <2>1, <3>1
    <3> QED
      BY <3>2 DEF X
  <2>3. Spares(SetNode(l, who))
    <3> DEFINE X == SetNode(l, who)
    <3>1. /\ X.owner = chain.owner /\ X.points = chain.points /\ X.code = chain.code
          /\ X.controllers = chain.controllers /\ X.resolver = chain.resolver
          /\ \A n \in Nodes \ {l} : X.node[n] = chain.node[n]
      BY <1>1 DEF ChainOK, SetNode
    <3> HIDE DEF X
    <3>2. Spares(X)
      BY <1>2, <2>1, <3>1
    <3> QED
      BY <3>2 DEF X
  <2>4. Spares([chain EXCEPT !.token[l] = who])
    <3> DEFINE X == [chain EXCEPT !.token[l] = who]
    <3>1. /\ X.owner = chain.owner /\ X.points = chain.points /\ X.code = chain.code
          /\ X.controllers = chain.controllers /\ X.resolver = chain.resolver
          /\ X.node = chain.node
      BY <1>1 DEF ChainOK
    <3> HIDE DEF X
    <3>2. Spares(X)
      BY <1>2, <3>1
    <3> QED
      BY <3>2 DEF X
  <2>5. ASSUME l # "resolver" PROVE Spares(SetResolver(l, who))
    <3> DEFINE X == SetResolver(l, who)
    <3>1. /\ X.owner = chain.owner /\ X.points = chain.points /\ X.code = chain.code
          /\ X.controllers = chain.controllers /\ X.node = chain.node
          /\ \A n \in Nodes \ {l} : X.resolver[n] = chain.resolver[n]
      BY <1>1 DEF ChainOK, SetResolver
    <3> HIDE DEF X
    <3>2. Spares(X)
      BY <1>2, <2>1, <2>5, <3>1
    <3> QED
      BY <3>2 DEF X
  <2> QED
    BY <2>2, <2>3, <2>4, <2>5
<1>4. Spares(chain)
  BY <1>2
<1>5. Spares(AddController("BaseRegistrarImplementation", Owner))
  <2> DEFINE X == AddController("BaseRegistrarImplementation", Owner)
  <2>1. /\ X.owner = chain.owner /\ X.points = chain.points /\ X.code = chain.code
        /\ X.node = chain.node /\ X.resolver = chain.resolver
        /\ X.controllers = chain.controllers \cup {<<At("BaseRegistrarImplementation"), Owner>>}
    BY <1>1 DEF ChainOK, AddController
  <2> HIDE DEF X
  <2>2. Spares(X)
    BY <2>1 DEF Spares
  <2> QED
    BY <2>2 DEF X
<1>6. Spares(DropController("BaseRegistrarImplementation", Owner))
  <2> DEFINE X == DropController("BaseRegistrarImplementation", Owner)
  <2>1. /\ X.owner = chain.owner /\ X.points = chain.points /\ X.code = chain.code
        /\ X.node = chain.node /\ X.resolver = chain.resolver
        /\ X.controllers = chain.controllers \ {<<At("BaseRegistrarImplementation"), Owner>>}
    BY <1>1 DEF ChainOK, DropController
  <2> HIDE DEF X
  <2>2. Spares(X)
    BY <2>1 DEF Spares
  <2> QED
    BY <2>2 DEF X
<1>7. ASSUME NEW c PROVE Spares([chain EXCEPT !.code = @ \cup {c}])
  <2> DEFINE X == [chain EXCEPT !.code = @ \cup {c}]
  <2>1. /\ X.owner = chain.owner /\ X.points = chain.points /\ chain.code \subseteq X.code
        /\ X.node = chain.node /\ X.resolver = chain.resolver
        /\ X.controllers = chain.controllers
    BY <1>1 DEF ChainOK
  <2> HIDE DEF X
  <2>2. Spares(X)
    BY <2>1 DEF Spares
  <2> QED
    BY <2>2 DEF X
<1> QED
  BY <1>3, <1>4, <1>5, <1>6, <1>7

\* One of them goes on: it writes to names, and takes the role or gives it back.  Or nothing runs
\* on, and somebody else writes no more than that.
LEMMA Spared ==
  ASSUME RolloutInv, WiredInv, UNCHANGED <<net, env, saved, done, place, outcome>>,
         NamesRun \/ UNCHANGED <<pc, mem>>,
         Spares(chain'), LentOK', LaunchOK', HandoverOK'
  PROVE  WiredInv'
<1> USE DEF Spares
<1>0. /\ SavedOK
      /\ OrderlyOK /\ RecordsOK /\ NamedOK /\ LegacyOK /\ PresentOK
      /\ HandedOK /\ OwnersOK /\ FeedOK
      /\ RootOK /\ SuffixesOK /\ SharedOK /\ TldsOK /\ RegistrarOK
      /\ ControllersOK /\ NoOthers
      /\ ReverseOK /\ TldResolverOK /\ WrapperOK /\ PublicResolverOK /\ ReverseResolverOK
  BY DEF RolloutInv, WiredInv
<1>1. /\ Owner' = Owner /\ Feed' = Feed /\ HasFeed' = HasFeed /\ \A t : Tag(t)' = Tag(t)
      /\ Registrants' = Registrants /\ \A c : Arguments(c)' = Arguments(c)
  BY <1>0, Constant
<1>2. \A s : Behind(s)' <=> Behind(s)
  BY <1>0 DEF Behind
<1>3. \A s : s \notin NameScripts => (Runs(s)' <=> Runs(s)) /\ (Runs(s) => UNCHANGED <<pc, mem>>)
  BY DEF Runs, NamesRun
<1>4. \A s, k : s \notin NameScripts =>
        /\ Did(s, k)' <=> Did(s, k)
        /\ Beyond(s, k)' <=> Beyond(s, k)
  BY <1>2, <1>3 DEF Did, Beyond
<1>5. /\ \A c : At(c)' = At(c)
      /\ \A c, who : OwnedBy(c, who)' <=> OwnedBy(c, who)
      /\ \A a, slot : Pointer(a, slot)' = Pointer(a, slot)
      /\ \A c : HasCode(c) => HasCode(c)'
  BY DEF At, OwnedBy, Pointer, HasCode
<1>6. \A c, controller \in Lasting : Uses(c, controller)' <=> Uses(c, controller)
  <2>1. ASSUME NEW controller \in Lasting, controller \in DOMAIN saved PROVE At(controller) # Owner
    <3>1. Owner \in {Deployer, OwnerKey}
      BY Constants DEF RolloutInv
    <3>2. At(controller) = Sole(controller)
      BY <1>0, <2>1 DEF RecordsOK, At
    <3> QED
      BY <3>1, <3>2 DEF Sole, Deployer, OwnerKey
  <2> QED
    BY <1>5, <2>1 DEF Uses, IsController
<1>7. OrderlyOK' /\ RecordsOK'
  BY <1>0, <1>1 DEF OrderlyOK, RecordsOK
<1>n. /\ OwnName \cup LegacyName \cup HandedBehind \cup Held \subseteq Lasting
      /\ Lasting \cap NameScripts = {}
      /\ {"Root:setup", "SetTlds", "BaseRegistrarImplementation:setup", "Multicall3",
          "UniversalSigValidator"} \cap NameScripts = {}
      /\ {"ENSRegistry", "ExponentialPremiumPriceOracle"} \subseteq Lasting
      /\ {"Root", "SimplePublicSuffixList", "BaseRegistrarImplementation", "ReverseRegistrar",
          "OwnedResolver", "NameWrapper", "PublicResolver", "DefaultReverseResolver",
          "DefaultReverseRegistrar", "ETHRegistrarController", "WrappedETHRegistrarController",
          "LegacyETHRegistrarController"} \subseteq Lasting
      /\ {"root.", "etn.", "com.", "reverse.", "addr.reverse."} \subseteq OtherNodes
  BY FixedNodes DEF Lasting, OwnName, LegacyName, HandedBehind, Held, NameScripts
<1>d. \A s \in Lasting \cup {"Root:setup", "SetTlds", "BaseRegistrarImplementation:setup",
                             "Multicall3", "UniversalSigValidator"} :
        s \notin NameScripts /\ (Runs(s)' <=> Runs(s)) /\ (Runs(s) => UNCHANGED <<pc, mem>>)
  BY <1>3, <1>n
<1>8. NamedOK' /\ LegacyOK' /\ PresentOK'
  BY <1>0, <1>1, <1>4, <1>d, <1>n DEF NamedOK, Present, LegacyOK, PresentOK
<1>9. HandedOK' /\ OwnersOK' /\ FeedOK'
  BY <1>0, <1>1, <1>4, <1>5, <1>d, <1>n
     DEF HandedOK, HandedOver, OwnersOK, HolderOK, FeedOK, HandsFeedOver, Deployer
<1>10. RootOK'
  <2>1. IsController("Root", Owner) /\ "Root" \in DOMAIN saved => IsController("Root", Owner)'
    <3>1. "Root" \in DOMAIN saved => At("Root") = Sole("Root")
      BY <1>0, <1>n DEF RecordsOK, At
    <3>2. At("BaseRegistrarImplementation") # Sole("Root")
      BY <1>0, AtIsAddress DEF Sole, Nobody
    <3> QED
      BY <1>1, <1>5, <3>1, <3>2 DEF IsController
  <2>2. \A k : Did("Root:setup", k)' <=> Did("Root:setup", k)
    BY <1>4, <1>d
  <2>3. Did("Root:setup", 3) => Did("Root:setup", 1)
    <3>1. Runs("Root:setup") => pc \in Nat
      BY DEF RolloutInv, RunOK, Runs
    <3> QED
      BY <3>1 DEF Did
  <2> QED
    BY <1>0, <1>1, <1>5, <1>n, <2>1, <2>2, <2>3 DEF RootOK
<1>11. SuffixesOK' /\ SharedOK' /\ TldsOK' /\ RegistrarOK'
  BY <1>0, <1>1, <1>2, <1>4, <1>5, <1>d, <1>n DEF SuffixesOK, SharedOK, TldsOK, RegistrarOK, NodeOfTld
<1>12. ControllersOK' /\ NoOthers'
  <2>1. ControllersOK'
    BY <1>0, <1>1, <1>4, <1>6, <1>n DEF ControllersOK, Registers, Takes
  <2>2. NoOthers'
    BY <1>0, <1>1 DEF NoOthers
  <2> QED
    BY <2>1, <2>2
<1>13. ReverseOK' /\ TldResolverOK' /\ WrapperOK' /\ PublicResolverOK' /\ ReverseResolverOK'
  BY <1>0, <1>1, <1>4, <1>5, <1>d, <1>n
     DEF ReverseOK, TldResolverOK, WrapperOK, PublicResolverOK, ReverseResolverOK
<1> QED
  BY <1>7, <1>8, <1>9, <1>10, <1>11, <1>12, <1>13 DEF WiredInv

\* They end without the role, and with what they were to do done.
LEMMA NamesOver ==
  ASSUME Statement, NamesRun, Return(TRUE) \/ Return(FALSE) \/ Throw, ~OwnerIsController,
         Runs("ReservedNames") => Throw \/ \A i \in DOMAIN Reserved : ~Available(Reserved[i])
  PROVE  WiredInv'
<1> USE DEF Statement
<1>0. UNCHANGED <<net, chain, saved>> /\ Control
  BY DEF Control, Return, Throw
<1>1. Leaves({}, {}, {}, {}, {}, {})
  BY <1>0, Still
<1>2. \A s \in NameScripts : s \in Scripts /\ (Runs(s) => ~Runs(s)')
  BY <1>0, Progress, ScriptNames DEF NameScripts
<1>3. ASSUME NEW s \in NameScripts, ~Runs(s) PROVE Runs(s)' => pc' = 1
  BY <1>0, <1>2, <1>3, Progress
<1>4. LaunchOK' /\ HandoverOK'
  BY <1>2, <1>3 DEF LaunchOK, HandoverOK, NameScripts
<1>5. LentOK'
  <2>1. Behind("ReservedNames")' =>
          Behind("ReservedNames") \/ (Runs("ReservedNames") /\ ~Throw)
    BY <1>0, <1>2, Progress DEF NameScripts
  <2>2. LentOK
    BY DEF WiredInv
  <2>3. (\A i \in DOMAIN Reserved : ~Available(Reserved[i])) =>
          \A i \in DOMAIN Reserved : ~Available(Reserved[i])'
    BY <1>0 DEF Available
  <2>4. ~OwnerIsController' /\ Owner' = Owner
    BY <1>0 DEF OwnerIsController, IsController, At, Owner
  <2> QED
    BY <1>0, <2>1, <2>2, <2>3, <2>4 DEF LentOK
<1>6. Pipeline[place] \notin NamedScripts \ NameScripts
  BY DEF NamesRun
<1> QED
  BY <1>1, <1>4, <1>5, <1>6, OtherParts

LEMMA NotBehind == ASSUME Statement, NEW s, Runs(s) PROVE ~Behind(s)
<1>1. /\ place \in DOMAIN Pipeline /\ place \in Nat /\ outcome = "running"
      /\ Pipeline[place] \notin done
  BY Places DEF Statement, RolloutInv, RunOK, WiredInv, OrderlyOK
<1> QED
  BY <1>1, OneEach DEF Runs, Behind

\* What the two scripts have at hand.
LEMMA NamesAtHand ==
  ASSUME Statement, NamesRun
  PROVE  /\ Aside /\ UNCHANGED net /\ (Owner' = Owner)
         /\ Tag("use_root") /\ NodeOfTld /\ GoodEnv(env)
         /\ OwnerIsController => Granted
         /\ OwnerIsController' => Granted' \/ Taken'
         /\ LentOK /\ LaunchOK /\ HandoverOK /\ ReservedOK /\ InfrastructureOK /\ GrantOK
         /\ ChainOK /\ MemOK /\ RolesOK /\ NamesOK
         /\ "resolver" \in Labels
<1>1. Tag("use_root")
  BY WholeNetwork DEF Statement
<1>2. lost' = {}
  BY DEF Statement, Undisturbed
<1> QED
  BY <1>1, <1>2, BehindTheSetup, Constant, WiringAssumption
     DEF Statement, Aside, RolloutInv, WiredInv, LentOK, OrderlyOK, GrantOK, Labels

LEMMA ReservedWired ==
  ASSUME Statement, RegisterReservedNames PROVE WiredInv'
<1> USE DEF Statement
<1>0. /\ NamesRun /\ Runs("ReservedNames") /\ ~Runs("InfrastructureNames")
      /\ pc \in {1, 2, 3, 4, 5}
  BY DEF RegisterReservedNames, NamesRun, NameScripts, Runs
<1>h. /\ Aside /\ UNCHANGED net /\ Owner' = Owner /\ Tag("use_root") /\ NodeOfTld
      /\ OwnerIsController => Granted
      /\ LentOK /\ LaunchOK /\ ReservedOK /\ GrantOK /\ ChainOK /\ MemOK
  BY <1>0, NamesAtHand
<1>1. ASSUME Return(TRUE) \/ Throw, ~Granted \/ ~OwnerIsController,
             Throw \/ \A i \in DOMAIN Reserved : ~Available(Reserved[i])
      PROVE  WiredInv'
  BY <1>0, <1>1, <1>h, NamesOver
\* It goes on.
<1>2. ASSUME UNCHANGED <<saved, done, place, outcome>>, Spares(chain'),
             OwnerIsController' => Granted',
             chain'.token["resolver"] \in {Nobody, Owner},
             \A i \in DOMAIN Reserved :
               Available(Reserved[i])' <=> pc' \in {2, 3} /\ i \in mem'.left
      PROVE  WiredInv'
  <2>1. LaunchOK'
    BY <1>2 DEF LaunchOK
  <2>2. HandoverOK'
    BY <1>0, <1>2 DEF HandoverOK, Runs
  <2>3. Behind("ReservedNames")' <=> Behind("ReservedNames")
    BY <1>2 DEF Behind
  <2>4. ~Behind("ReservedNames")
    BY <1>0, NotBehind
  <2>5. LentOK'
    BY <1>2, <1>h, <2>3, <2>4 DEF LentOK
  <2> QED
    BY <1>0, <1>2, <2>1, <2>2, <2>5, Spared
<1>3. ASSUME UNCHANGED <<place, outcome>> PROVE Runs("ReservedNames")'
  BY <1>0, <1>3 DEF Runs
<1>4. CASE pc = 1
  <2>1. ~Granted
    BY <1>0, <1>4 DEF Granted, Runs
  <2>0. pc # 2 /\ pc # 3 /\ pc # 4 /\ pc # 5
    BY <1>4
  <2>2. CASE Pending = {}
    <3>1. Return(TRUE)
      BY <1>h, <2>0, <2>2, Zenon DEF RegisterReservedNames
    <3> QED
      BY <1>1, <2>1, <2>2, <3>1 DEF Pending
  <2>3. CASE Pending # {}
    <3>1. /\ mem' = [mem EXCEPT !.left = Pending] /\ pc' = 2
          /\ UNCHANGED <<chain, saved, done, place, outcome>>
      <4>1. Remember([mem EXCEPT !.left = Pending])
        BY <1>h, <2>0, <2>3, Zenon DEF RegisterReservedNames
      <4> QED
        BY <1>4, <4>1 DEF Remember
    <3>2. mem'.left = Pending
      BY <1>h, <3>1 DEF MemOK
    <3>3. Spares(chain')
      BY <3>1, Sparing
    <3>4. ~OwnerIsController'
      BY <1>h, <2>1, <3>1 DEF OwnerIsController, IsController, At
    <3>5. \A i \in DOMAIN Reserved :
            Available(Reserved[i])' <=> pc' \in {2, 3} /\ i \in mem'.left
      BY <3>1, <3>2 DEF Pending, Available
    <3>6. chain'.token["resolver"] \in {Nobody, Owner}
      BY <1>h, <3>1 DEF LentOK
    <3> QED
      BY <1>2, <3>1, <3>3, <3>4, <3>5, <3>6
  <2> QED
    BY <2>2, <2>3
<1>5. CASE pc = 2
  <2>1. Grant(3) /\ 3 \in Nat \ {0, 1}
    BY <1>5 DEF RegisterReservedNames
  <2>2. CASE Throw /\ ~OwnerIsController
    BY <1>1, <2>2
  <2>3. CASE ~(Throw /\ ~OwnerIsController)
    <3>1. /\ UNCHANGED <<saved, done, place, outcome>> /\ pc' = 3 /\ OwnerIsController'
          /\ chain'.token = chain.token
          /\ \/ OwnerIsController /\ UNCHANGED <<chain, mem>>
             \/ SecurityControllerAllows' /\ (mem' = [mem EXCEPT !.granted = TRUE])
      BY <1>0, <1>h, <2>1, <2>3, Granting
    <3>2. Spares(chain')
      <4>1. chain' = chain \/ chain' = AddController("BaseRegistrarImplementation", Owner)
        BY <2>1, <3>1 DEF Grant, Goto, Tx, Throw
      <4> QED
        BY <4>1, Sparing
    <3>3. mem'.left = mem.left /\ mem'.granted
      BY <1>h, <3>1 DEF MemOK, Granted
    <3>4. Granted'
      BY <1>3, <3>1, <3>3 DEF Granted
    <3>5. \A i \in DOMAIN Reserved :
            Available(Reserved[i])' <=> pc' \in {2, 3} /\ i \in mem'.left
      BY <1>0, <1>5, <1>h, <3>1, <3>3 DEF LaunchOK, Available
    <3> QED
      BY <1>2, <1>h, <3>1, <3>2, <3>4, <3>5 DEF LentOK
  <2> QED
    BY <2>2, <2>3
<1>6. CASE pc = 3 /\ mem.left = {}
  <2>1. UNCHANGED <<chain, saved, done, place, outcome, mem>> /\ pc' = 4
    BY <1>6 DEF RegisterReservedNames, Skip, Goto
  <2>2. OwnerIsController' => Granted'
    BY <1>0, <1>3, <1>6, <1>h, <2>1 DEF OwnerIsController, IsController, At, Granted
  <2>3. \A i \in DOMAIN Reserved :
          Available(Reserved[i])' <=> pc' \in {2, 3} /\ i \in mem'.left
    BY <1>0, <1>6, <1>h, <2>1 DEF LaunchOK, Available
  <2> QED
    BY <1>2, <1>h, <2>1, <2>2, <2>3, Sparing DEF LentOK
<1>7. CASE pc = 3 /\ mem.left # {}
  <2> DEFINE l == Reserved[First]
  <2>1. Tx(RegisterAllowed(l), Registered(l), [mem EXCEPT !.left = Rest], 3)
    BY <1>7 DEF RegisterReservedNames
  <2>2. First \in mem.left /\ First \in DOMAIN Reserved /\ l \in Labels
        /\ mem.left \subseteq DOMAIN Reserved
    <3>1. mem.left \subseteq DOMAIN Reserved /\ DOMAIN Reserved \subseteq Nat
      BY <1>0, <1>7, <1>h, RolloutAssumption DEF ReservedOK
    <3> QED
      BY <1>7, <3>1, MinIsLeast DEF First, Labels
  <2>3. RegisterAllowed(l)
    BY <1>0, <1>7, <1>h, <2>2 DEF LaunchOK, ReservedOK, RegisterAllowed, NodeOfTld
  <2>4. \A i \in DOMAIN Reserved : Reserved[i] = l => i = First
    BY <2>2, RolloutAssumption
  <2>5. \A i \in DOMAIN Reserved : Reserved[i] \in Labels
    BY DEF Labels
  <2> HIDE DEF l
  <2>6. /\ chain' = Registered(l) /\ mem' = [mem EXCEPT !.left = Rest] /\ pc' = 3
        /\ UNCHANGED <<saved, done, place, outcome>>
    BY <2>1, <2>3 DEF Tx
  <2>7. mem'.left = mem.left \ {First} /\ mem'.granted = mem.granted
    BY <1>h, <2>6 DEF MemOK, Rest
  <2>8. chain'.token[l] = Owner /\ \A m \in Labels \ {l} : chain'.token[m] = chain.token[m]
    BY <1>h, <2>2, <2>6 DEF Registered, ChainOK
  <2>9. Granted'
    BY <1>0, <1>3, <1>7, <1>h, <2>3, <2>6, <2>7 DEF RegisterAllowed, Granted
  <2>10. \A i \in DOMAIN Reserved :
           Available(Reserved[i])' <=> pc' \in {2, 3} /\ i \in mem'.left
    <3>1. l = Reserved[First] /\ Owner # Nobody
      BY Constants DEF l, RolloutInv
    <3>2. \A i \in DOMAIN Reserved : Available(Reserved[i]) <=> i \in mem.left
      BY <1>0, <1>7, <1>h DEF LaunchOK
    <3> QED
      BY <2>2, <2>4, <2>5, <2>6, <2>7, <2>8, <3>1, <3>2 DEF Available
  <2>11. chain'.token["resolver"] \in {Nobody, Owner}
    BY <1>0, <1>h, <2>8, NamesAtHand DEF LentOK
  <2> QED
    BY <1>2, <2>2, <2>6, <2>9, <2>10, <2>11, Sparing
<1>8. CASE pc = 4
  <2>1. RevokeIfGranted
    BY <1>8 DEF RegisterReservedNames
  <2>2. mem.granted => Granted
    BY <1>0, <1>8 DEF Granted
  <2>3. /\ UNCHANGED <<saved, done, place, outcome, mem>> /\ pc' = 5
        /\ chain'.token = chain.token
        /\ OwnerIsController' => OwnerIsController /\ ~mem.granted
    BY <1>0, <1>8, <1>h, <2>1, <2>2, Revoking
  <2>4. ~OwnerIsController'
    BY <1>h, <2>3 DEF Granted
  <2>5. Spares(chain')
    <3>1. chain' = chain \/ chain' = DropController("BaseRegistrarImplementation", Owner)
      BY <2>1 DEF RevokeIfGranted, SendUnless, Skip, Goto, Send, Tx, Throw
    <3> QED
      BY <3>1, Sparing
  <2>6. \A i \in DOMAIN Reserved :
          Available(Reserved[i])' <=> pc' \in {2, 3} /\ i \in mem'.left
    BY <1>0, <1>8, <1>h, <2>3 DEF LaunchOK, Available
  <2> QED
    BY <1>2, <1>h, <2>3, <2>4, <2>5, <2>6 DEF LentOK
<1>9. CASE pc = 5
  <2>1. Return(TRUE)
    <3>1. pc # 1 /\ pc # 2 /\ pc # 3 /\ pc # 4
      BY <1>9
    <3> QED
      BY <3>1, Zenon DEF RegisterReservedNames
  <2>2. ~Granted
    BY <1>0, <1>9 DEF Granted, Runs
  <2>3. \A i \in DOMAIN Reserved : ~Available(Reserved[i])
    BY <1>0, <1>9, <1>h DEF LaunchOK
  <2> QED
    BY <1>1, <2>1, <2>2, <2>3
<1> QED
  BY <1>0, <1>4, <1>5, <1>6, <1>7, <1>8, <1>9

LEMMA InfrastructureWired ==
  ASSUME Statement, RegisterInfrastructureNames PROVE WiredInv'
<1> USE DEF Statement
<1> DEFINE l == Infrastructure[First]
           target == env.target
<1>0. /\ NamesRun /\ Runs("InfrastructureNames") /\ ~Runs("ReservedNames")
      /\ pc \in 1 .. 10
  BY DEF RegisterInfrastructureNames, NamesRun, NameScripts, Runs, RolloutInv, InfrastructureOK
<1>h. /\ Aside /\ UNCHANGED net /\ Owner' = Owner /\ Tag("use_root") /\ NodeOfTld
      /\ OwnerIsController => Granted
      /\ LentOK /\ HandoverOK /\ InfrastructureOK /\ GrantOK /\ ChainOK /\ MemOK /\ NamesOK
      /\ target # Nobody /\ "resolver" \in Labels /\ Owner # Nobody
  BY <1>0, NamesAtHand, Constants DEF GoodEnv, RolloutInv
<1>r. UNCHANGED <<place, outcome>> => Runs("InfrastructureNames")' /\ ~Runs("ReservedNames")'
  BY <1>0 DEF Runs
<1>1. ASSUME Return(TRUE) \/ Throw, ~OwnerIsController PROVE WiredInv'
  BY <1>0, <1>1, NamesOver
\* It goes on.
<1>2. ASSUME UNCHANGED <<saved, done, place, outcome>>, Spares(chain'), HandoverOK',
             OwnerIsController' => Granted',
             chain'.token["resolver"] = chain.token["resolver"],
             \A m \in Labels : chain.token[m] # Nobody => chain'.token[m] # Nobody
      PROVE  WiredInv'
  <2>1. LaunchOK'
    BY <1>2, <1>r DEF LaunchOK
  <2>2. Behind("ReservedNames")' <=> Behind("ReservedNames")
    BY <1>2 DEF Behind
  <2>3. \A i \in DOMAIN Reserved : Reserved[i] \in Labels
    BY DEF Labels
  <2>4. LentOK'
    BY <1>2, <1>h, <2>2, <2>3 DEF LentOK, Available
  <2> QED
    BY <1>0, <1>2, <2>1, <2>4, Spared
\* It goes on, and no more.
<1>3. ASSUME UNCHANGED <<saved, done, place, outcome>>, Spares(chain'), HandoverOK',
             chain'.controllers = chain.controllers, mem'.granted = mem.granted,
             pc \in 1 .. 9, pc' \in 2 .. 9,
             chain'.token["resolver"] = chain.token["resolver"],
             \A m \in Labels : chain.token[m] # Nobody => chain'.token[m] # Nobody
      PROVE  WiredInv'
  <2>1. OwnerIsController' <=> OwnerIsController
    BY <1>3, <1>h DEF OwnerIsController, IsController, At
  <2>2. Granted => Granted'
    BY <1>0, <1>3, <1>r DEF Granted
  <2> QED
    BY <1>2, <1>3, <1>h, <2>1, <2>2
<1>4. ASSUME UNCHANGED <<chain, saved, done, place, outcome>>, HandoverOK',
             mem'.granted = mem.granted, pc \in 1 .. 9, pc' \in 2 .. 9
      PROVE  WiredInv'
  BY <1>3, <1>4, Sparing
<1>5. ASSUME pc \in 2 .. 9, mem.left # {}
      PROVE  First \in mem.left /\ l \in Labels /\ l # "resolver" /\ First \in DOMAIN Infrastructure
  <2>1. mem.left \subseteq DOMAIN Infrastructure /\ DOMAIN Infrastructure \subseteq Nat
    BY <1>0, <1>5, <1>h, RolloutAssumption DEF InfrastructureOK
  <2> QED
    BY <1>5, <2>1, MinIsLeast, WiringAssumption DEF First, Labels
<1>6. pc \in 3 .. 8 => mem.left # {}
  BY <1>0, <1>h DEF InfrastructureOK
<1>7. CASE pc = 1
  <2>1. pc \notin 2 .. 10 /\ pc # 2 /\ pc # 3 /\ pc # 4 /\ pc # 5 /\ pc # 6 /\ pc # 7 /\ pc # 8
        /\ pc # 9 /\ pc # 10
    BY <1>7
  <2>2. Remember([mem EXCEPT !.left = DOMAIN Infrastructure])
    BY <1>h, <2>1, Zenon DEF RegisterInfrastructureNames
  <2>3. /\ UNCHANGED <<chain, saved, done, place, outcome>> /\ pc' = 2 /\ mem'.granted = mem.granted
    BY <1>7, <1>h, <2>2 DEF Remember, MemOK
  <2>4. HandoverOK'
    BY <2>3 DEF HandoverOK
  <2> QED
    BY <1>4, <1>7, <2>3, <2>4
<1>8. CASE pc = 2
  <2>1. CASE mem.left # {}
    <3>1. /\ mem' = [mem EXCEPT !.available = Available(l)] /\ pc' = 3
          /\ UNCHANGED <<chain, saved, done, place, outcome>>
      BY <1>8, <2>1 DEF RegisterInfrastructureNames, Remember
    <3>2. mem'.granted = mem.granted /\ mem'.left = mem.left /\ (mem'.available <=> Available(l))
      <4> DEFINE free == Available(l)
      <4>1. free \in BOOLEAN /\ mem' = [mem EXCEPT !.available = free]
        BY <3>1 DEF Available
      <4> HIDE DEF free
      <4>2. mem'.granted = mem.granted /\ mem'.left = mem.left /\ mem'.available = free
        BY <1>h, <4>1 DEF MemOK
      <4> QED
        BY <4>2 DEF free
    <3>3. HandoverOK'
      BY <3>1, <3>2 DEF HandoverOK, First, Available
    <3> QED
      BY <1>4, <1>8, <3>1, <3>2, <3>3
  <2>2. CASE mem.left = {}
    <3>1. Goto(9)
      BY <1>8, <2>2 DEF RegisterInfrastructureNames
    <3> QED
      BY <1>4, <1>8, <3>1 DEF Goto, HandoverOK
  <2> QED
    BY <2>1, <2>2
<1>9. CASE pc = 3
  <2>1. CASE Goto(4)
    <3>1. HandoverOK'
      BY <1>0, <1>9, <1>h, <2>1 DEF Goto, HandoverOK, First, Available
    <3> QED
      BY <1>4, <1>9, <2>1, <3>1 DEF Goto
  <2>2. CASE Grant(4)
    <3>0. 4 \in Nat \ {0, 1}
      OBVIOUS
    <3>1. CASE Throw /\ ~OwnerIsController
      BY <1>1, <3>1
    <3>2. CASE ~(Throw /\ ~OwnerIsController)
      <4>1. /\ UNCHANGED <<saved, done, place, outcome>> /\ pc' = 4 /\ OwnerIsController'
            /\ chain'.token = chain.token
            /\ \/ OwnerIsController /\ UNCHANGED <<chain, mem>>
               \/ SecurityControllerAllows' /\ (mem' = [mem EXCEPT !.granted = TRUE])
        BY <1>0, <1>h, <2>2, <3>0, <3>2, Granting
      <4>2. Spares(chain')
        <5>1. chain' = chain \/ chain' = AddController("BaseRegistrarImplementation", Owner)
          BY <2>2, <4>1 DEF Grant, Goto, Tx, Throw
        <5> QED
          BY <5>1, Sparing
      <4>3. mem'.left = mem.left /\ mem'.granted /\ mem'.available = mem.available
        BY <1>h, <4>1 DEF MemOK, Granted
      <4>4. Granted'
        BY <1>r, <4>1, <4>3 DEF Granted
      <4>5. HandoverOK'
        BY <1>0, <1>9, <1>h, <4>1, <4>3 DEF HandoverOK, First, Available
      <4> QED
        BY <1>2, <4>1, <4>2, <4>4, <4>5
    <3> QED
      BY <3>1, <3>2
  <2> QED
    BY <1>9, <2>1, <2>2 DEF RegisterInfrastructureNames
<1>10. CASE pc = 4
  <2>1. SendUnless(~mem.available, RegisterAllowed(l), Registered(l))
    BY <1>10 DEF RegisterInfrastructureNames
  <2>2. l \in Labels /\ l # "resolver"
    BY <1>5, <1>6, <1>10
  <2>3. mem.available => RegisterAllowed(l)
    BY <1>0, <1>10, <1>h DEF HandoverOK, InfrastructureOK, RegisterAllowed, NodeOfTld
  <2> HIDE DEF l
  <2>4. CASE ~mem.available
    <3>1. UNCHANGED <<chain, saved, done, place, outcome, mem>> /\ pc' = 5
      BY <1>10, <2>1, <2>4 DEF SendUnless, Skip, Goto
    <3> QED
      BY <1>4, <1>10, <3>1 DEF HandoverOK
  <2>5. CASE mem.available
    <3>1. /\ chain' = Registered(l) /\ pc' = 5
          /\ UNCHANGED <<saved, done, place, outcome, mem>>
      BY <1>10, <2>1, <2>3, <2>5 DEF SendUnless, Send, Tx
    <3>2. /\ chain'.controllers = chain.controllers /\ chain'.token[l] = Owner
          /\ \A m \in Labels \ {l} : chain'.token[m] = chain.token[m]
      BY <1>h, <2>2, <3>1 DEF Registered, ChainOK
    <3>3. HandoverOK'
      BY <3>1 DEF HandoverOK
    <3> QED
      BY <1>3, <1>10, <1>h, <2>2, <3>1, <3>2, <3>3, Sparing
  <2> QED
    BY <2>4, <2>5
<1>11. ASSUME NextName, pc \in {5, 8} PROVE WiredInv'
  <2>1. UNCHANGED <<chain, saved, done, place, outcome>> /\ pc' = 2 /\ mem'.granted = mem.granted
    BY <1>11, <1>h DEF NextName, NameDone, MemOK
  <2>2. HandoverOK'
    BY <2>1 DEF HandoverOK
  <2> QED
    BY <1>4, <1>11, <2>1, <2>2
<1>12. CASE pc = 5
  <2>1. CASE chain.token[l] \notin {Owner, target}
    BY <1>11, <1>12, <2>1 DEF RegisterInfrastructureNames
  <2>2. CASE chain.token[l] \in {Owner, target}
    <3>1. /\ mem' = [mem EXCEPT !.registrant = chain.token[l], !.holder = chain.node[l]]
          /\ pc' = 6 /\ UNCHANGED <<chain, saved, done, place, outcome>>
      BY <1>12, <2>2 DEF RegisterInfrastructureNames, Remember
    <3>2. mem'.granted = mem.granted /\ mem'.left = mem.left /\ mem'.holder = chain.node[l]
      <4> DEFINE token == chain.token[l]
                 node  == chain.node[l]
      <4>1. mem' = [mem EXCEPT !.registrant = token, !.holder = node]
        BY <3>1
      <4> HIDE DEF token, node
      <4>2. mem' = [fresh |-> mem.fresh, granted |-> mem.granted, available |-> mem.available,
                    left |-> mem.left, registrant |-> token, holder |-> node, nonce |-> mem.nonce]
        BY <1>h, <4>1 DEF MemOK
      <4> QED
        BY <4>2 DEF node
    <3>3. HandoverOK'
      BY <1>h, <3>1, <3>2 DEF HandoverOK, First
    <3> QED
      BY <1>4, <1>12, <3>1, <3>2, <3>3
  <2> QED
    BY <2>1, <2>2
\* What is known of the name behind the fifth statement.
<1>13. ASSUME pc \in 6 .. 8
       PROVE  /\ l \in Labels /\ l # "resolver"
              /\ mem.registrant \in {Owner, target}
              /\ mem.holder = Owner => chain.node[l] = Owner
              /\ pc = 7 => chain.token[l] = mem.registrant
  <2>1. l \in Labels /\ l # "resolver"
    BY <1>5, <1>6, <1>13
  <2> QED
    BY <1>0, <1>13, <1>h, <2>1 DEF InfrastructureOK, HandoverOK
<1> HIDE DEF l
<1>14. ASSUME UNCHANGED <<mem, saved, done, place, outcome>>, pc \in 6 .. 7, pc' \in 2 .. 9,
              chain'.node = chain.node, Spares(chain'), chain'.controllers = chain.controllers,
              chain'.token["resolver"] = chain.token["resolver"],
              \A m \in Labels : chain.token[m] # Nobody => chain'.token[m] # Nobody,
              pc' = pc + 1
       PROVE  WiredInv'
  <2>1. HandoverOK'
    BY <1>0, <1>13, <1>14, <1>h DEF HandoverOK, First, l
  <2> QED
    BY <1>3, <1>14, <2>1
<1>15. CASE pc = 6
  <2>1. SendUnless(HasItsResolver(l), chain.node[l] = Owner, SetResolver(l, At("PublicResolver")))
    BY <1>15 DEF RegisterInfrastructureNames, l
  <2>2. ~HasItsResolver(l) => chain.node[l] = Owner
    BY <1>13, <1>15 DEF HasItsResolver
  <2>3. /\ chain' = chain \/ chain' = SetResolver(l, At("PublicResolver"))
        /\ pc' = 7 /\ UNCHANGED <<saved, done, place, outcome, mem>>
    BY <1>15, <2>1, <2>2 DEF SendUnless, Skip, Goto, Send, Tx
  <2>4. /\ chain'.node = chain.node /\ chain'.token = chain.token
        /\ chain'.controllers = chain.controllers
    BY <1>13, <1>15, <1>h, <2>3, LabelWrites
  <2>5. Spares(chain')
    BY <1>13, <1>15, <2>3, Sparing
  <2> QED
    BY <1>14, <1>15, <2>3, <2>4, <2>5
<1>16. CASE pc = 7
  <2>1. SendUnless(~(target # Owner) \/ mem.registrant # Owner,
                   chain.token[l] = Owner, [chain EXCEPT !.token[l] = target])
    BY <1>16 DEF RegisterInfrastructureNames, l
  <2>2. /\ chain' = chain \/ chain' = [chain EXCEPT !.token[l] = target]
        /\ pc' = 8 /\ UNCHANGED <<saved, done, place, outcome, mem>>
    BY <1>13, <1>16, <2>1 DEF SendUnless, Skip, Goto, Send, Tx
  <2>3. /\ chain'.node = chain.node /\ chain'.controllers = chain.controllers
        /\ chain'.token["resolver"] = chain.token["resolver"]
        /\ \A m \in Labels : chain.token[m] # Nobody => chain'.token[m] # Nobody
    BY <1>13, <1>16, <1>h, <2>2 DEF ChainOK
  <2>4. Spares(chain')
    BY <1>13, <1>16, <2>2, Sparing
  <2> QED
    BY <1>14, <1>16, <2>2, <2>3, <2>4
<1>17. CASE pc = 8
  <2>1. CASE target = Owner \/ mem.holder # Owner
    BY <1>11, <1>17, <2>1 DEF RegisterInfrastructureNames
  <2>2. CASE target # Owner /\ mem.holder = Owner
    <3>1. Tx(chain.node[l] = Owner, SetNode(l, target), NameDone, 2)
      BY <1>17, <2>2 DEF RegisterInfrastructureNames, l
    <3>2. /\ chain' = SetNode(l, target) /\ pc' = 2 /\ mem' = NameDone
          /\ UNCHANGED <<saved, done, place, outcome>>
      BY <1>13, <1>17, <2>2, <3>1 DEF Tx
    <3>3. chain'.token = chain.token /\ chain'.controllers = chain.controllers
      BY <1>13, <1>17, <1>h, <3>2, LabelWrites
    <3>4. mem'.granted = mem.granted
      BY <1>h, <3>2 DEF NameDone, MemOK
    <3>5. Spares(chain')
      <4>1. l \in Labels
        BY <1>13, <1>17
      <4>2. Spares(SetNode(l, target))
        BY <4>1, Sparing
      <4> QED
        BY <3>2, <4>2
    <3>6. HandoverOK'
      BY <3>2 DEF HandoverOK
    <3> QED
      BY <1>3, <1>17, <3>2, <3>3, <3>4, <3>5, <3>6
  <2> QED
    BY <2>1, <2>2
<1>18. CASE pc = 9
  <2>1. RevokeIfGranted
    BY <1>18 DEF RegisterInfrastructureNames
  <2>2. mem.granted => Granted
    BY <1>0, <1>18 DEF Granted
  <2>3. /\ UNCHANGED <<saved, done, place, outcome, mem>> /\ pc' = 10
        /\ chain'.token = chain.token
        /\ OwnerIsController' => OwnerIsController /\ ~mem.granted
    BY <1>0, <1>18, <1>h, <2>1, <2>2, Revoking
  <2>4. ~OwnerIsController'
    BY <1>h, <2>3 DEF Granted
  <2>5. Spares(chain')
    <3>1. chain' = chain \/ chain' = DropController("BaseRegistrarImplementation", Owner)
      BY <2>1 DEF RevokeIfGranted, SendUnless, Skip, Goto, Send, Tx, Throw
    <3> QED
      BY <3>1, Sparing
  <2>6. HandoverOK'
    BY <2>3 DEF HandoverOK
  <2> QED
    BY <1>2, <2>3, <2>4, <2>5, <2>6
<1>19. CASE pc = 10
  <2>1. Return(TRUE)
    <3>1. pc # 1 /\ pc # 2 /\ pc # 3 /\ pc # 4 /\ pc # 5 /\ pc # 6 /\ pc # 7 /\ pc # 8 /\ pc # 9
      BY <1>19
    <3> QED
      BY <3>1, Zenon DEF RegisterInfrastructureNames
  <2>2. ~OwnerIsController
    BY <1>0, <1>19, <1>h DEF Granted
  <2> QED
    BY <1>1, <2>1, <2>2
<1> QED
  BY <1>0, <1>7, <1>8, <1>9, <1>10, <1>12, <1>15, <1>16, <1>17, <1>18, <1>19

LEMMA RunWired == ASSUME Statement, RunScript PROVE WiredInv'
<1>1. CASE RegisterReservedNames \/ RegisterInfrastructureNames
  BY <1>1, ReservedWired, InfrastructureWired
<1>2. CASE ~RegisterReservedNames /\ ~RegisterInfrastructureNames
  <2>1. /\ outcome = "running"
        /\ \/ RootStep \/ RegistrarStep \/ ResolverStep
           \/ DeployMulticall \/ DeploySigValidator \/ DeployL2Registrar
    BY DEF RunScript
  <2>2. ~Runs("ReservedNames") /\ ~Runs("InfrastructureNames")
    BY <1>2, <2>1
       DEF Runs, RootStep, RegistrarStep, ResolverStep, DeployRegistry, DeployAlgorithms,
           DeployDigests, DeployOracle, DeployOffchainResolver, DeployPublicSuffixList,
           DeployDNSRegistrar, EnableTlds, DeployRoot, DeployRootSecurityController, SetupRoot,
           DeployBaseRegistrar, DeployRegistrarSecurityController, SetupBaseRegistrar,
           DeployPriceOracle, DeployLegacyController, DeployWrappedController, DeployController,
           DeployBulkRenewal, EnableWrapping, DeployOwnedResolver, DeployExtendedDNSResolver,
           DeployLegacyPublicResolver, DeployPublicResolver, DeployReverseRegistrar,
           DeployDefaultReverseRegistrar, DeployDefaultReverseResolver, DeployMetadataService,
           DeployNameWrapper, UpdateMetadataService, DeployGatewayProvider,
           DeployUniversalResolver, DeployMigrationHelper, DeployMulticall, DeploySigValidator,
           DeployL2Registrar
  <2>3. Control
    BY <2>1, <2>2, Controlled DEF Statement
  <2>4. Pipeline[place] \notin NamedScripts => WiredInv'
    BY MinorWired
  <2>5. CASE RootStep
    <3>1. \/ DeployAlgorithms \/ DeployDigests \/ DeployOracle \/ DeployOffchainResolver
          \/ DeployDNSRegistrar
          => Pipeline[place] \notin NamedScripts
      BY DEF Runs, NamedScripts, OwnName, LegacyName, DeployAlgorithms, DeployDigests, DeployOracle,
             DeployOffchainResolver, DeployDNSRegistrar
    <3> QED
      BY <2>3, <2>4, <2>5, <3>1, RegistryScript, PublicSuffixScript, TldsScript, RootScript,
         RootSecurityScript, SetupRootScript DEF RootStep
  <2>6. CASE RegistrarStep
    <3>1. DeployBulkRenewal \/ EnableWrapping => Pipeline[place] \notin NamedScripts
      BY DEF Runs, NamedScripts, OwnName, LegacyName, DeployBulkRenewal, EnableWrapping
    <3> QED
      BY <1>2, <2>3, <2>4, <2>6, <3>1, BaseRegistrarScript, RegistrarSecurityScript,
         SetupRegistrarScript, OracleScript, LegacyControllerScript, WrappedControllerScript,
         ControllerScript DEF RegistrarStep
  <2>7. CASE ResolverStep
    <3>1. \/ DeployExtendedDNSResolver \/ DeployLegacyPublicResolver \/ DeployMetadataService
          \/ UpdateMetadataService \/ DeployUniversalResolver
          => Pipeline[place] \notin NamedScripts
      BY DEF Runs, NamedScripts, OwnName, LegacyName, DeployExtendedDNSResolver,
             DeployLegacyPublicResolver, DeployMetadataService, UpdateMetadataService,
             DeployUniversalResolver
    <3> QED
      BY <2>3, <2>4, <2>7, <3>1, OwnedResolverScript, ResolverScript, ReverseScript,
         DefaultReverseScript, ReverseResolverScript, WrapperScript, GatewayScript,
         MigrationScript DEF ResolverStep
  <2>8. CASE DeployL2Registrar
    <3>1. Pipeline[place] \notin NamedScripts
      BY <2>8 DEF Runs, NamedScripts, OwnName, LegacyName, DeployL2Registrar
    <3> QED
      BY <2>4, <3>1
  <2> QED
    BY <2>1, <2>3, <2>5, <2>6, <2>7, <2>8, MulticallScript, SigValidatorScript
<1> QED
  BY <1>1, <1>2

-----------------------------------------------------------------------------
(* What happens between the runs.                                          *)

\* The start of a run, or its interruption outside of the gaps.
LEMMA Pausing ==
  ASSUME RolloutInv, WiredInv, UNCHANGED <<net, chain, saved, done>>,
         pc' \in {0, 1}, mem' = NoLocals,
         \A s \in Scripts : Behind(s)' => Behind(s),
         \A c \in DOMAIN Gap : ~(Runs(c) /\ mem.fresh /\ pc \in Gap[c]),
         ~OwnerIsController, OrderlyOK'
  PROVE  WiredInv'
<1>0. /\ RecordsOK /\ NamedOK /\ PresentOK /\ HandedOK /\ OwnersOK /\ FeedOK
      /\ RootOK /\ SuffixesOK /\ SharedOK /\ TldsOK /\ RegistrarOK
      /\ ControllersOK /\ NoOthers
      /\ ReverseOK /\ TldResolverOK /\ WrapperOK /\ PublicResolverOK /\ ReverseResolverOK
      /\ LentOK
  BY DEF WiredInv
<1>1. /\ Owner' = Owner /\ Feed' = Feed /\ HasFeed' = HasFeed /\ \A t : Tag(t)' = Tag(t)
      /\ Registrants' = Registrants /\ \A c : Arguments(c)' = Arguments(c)
  BY Constant
<1>2. ~mem'.fresh
  BY DEF NoLocals
<1>3. /\ \A c : At(c)' = At(c)
      /\ \A c, who : OwnedBy(c, who)' <=> OwnedBy(c, who)
      /\ \A a, slot : Pointer(a, slot)' = Pointer(a, slot)
      /\ \A c, who : IsController(c, who)' <=> IsController(c, who)
      /\ \A c, controller : Uses(c, controller)' <=> Uses(c, controller)
      /\ \A c : HasCode(c)' <=> HasCode(c)
  BY DEF At, OwnedBy, Pointer, HasCode, Uses, IsController
<1>4. \A s \in Scripts : \A k \in Nat \ {0} : Did(s, k)' => Did(s, k)
  BY DEF Did
<1>5. \A c \in DOMAIN Gap : \A k \in Nat : 2 .. k \subseteq Gap[c] /\ Beyond(c, k)' => Beyond(c, k)
  BY DEF Beyond
<1>g. /\ HandedBehind \subseteq DOMAIN Gap
      /\ {"ExponentialPremiumPriceOracle", "PublicResolver"} \subseteq DOMAIN Gap
      /\ \A c \in HandedBehind \cup {"ExponentialPremiumPriceOracle"} : 2 .. 2 \subseteq Gap[c]
      /\ 2 .. 3 \subseteq Gap["SimplePublicSuffixList"]
      /\ 2 .. 3 \subseteq Gap["NameWrapper"] /\ Gap["NameWrapper"] = 2 .. 5
      /\ 2 .. 4 \subseteq Gap["WrappedETHRegistrarController"]
      /\ 2 .. 3 \subseteq Gap["ETHRegistrarController"] /\ 2 .. 4 \subseteq Gap["ETHRegistrarController"]
      /\ 2 .. 5 \subseteq Gap["ETHRegistrarController"]
      /\ 2 .. 3 \subseteq Gap["ReverseRegistrar"] /\ 2 .. 4 \subseteq Gap["ReverseRegistrar"]
      /\ 2 .. 2 \subseteq Gap["PublicResolver"] /\ 2 .. 3 \subseteq Gap["PublicResolver"]
      /\ 2 .. 4 \subseteq Gap["PublicResolver"]
  BY DEF Gap, HandedBehind
<1>n. {1, 2, 3, 4, 5} \subseteq Nat \ {0}
  OBVIOUS
<1>s. /\ OwnName \cup LegacyName \cup HandedBehind \cup Held \subseteq Scripts
      /\ {"ENSRegistry", "ExponentialPremiumPriceOracle", "Root:setup", "SetTlds", "Multicall3",
          "UniversalSigValidator", "BaseRegistrarImplementation:setup", "ReservedNames",
          "DefaultReverseResolver", "OwnedResolver", "LegacyETHRegistrarController"} \subseteq Scripts
      /\ {"NameWrapper", "WrappedETHRegistrarController", "ETHRegistrarController",
          "ReverseRegistrar", "SimplePublicSuffixList"} \subseteq HandedBehind
  BY ScriptNames DEF OwnName, LegacyName, HandedBehind
<1>6. RecordsOK' /\ NamedOK' /\ LegacyOK' /\ PresentOK'
  BY <1>0, <1>1, <1>4, <1>n, <1>s DEF RecordsOK, NamedOK, Present, LegacyOK, PresentOK
<1>7. HandedOK' /\ OwnersOK' /\ FeedOK'
  <2>1. HandedOK'
    BY <1>0, <1>1, <1>2, <1>3, <1>5, <1>g, <1>n DEF HandedOK, HandedOver
  <2>2. OwnersOK'
    BY <1>0, <1>1, <1>3, <1>4, <1>n, <1>s DEF OwnersOK, HolderOK, Deployer
  <2>3. FeedOK'
    BY <1>0, <1>1, <1>2, <1>3, <1>g DEF FeedOK, HandsFeedOver
  <2> QED
    BY <2>1, <2>2, <2>3
<1>8. RootOK' /\ SuffixesOK' /\ SharedOK' /\ TldsOK' /\ RegistrarOK'
  <2>1. RootOK'
    BY <1>0, <1>1, <1>3, <1>4, <1>n, <1>s DEF RootOK
  <2>2. SuffixesOK'
    <3>1. Beyond("SimplePublicSuffixList", 3)' => Beyond("SimplePublicSuffixList", 3)
      BY <1>5, <1>g, <1>n, <1>s
    <3> QED
      BY <1>0, <1>3, <3>1 DEF SuffixesOK
  <2>3. SharedOK'
    BY <1>0, <1>3, <1>s DEF SharedOK
  <2>4. TldsOK' /\ RegistrarOK'
    BY <1>0, <1>3, <1>4, <1>n, <1>s DEF TldsOK, RegistrarOK, NodeOfTld
  <2> QED
    BY <2>1, <2>2, <2>3, <2>4
<1>9. ControllersOK' /\ NoOthers'
  <2>1. ControllersOK'
    BY <1>0, <1>1, <1>3, <1>4, <1>5, <1>g, <1>n, <1>s DEF ControllersOK, Registers, Takes
  <2> QED
    BY <1>0, <1>1, <2>1 DEF NoOthers
<1>10. ReverseOK' /\ TldResolverOK' /\ WrapperOK' /\ PublicResolverOK' /\ ReverseResolverOK'
  <2>1. ReverseOK' /\ PublicResolverOK'
    BY <1>0, <1>1, <1>3, <1>5, <1>g, <1>n, <1>s DEF ReverseOK, PublicResolverOK
  <2>2. TldResolverOK' /\ ReverseResolverOK'
    BY <1>0, <1>3, <1>4, <1>n, <1>s DEF TldResolverOK, ReverseResolverOK
  <2>3. WrapperOK'
    BY <1>0, <1>g, <1>s DEF WrapperOK
  <2> QED
    BY <2>1, <2>2, <2>3
<1>11. LentOK' /\ LaunchOK' /\ HandoverOK'
  <2>1. LentOK'
    <3>1. Behind("ReservedNames")' => Behind("ReservedNames")
      BY <1>s
    <3>2. ~OwnerIsController'
      BY <1>1, <1>3 DEF OwnerIsController
    <3> QED
      BY <1>0, <1>1, <3>1, <3>2 DEF LentOK, Available
  <2> QED
    BY <2>1 DEF LaunchOK, HandoverOK
<1> QED
  BY <1>6, <1>7, <1>8, <1>9, <1>10, <1>11 DEF WiredInv

LEMMA WiredStart ==
  ASSUME RolloutInv, WiredInv, Undisturbed', NEW e \in Envs(net), Start(e) PROVE WiredInv'
<1>0. /\ outcome # "running" /\ Selected # {} /\ place' = Min(Selected) /\ env' = e
      /\ pc' = 1 /\ mem' = NoLocals /\ outcome' = "running"
      /\ UNCHANGED <<net, chain, saved, done>>
  BY DEF Start
<1>1. GoodEnv(e)
  BY DEF Start, Mishap, Undisturbed
<1>2. Min(Selected) \in Selected /\ \A i \in Selected : Min(Selected) <= i
  BY <1>0, MinIsLeast, Places DEF Selected
<1>3. \A s \in Scripts : s \in net.scripts
  BY <1>0 DEF Undisturbed, IsFull, Scripts
<1>4. \A s \in Scripts : Behind(s)' => Behind(s)
  <2>1. ASSUME NEW i \in DOMAIN Pipeline, i < place' PROVE Pipeline[i] \in done
    <3>1. i \notin Selected /\ Pipeline[i] \in Scripts
      BY <1>0, <1>2, <2>1, Places DEF Selected, Scripts
    <3> QED
      BY <1>3, <2>1, <3>1 DEF Selected
  <2> QED
    BY <1>0, <2>1 DEF Behind
<1>5. ~OwnerIsController /\ \A c : ~Runs(c)
  BY <1>0 DEF WiredInv, LentOK, Granted, Runs
<1>6. OrderlyOK'
  <2>1. Pipeline[place'] \notin done'
    BY <1>0, <1>2 DEF Selected
  <2> QED
    BY <1>0, <1>1, <2>1 DEF OrderlyOK, WiredInv, GoodEnv
<1> QED
  BY <1>0, <1>4, <1>5, <1>6, Pausing

LEMMA WiredInterrupt ==
  ASSUME RolloutInv, WiredInv, Undisturbed', Interrupt PROVE WiredInv'
<1>0. /\ outcome = "running" /\ outcome' = "interrupted" /\ pc' = 0 /\ mem' = NoLocals
      /\ UNCHANGED <<net, env, chain, saved, done>> /\ ~InGap
  BY DEF Interrupt, Undisturbed
<1>1. \A s \in Scripts : Behind(s)' => Behind(s)
  BY <1>0 DEF Behind
<1>2. ~OwnerIsController
  BY <1>0 DEF WiredInv, LentOK, Granted, InGap, Runs, NameScripts
<1>3. \A c \in DOMAIN Gap : ~(Runs(c) /\ mem.fresh /\ pc \in Gap[c])
  BY <1>0 DEF InGap, Runs
<1>4. OrderlyOK'
  BY <1>0 DEF WiredInv, OrderlyOK
<1> QED
  BY <1>0, <1>1, <1>2, <1>3, <1>4, Pausing

LEMMA WiredConfirm ==
  ASSUME RolloutInv, WiredInv, NEW n, Confirm(n) PROVE WiredInv'
<1>0. /\ UNCHANGED <<net, env, saved, done, place, pc, mem, outcome>>
      /\ chain' = WithL2Registrar
  BY DEF Confirm
<1>1. Spares(chain')
  BY <1>0, Sparing DEF WithL2Registrar
<1>2. /\ chain'.token = chain.token /\ chain'.node = chain.node
      /\ chain'.controllers = chain.controllers
  BY <1>0 DEF RolloutInv, ChainOK, WithL2Registrar
<1>3. LentOK' /\ LaunchOK' /\ HandoverOK'
  BY <1>0, <1>2 DEF WiredInv, LentOK, LaunchOK, HandoverOK, OwnerIsController, IsController, At,
     Owner, Granted, Runs, Behind, Available, First
<1> QED
  BY <1>0, <1>1, <1>3, Spared

LEMMA WiredInit == Init => WiredInv
<1> SUFFICES ASSUME Init PROVE WiredInv
  OBVIOUS
<1>0. /\ DOMAIN saved = {} /\ done = {} /\ outcome = "idle" /\ chain = EmptyChain
      /\ \A s : ~Behind(s) /\ ~Runs(s)
  BY DEF Init, Behind, Runs
<1>1. \A s, k : ~Did(s, k) /\ ~Beyond(s, k)
  BY <1>0 DEF Did, Beyond
<1>2. OrderlyOK /\ RecordsOK /\ NamedOK /\ LegacyOK /\ PresentOK
  BY <1>0, <1>1 DEF OrderlyOK, RecordsOK, NamedOK, Present, LegacyOK, PresentOK
<1>3. HandedOK /\ OwnersOK /\ FeedOK
  <2>1. HandedOK
    BY <1>0, <1>1 DEF HandedOK, HandedOver
  <2>2. OwnersOK
    BY <1>0, <1>1 DEF OwnersOK, HolderOK
  <2>3. FeedOK
    BY <1>0 DEF FeedOK
  <2> QED
    BY <2>1, <2>2, <2>3
<1>4. RootOK /\ SuffixesOK /\ SharedOK /\ TldsOK /\ RegistrarOK
  BY <1>0, <1>1 DEF RootOK, SuffixesOK, SharedOK, TldsOK, RegistrarOK
<1>5. ControllersOK /\ NoOthers
  BY <1>0, <1>1 DEF ControllersOK, Takes, NoOthers, EmptyChain
<1>6. ReverseOK /\ TldResolverOK /\ WrapperOK /\ PublicResolverOK /\ ReverseResolverOK
  BY <1>0, <1>1 DEF ReverseOK, TldResolverOK, WrapperOK, PublicResolverOK, ReverseResolverOK
<1>7. LentOK /\ LaunchOK /\ HandoverOK
  <2>1. "resolver" \in Labels
    BY WiringAssumption DEF Labels
  <2>2. chain.token = [l \in Labels |-> Nobody] /\ chain.controllers = {}
    BY <1>0 DEF EmptyChain
  <2>3. LentOK
    BY <1>0, <2>1, <2>2 DEF LentOK, OwnerIsController, IsController
  <2> QED
    BY <1>0, <2>3 DEF LaunchOK, HandoverOK
<1> QED
  BY <1>2, <1>3, <1>4, <1>5, <1>6, <1>7 DEF WiredInv

LEMMA WiredStep ==
  ASSUME RolloutInv, RolloutInv', Undisturbed => WiredInv, [Next]_vars, Undisturbed'
  PROVE  WiredInv'
<1>1. UNCHANGED net /\ lost \subseteq lost' /\ mishaps \subseteq mishaps'
  BY DEF vars, Next, Start, Mishap, RunScript, Interrupt, Squat, Reclaim, Confirm
<1>2. Undisturbed /\ WiredInv
  BY <1>1 DEF Undisturbed, IsFull
<1>3. CASE RunScript
  BY <1>2, <1>3, RunWired DEF Statement, RunScript
<1>4. CASE \E l \in Labels : Squat(l) \/ Reclaim(l)
  BY <1>4 DEF Squat, Reclaim, Mishap, Undisturbed
<1>5. CASE UNCHANGED vars
  <2>1. UNCHANGED <<net, env, chain, saved, done, place, pc, mem, outcome>>
    BY <1>5 DEF vars
  <2>2. LentOK' /\ LaunchOK' /\ HandoverOK'
    BY <1>2, <2>1 DEF WiredInv, LentOK, LaunchOK, HandoverOK, OwnerIsController, IsController, At,
       Owner, Granted, Runs, Behind, Available, First
  <2> QED
    BY <1>2, <2>1, <2>2, Spared, Sparing
<1> QED
  BY <1>2, <1>3, <1>4, <1>5, WiredStart, WiredInterrupt, WiredConfirm DEF Next

(* However often a run was cut outside of the gaps, started again, and had *)
(* its proposals confirmed, a network deployed to as a whole has of the    *)
(* wiring what the scripts behind have done.                               *)
LEMMA WiredInvariant == Spec => [](Undisturbed => WiredInv)
<1>1. Init => (Undisturbed => WiredInv)
  BY WiredInit
<1>2. RolloutInv /\ RolloutInv' /\ (Undisturbed => WiredInv) /\ [Next]_vars
        => (Undisturbed => WiredInv)'
  BY WiredStep
<1> QED
  BY <1>1, <1>2, RolloutInvariant, PTL DEF Spec

\* With every script behind it, a network has what was to be done done.
LEMMA WiredAtTheEnd ==
  ASSUME RolloutInv, Undisturbed, WiredInv, outcome = "finished" PROVE Wired
<1>0. /\ NamedOK /\ PresentOK /\ HandedOK /\ OwnersOK /\ FeedOK
      /\ RootOK /\ SuffixesOK /\ SharedOK /\ TldsOK /\ RegistrarOK
      /\ ControllersOK /\ NoOthers
      /\ ReverseOK /\ TldResolverOK /\ WrapperOK /\ PublicResolverOK /\ ReverseResolverOK
      /\ LentOK /\ RecordsOK
  BY DEF WiredInv
<1>1. \A s : Behind(s) /\ ~Runs(s)
  BY DEF Behind, Runs
<1>2. /\ \A s, k : Did(s, k)
      /\ \A c, k : Beyond(c, k) <=> c \in DOMAIN saved
  BY <1>1 DEF Did, Beyond
<1>3. OwnName \subseteq DOMAIN saved /\ (Tag("legacy") => LegacyName \subseteq DOMAIN saved)
  BY <1>0, <1>2 DEF NamedOK, Present, OwnName, LegacyName
<1>4. \A c \in HandedBehind : c \in DOMAIN saved => OwnedBy(c, Owner)
  BY <1>0, <1>2 DEF HandedOK, HandedOver
<1>n. /\ {"Root", "RootSecurityController", "RegistrarSecurityController", "NameWrapper",
          "OwnedResolver", "ETHRegistrarController", "ReverseRegistrar", "PublicResolver",
          "DefaultReverseRegistrar", "SimplePublicSuffixList", "MigrationHelper",
          "BatchGatewayProvider", "DefaultReverseResolver", "BaseRegistrarImplementation"}
           \subseteq OwnName
      /\ {"RootSecurityController", "RegistrarSecurityController", "NameWrapper", "OwnedResolver",
          "ETHRegistrarController", "ReverseRegistrar", "SimplePublicSuffixList",
          "WrappedETHRegistrarController"} \subseteq HandedBehind
      /\ {"LegacyETHRegistrarController", "WrappedETHRegistrarController"} \subseteq LegacyName
      /\ OwnName \cup LegacyName \subseteq Lasting
  BY DEF OwnName, HandedBehind, LegacyName, Lasting
<1>5. Verified
  BY <1>0, <1>1, <1>2, <1>3, <1>n
     DEF Verified, RegistrarOK, NodeOfTld, TldResolverOK, ReverseResolverOK, ReverseOK,
         PublicResolverOK, SharedOK, LentOK
<1>6. OwnedByOwner
  <2>1. IsController("Root", Owner) /\ chain.node["root."] = At("Root") /\ OwnedBy("Root", Owner)
    BY <1>0, <1>2 DEF RootOK
  <2>2. \A c \in {"DefaultReverseRegistrar", "MigrationHelper", "BatchGatewayProvider"} :
          OwnedBy(c, Owner)
    BY <1>0, <1>2, <1>3, <1>n DEF OwnersOK, HolderOK, Held
  <2>3. Tag("owned_oracle") => OwnedBy("OwnedUsdOracle", Owner)
    BY <1>0, <1>1, <1>2 DEF FeedOK, PresentOK, HasFeed, Feed, HandsFeedOver
  <2> QED
    BY <1>3, <1>4, <1>n, <2>1, <2>2, <2>3 DEF OwnedByOwner
<1>7. TakesRegistrations
  <2> DEFINE registrar == At("BaseRegistrarImplementation")
             takers == {"NameWrapper", "ETHRegistrarController"}
                         \cup (IF Tag("legacy") THEN {"LegacyETHRegistrarController",
                                                      "WrappedETHRegistrarController"} ELSE {})
  <2>1. \A c \in takers : c \in DOMAIN saved /\ At(c) = Sole(c)
    BY <1>0, <1>3, <1>n DEF RecordsOK, At
  <2>2. \A c \in takers : <<registrar, At(c)>> \in chain.controllers
    BY <1>0, <1>2, <2>1 DEF ControllersOK, Takes, Registers, Uses, IsController
  <2>3. \A c \in takers : At(c) \in DOMAIN chain.owner
    <3>1. Tag("legacy") => At("LegacyETHRegistrarController") \in DOMAIN chain.owner
      BY <1>0, <1>3, <1>n DEF OwnersOK, HolderOK, Held, OwnedBy
    <3>2. \A c \in takers \ {"LegacyETHRegistrarController"} : c \in HandedBehind
      BY <1>n
    <3> QED
      BY <1>4, <2>1, <3>1, <3>2 DEF OwnedBy
  <2>4. \A a : <<registrar, a>> \in chain.controllers => \E c \in takers : a = At(c)
    <3>1. registrar = Sole("BaseRegistrarImplementation")
      BY <1>0, <1>3, <1>n DEF RecordsOK, At
    <3>2. <<registrar, Owner>> \notin chain.controllers
      BY <1>0 DEF LentOK, Granted, Runs, OwnerIsController, IsController
    <3> QED
      BY <1>0, <2>1, <3>1, <3>2 DEF NoOthers, Registrants
  <2>5. {c \in DOMAIN chain.owner \cup {Owner} : <<registrar, c>> \in chain.controllers}
          = {At(c) : c \in takers}
    <3> HIDE DEF registrar, takers
    <3> QED
      BY <2>2, <2>3, <2>4
  <2>6. /\ IsController("ReverseRegistrar", At("ETHRegistrarController"))
        /\ IsController("DefaultReverseRegistrar", At("ETHRegistrarController"))
    BY <1>0, <1>2, <1>3, <1>n DEF ControllersOK, Takes, Uses
  <2>7. chain.node["com."] = At("DNSRegistrar")
    BY <1>0, <1>2 DEF TldsOK
  <2> QED
    BY <2>5, <2>6, <2>7 DEF TakesRegistrations
<1> QED
  BY <1>5, <1>6, <1>7 DEF Wired

(* FinishedIsWired, for every network, environment and list of names: a    *)
(* run of the whole pipeline that ends, the first or a later one, leaves   *)
(* what verify-deployment.ts looks for, the contracts that the README of   *)
(* the deployment lists with the owner account, and no controller too      *)
(* many, though runs before it were cut, or failed, anywhere but between a *)
(* deployment and its handover.                                            *)
THEOREM FinishedRunsAreWired == Spec => []FinishedIsWired
<1>1. RolloutInv /\ (Undisturbed => WiredInv) => FinishedIsWired
  BY WiredAtTheEnd DEF FinishedIsWired, Undisturbed
<1> QED
  BY <1>1, RolloutInvariant, WiredInvariant, PTL
=============================================================================
