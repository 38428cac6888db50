--------------------------- MODULE AddressProofs ----------------------------
(***************************************************************************)
(* That a contract which is recorded keeps its address, for every network, *)
(* every part of the pipeline it deploys with, and any number of runs,     *)
(* names taken by others and acts of the signers, as long as every run had *)
(* a proper shell and none was cut in the middle of the script of the      *)
(* NameWrapper or of the OwnedResolver (Steady): such a cut does move      *)
(* contracts.                                                              *)
(*                                                                         *)
(* A deploy returns the record when it finds the same arguments in it, so  *)
(* a second contract of one name comes from other arguments, that is from  *)
(* another contract's address that moved or was not recorded yet.  Hence   *)
(* what is shown together is: every record keeps its address and what it   *)
(* was given (KeptOK); what a script reads from the records was deployed   *)
(* by one that came before it and is there (DueOK), since a network        *)
(* deploys with whatever a script depends on; the resolver of the          *)
(* top-level domain, which the wrapper's script calls, is set by the one   *)
(* that deploys it and is the owner's (TldOK); and the script of the       *)
(* wrapper, which is given the metadata service that is replaced later,    *)
(* never runs again (OnceOK).                                              *)
(***************************************************************************)
EXTENDS RolloutProofs

\* The shells were as they should be, and none of the two scripts died before its end.
Steady ==
  "environment" \notin mishaps /\ lost \cap {"NameWrapper", "OwnedResolver"} = {}

\* Given its own address as the previous registrar; deployed anew by UpdateMetadataService.
Replaced == {"DNSRegistrar", "StaticMetadataService"}

\* Where a contract is and what it was given, for good.
Address(c) == IF c = "L2ReverseRegistrar" /\ env.safeKey THEN <<c, 0>> ELSE Sole(c)

Given(c) ==
  CASE c = "OffchainDNSResolver" -> <<Sole("ENSRegistry"), Sole("DNSSECImpl")>>
    [] c = "StaticBulkRenewal" -> <<Sole("ETHRegistrarController")>>
    [] c = "UniversalRegistrarRenewalWithReferrer" ->
         <<Sole("ETHRegistrarController"), Sole("NameWrapper")>>
    [] c = "LegacyPublicResolver" -> <<Sole("ENSRegistry")>>
    [] c = "UniversalResolver" -> <<Owner, Sole("ENSRegistry"), Sole("BatchGatewayProvider")>>
    [] OTHER -> Arguments(c)

\* The records are what a deploy with the same arguments finds.
KeptOK ==
  \A c \in DOMAIN saved \ Replaced :
    /\ c # "Multicall3" => saved[c].at = Address(c)
    /\ c # "NameWrapper" => saved[c].args = Given(c)

\* <<s, k, c>>: the script s has deployed c when it has come past statement k.
Due ==
  {<<s, 1, s>> : s \in {"DNSSECImpl", "Root", "BaseRegistrarImplementation", "ReverseRegistrar",
                        "OwnedResolver", "NameWrapper", "DefaultReverseRegistrar",
                        "ETHRegistrarController", "BatchGatewayProvider"}}
  \cup {<<"ENSRegistry", 2, "ENSRegistry">>,
        <<"ExponentialPremiumPriceOracle", 3, "ExponentialPremiumPriceOracle">>}
  \cup (IF Tag("legacy") THEN {<<"ENSRegistry", 1, "LegacyENSRegistry">>} ELSE {})
  \cup (IF HasFeed THEN {<<"ExponentialPremiumPriceOracle", 1, Feed>>} ELSE {})

\* No script runs without those it depends on having deployed.
DueOK ==
  /\ \A d \in Due : d[1] \in net.scripts /\ Did(d[1], d[2]) => d[3] \in DOMAIN saved
  /\ Feed \in DOMAIN saved => HasFeed

\* What the script of the wrapper calls, the resolver of etn., is the owned one and the owner has it.
TldOK ==
  /\ "OwnedResolver" \in DOMAIN saved =>
       OwnedBy("OwnedResolver",
               IF Runs("OwnedResolver") /\ mem.fresh /\ pc = 2 THEN Deployer ELSE Owner)
  /\ chain.resolver["etn."] # Nobody =>
       /\ "OwnedResolver" \in DOMAIN saved
       /\ chain.resolver["etn."] = At("OwnedResolver")
       /\ SecurityControllerAllows
  /\ "OwnedResolver" \in net.scripts /\ Did("OwnedResolver", 3) => chain.resolver["etn."] # Nobody

\* The wrapper is deployed and handed over in one run, then the script is done.
OnceOK ==
  "NameWrapper" \in DOMAIN saved =>
    \/ "NameWrapper" \in done
    \/ /\ Runs("NameWrapper") /\ mem.fresh /\ pc \in 2 .. 5
       /\ pc = 2 => OwnedBy("NameWrapper", Deployer)

\* Past its second statement the L2 script has the key of the Safe.
L2OK == Runs("L2ReverseRegistrar") /\ pc > 2 => env.safeKey

SteadyInv ==
  /\ outcome = "running" => GoodEnv(env) /\ Pipeline[place] \notin done
  /\ KeptOK /\ DueOK /\ TldOK /\ OnceOK /\ L2OK
-----------------------------------------------------------------------------
(* A statement of a run in such a network.                                 *)

\* What the lemmas about a statement start from.
SteadyRun ==
  /\ RolloutInv /\ RolloutInv' /\ SteadyInv
  /\ outcome = "running" /\ UNCHANGED <<net, env>>

\* Of a network and its shells, from what is assumed of them.
LEMMA Shells ==
  ASSUME RolloutInv
  PROVE  /\ ~LeavesWiring
         /\ net.scripts \cap {"Root", "BaseRegistrarImplementation"} # {} => Tag("use_root")
         /\ GoodEnv(env) => env.price = Price
         /\ \A e \in Envs(net) : e.safeKey = env.safeKey
<1>1. net \in Networks /\ env \in Envs(net)
  BY DEF RolloutInv, RunOK
<1>2. \A e, f \in Envs(net) : GoodEnv(e) /\ GoodEnv(f) => e.price = f.price
  BY <1>1, AddressAssumption
<1>3. GoodEnv(env) => \A e \in Envs(net) : GoodEnv(e) => e.price = env.price
  BY <1>1, <1>2
<1>4. GoodEnv(env) => env.price = Price
  BY <1>1, <1>3 DEF Price, PriceOf
<1> QED
  BY <1>1, <1>4, AddressAssumption DEF Tag, LeavesWiring

\* What is due, given and where depends on the network and its key to the Safe only.
LEMMA Unvarying ==
  ASSUME UNCHANGED net
  PROVE  Due' = Due /\ (\A c : Given(c)' = Given(c))
         /\ (env'.safeKey = env.safeKey => \A c : Address(c)' = Address(c))
<1>1. /\ Owner' = Owner /\ Feed' = Feed /\ HasFeed' = HasFeed /\ (Tag("legacy")' <=> Tag("legacy"))
      /\ \A c : Arguments(c)' = Arguments(c)
  BY Constant
<1>2. Due' = Due
  BY <1>1 DEF Due
<1>3. \A c : Given(c)' = Given(c)
  BY <1>1 DEF Given
<1>4. env'.safeKey = env.safeKey => \A c : Address(c)' = Address(c)
  BY DEF Address
<1> QED
  BY <1>2, <1>3, <1>4

\* What leaves the top-level domain, its resolver and those who own them as they are.
LeavesOwners(after) ==
  /\ after.resolver["etn."] = chain.resolver["etn."]
  /\ \A c \in {"OwnedResolver"}
             \cup (IF SecurityControllerAllows
                   THEN {"RegistrarSecurityController", "BaseRegistrarImplementation"} ELSE {}) :
       At(c) \in DOMAIN chain.owner =>
         At(c) \in DOMAIN after.owner /\ after.owner[At(c)] = chain.owner[At(c)]

\* Whose owner decides on the top-level domain's resolver.
Guarded == {"OwnedResolver", "RegistrarSecurityController", "BaseRegistrarImplementation"}

\* Which writes of the scripts leave the top-level domain and its owners as they are.
LEMMA LeavingOwners ==
  ASSUME RolloutInv, NEW c, NEW x, NEW n, NEW a, NEW slot
  PROVE  /\ LeavesOwners(chain)
         /\ c \notin Guarded => LeavesOwners(SetOwner(c, x))
         /\ SecurityControllerAllows => LeavesOwners(SetOwner("RegistrarSecurityController", Owner))
         /\ ~SecurityControllerAllows =>
              \A d \in {"RegistrarSecurityController", "BaseRegistrarImplementation"} :
                LeavesOwners(SetOwner(d, x))
         /\ LeavesOwners(SetNode(n, x))
         /\ n # "etn." => LeavesOwners(SetResolver(n, x))
         /\ LeavesOwners(SetPointer(a, slot, x))
         /\ LeavesOwners(AddController(c, x)) /\ LeavesOwners(DropController(c, x))
         /\ LeavesOwners([chain EXCEPT !.code = @ \cup {x}])
         /\ LeavesOwners([chain EXCEPT !.funded = @ \cup {x}])
         /\ LeavesOwners([chain EXCEPT !.token[n] = x])
         /\ LeavesOwners([chain EXCEPT !.token[n] = x, !.node[n] = x])
         /\ c \notin DOMAIN saved => LeavesOwners(Constructed(c, x))
<1> USE DEF RolloutInv, ChainOK, LeavesOwners
<1>1. LeavesOwners(chain)
  OBVIOUS
<1>2. \A g \in Guarded : At(g) \in DOMAIN chain.owner => \E k \in Nat : At(g) = <<g, k>>
  BY AtIsAddress
<1>3. At(c) = Nobody \/ \E k \in Nat : At(c) = <<c, k>>
  BY AtIsAddress
<1>4. \A d, g \in Guarded : At(g) \in DOMAIN chain.owner /\ At(d) = At(g) => d = g
  BY <1>2, AtIsAddress
<1>5. c \notin Guarded => LeavesOwners(SetOwner(c, x))
  BY <1>2, <1>3 DEF SetOwner, Guarded
<1>6. SecurityControllerAllows => LeavesOwners(SetOwner("RegistrarSecurityController", Owner))
  BY <1>2, <1>4 DEF SetOwner, Guarded, SecurityControllerAllows, OwnedBy
<1>7. ~SecurityControllerAllows =>
        \A d \in {"RegistrarSecurityController", "BaseRegistrarImplementation"} :
          LeavesOwners(SetOwner(d, x))
  BY <1>4 DEF SetOwner, Guarded
<1>8. /\ LeavesOwners(SetNode(n, x))
      /\ n # "etn." => LeavesOwners(SetResolver(n, x))
      /\ LeavesOwners(SetPointer(a, slot, x))
  BY DEF SetNode, SetResolver, SetPointer
<1>9. /\ LeavesOwners(AddController(c, x)) /\ LeavesOwners(DropController(c, x))
      /\ LeavesOwners([chain EXCEPT !.code = @ \cup {x}])
      /\ LeavesOwners([chain EXCEPT !.funded = @ \cup {x}])
      /\ LeavesOwners([chain EXCEPT !.token[n] = x])
      /\ LeavesOwners([chain EXCEPT !.token[n] = x, !.node[n] = x])
  BY DEF AddController, DropController
<1>10. ASSUME c \notin DOMAIN saved PROVE LeavesOwners(Constructed(c, x))
  <2>1. NewAt(c) = <<c, 1>>
    BY <1>10 DEF NewAt, At, Nobody
  <2>2. \A g \in Guarded : At(g) \in DOMAIN chain.owner => At(g) # NewAt(c)
    BY <1>2, <1>10, <2>1 DEF At
  <2> QED
    BY <2>2 DEF Constructed, Put, Guarded
<1> QED
  BY <1>1, <1>5, <1>6, <1>7, <1>8, <1>9, <1>10

-----------------------------------------------------------------------------
(* Its statements.                                                         *)

\* It deploys nothing.
Plainly == Moves /\ UNCHANGED saved /\ LeavesOwners(chain')

\* The addresses it leaves.
RecordsStay ==
  \A c \in DOMAIN saved :
    saved'[c].at = saved[c].at \/ c \in Replaced \/ saved'[c].at = <<"Multicall3", 0>>

\* It deploys c, for the first time or where that is allowed.
Adds(c) ==
  /\ Remains /\ (pc' = pc + 1) /\ LeavesOwners(chain')
  /\ KeptOK' /\ RecordsStay /\ (DOMAIN saved' = DOMAIN saved \cup {c})

\* Returning, throwing and going on without a call.
LEMMA PlainSteps ==
  ASSUME SteadyRun
  PROVE  /\ \A k \in Nat \ {0, 1} : Goto(k) => Plainly
         /\ Skip => Plainly
         /\ Throw => Plainly
         /\ Return(TRUE) => Plainly
         /\ Return(FALSE) => Plainly
<1>1. LeavesOwners(chain)
  BY DEF LeavesOwners
<1>2. pc + 1 \in Nat \ {0, 1}
  BY DEF SteadyRun, RolloutInv, RunOK
<1> QED
  BY <1>1, <1>2 DEF Plainly, Moves, Remains, Goto, Skip, Throw, Return

\* A transaction that is sent unless it is not needed.
LEMMA PlainSends ==
  ASSUME SteadyRun, NEW allowed, NEW settled, NEW after, LeavesOwners(after)
  PROVE  /\ \A m : \A next \in Nat \ {0, 1} : Tx(allowed, after, m, next) => Plainly
         /\ Send(allowed, after) => Plainly
         /\ SendUnless(settled, allowed, after) => Plainly
<1>1. ASSUME NEW m, NEW next \in Nat \ {0, 1}, Tx(allowed, after, m, next) PROVE Plainly
  BY <1>1, PlainSteps DEF Tx, Plainly, Moves, Remains
<1>2. pc + 1 \in Nat \ {0, 1}
  BY DEF SteadyRun, RolloutInv, RunOK
<1>3. Send(allowed, after) => Plainly
  BY <1>1, <1>2 DEF Send
<1> QED
  BY <1>1, <1>3, PlainSteps DEF SendUnless

\* The calls that leave the top-level domain as it is.
LEMMA PlainWrites ==
  ASSUME SteadyRun, NEW c, NEW n, NEW x, NEW a, NEW slot, NEW allowed, NEW settled
  PROVE  /\ c \notin Guarded =>
              /\ Send(allowed, SetOwner(c, x)) => Plainly
              /\ SendUnless(settled, allowed, SetOwner(c, x)) => Plainly
              /\ HandOver(c) => Plainly
              /\ HandOverIfFresh(c) => Plainly
         /\ Send(allowed, SetNode(n, x)) => Plainly
         /\ SendUnless(settled, allowed, SetNode(n, x)) => Plainly
         /\ n # "etn." => (SendUnless(settled, allowed, SetResolver(n, x)) => Plainly)
         /\ Send(allowed, SetPointer(a, slot, x)) => Plainly
         /\ SendUnless(settled, allowed, SetPointer(a, slot, x)) => Plainly
         /\ Send(allowed, AddController(c, x)) => Plainly
         /\ SendUnless(settled, allowed, AddController(c, x)) => Plainly
         /\ SendUnless(settled, allowed, DropController(c, x)) => Plainly
         /\ SetInterface(n, slot, x) => Plainly
         /\ SetControllerOn(c, x) => Plainly
         /\ AddRegistrarController(x) => Plainly
<1> RolloutInv
  BY DEF SteadyRun
<1>1. ASSUME c \notin Guarded
      PROVE  /\ Send(allowed, SetOwner(c, x)) => Plainly
             /\ SendUnless(settled, allowed, SetOwner(c, x)) => Plainly
             /\ HandOver(c) => Plainly
             /\ HandOverIfFresh(c) => Plainly
  <2>1. LeavesOwners(SetOwner(c, x)) /\ LeavesOwners(SetOwner(c, Owner))
    BY <1>1, LeavingOwners
  <2>2. HandOver(c) => Plainly
    BY <2>1, PlainSends DEF HandOver
  <2> QED
    BY <2>1, <2>2, PlainSends, PlainSteps DEF HandOverIfFresh
<1>2. \A b, s, v : LeavesOwners(SetPointer(b, s, v))
  BY LeavingOwners
<1>3. \A d, v : LeavesOwners(AddController(d, v)) /\ LeavesOwners(DropController(d, v))
  BY LeavingOwners
<1>4. LeavesOwners(SetNode(n, x)) /\ (n # "etn." => LeavesOwners(SetResolver(n, x)))
  BY LeavingOwners
<1>5. SetInterface(n, slot, x) => Plainly
  BY <1>2, PlainSends, PlainSteps DEF SetInterface
<1>6. SetControllerOn(c, x) => Plainly
  BY <1>3, PlainSends DEF SetControllerOn
<1>7. AddRegistrarController(x) => Plainly
  BY <1>3, PlainSends DEF AddRegistrarController
<1> QED
  BY <1>1, <1>2, <1>3, <1>4, <1>5, <1>6, <1>7, PlainSends

\* Deploying: with what is given for good, or where that is not asked for.
LEMMA AddingIt ==
  ASSUME SteadyRun, NEW c, NEW args, NEW built, Create(c, args, built),
         c \in Replaced \/ (IF c = "NameWrapper" THEN c \notin DOMAIN saved ELSE args = Given(c)),
         c = "L2ReverseRegistrar" => ~env.safeKey,
         c \notin DOMAIN saved \/ c \in Replaced => LeavesOwners(built)
  PROVE  /\ Adds(c)
         /\ c \notin Replaced =>
              IF c \in DOMAIN saved THEN UNCHANGED <<chain, saved>> /\ ~mem'.fresh
                                    ELSE (chain' = built) /\ mem'.fresh
<1> DEFINE new == [at |-> NewAt(c), args |-> args]
           fresh == c \notin DOMAIN saved \/ saved[c].args # args
<1>0. /\ Remains /\ pc' = pc + 1 /\ KeptOK /\ LeavesOwners(chain)
      /\ (\A d : Given(d)' = Given(d)) /\ (\A d : Address(d)' = Address(d))
  <2>1. (\A d : Given(d)' = Given(d)) /\ (\A d : Address(d)' = Address(d))
    BY Unvarying DEF SteadyRun
  <2>2. Remains /\ pc' = pc + 1
    BY DEF SteadyRun, RolloutInv, RunOK, Create, Remains
  <2> QED
    BY <2>1, <2>2 DEF SteadyRun, SteadyInv, LeavesOwners
<1>1. /\ mem'.fresh <=> fresh
      /\ IF fresh THEN saved' = Put(saved, c, new) /\ chain' = built
                  ELSE UNCHANGED <<saved, chain>>
  BY DEF Create, SteadyRun, RolloutInv, MemOK
<1>2. fresh => c \notin DOMAIN saved \/ c \in Replaced
  BY <1>0 DEF KeptOK
<1>3. CASE ~fresh
  BY <1>0, <1>1, <1>3 DEF Adds, KeptOK, RecordsStay
<1>4. CASE fresh
  <2>1. /\ DOMAIN saved' = DOMAIN saved \cup {c} /\ saved'[c] = new
        /\ \A d \in DOMAIN saved \ {c} : saved'[d] = saved[d]
    BY <1>1, <1>4 DEF Put
  <2>2. c \notin DOMAIN saved => NewAt(c) = Sole(c)
    BY DEF NewAt, At, Nobody, Sole
  <2>3. KeptOK'
    <3>1. ASSUME NEW d \in DOMAIN saved \ {c}, d \notin Replaced
          PROVE  /\ d # "Multicall3" => saved'[d].at = Address(d)'
                 /\ d # "NameWrapper" => saved'[d].args = Given(d)'
      BY <1>0, <2>1, <3>1 DEF KeptOK
    <3>2. ASSUME c \notin Replaced
          PROVE  /\ c # "Multicall3" => saved'[c].at = Address(c)'
                 /\ c # "NameWrapper" => saved'[c].args = Given(c)'
      <4>1. NewAt(c) = Address(c)
        BY <1>2, <1>4, <2>2, <3>2 DEF Address
      <4>2. Address(c)' = Address(c) /\ Given(c)' = Given(c)
        BY <1>0
      <4> QED
        BY <2>1, <3>2, <4>1, <4>2
    <3> QED
      BY <2>1, <3>1, <3>2 DEF KeptOK
  <2>4. RecordsStay
    BY <1>2, <1>4, <2>1 DEF RecordsStay
  <2> QED
    BY <1>0, <1>1, <1>2, <1>4, <2>1, <2>3, <2>4 DEF Adds
<1> QED
  BY <1>3, <1>4

\* A rocketh deploy: it returns the record if the arguments are the recorded ones.
LEMMA Deployments ==
  ASSUME SteadyRun, NEW c, NEW args,
         c \in Replaced \/ (c # "NameWrapper" /\ args = Given(c)),
         c = "L2ReverseRegistrar" => ~env.safeKey
  PROVE  /\ Deploy(c, args) => Adds(c)
         /\ DeployClaiming(c, args, chain) => Adds(c) \/ Throw
         /\ DeployClaiming(c, args, chain) => Adds(c) \/ Plainly
<1>1. LeavesOwners(chain) /\ (c \notin DOMAIN saved => LeavesOwners(Constructed(c, Deployer)))
  BY LeavingOwners DEF SteadyRun
<1>2. c \in Replaced => LeavesOwners(Constructed(c, Deployer))
  <2>1. ASSUME c \in Replaced, NEW g \in Guarded, At(g) \in DOMAIN chain.owner PROVE At(g) # NewAt(c)
    <3>1. (\E k \in Nat : At(g) = <<g, k>>) /\ \E k \in Nat \ {0} : NewAt(c) = <<c, k>>
      BY <2>1, AtIsAddress DEF SteadyRun, RolloutInv, ChainOK
    <3> QED
      BY <2>1, <3>1 DEF Replaced, Guarded
  <2> QED
    BY <2>1 DEF LeavesOwners, Constructed, Put, Guarded, SteadyRun, RolloutInv, ChainOK
<1>3. Deploy(c, args) => Adds(c)
  BY <1>1, <1>2, AddingIt DEF Deploy
<1> QED
  BY <1>1, <1>3, AddingIt, PlainSteps DEF DeployClaiming

-----------------------------------------------------------------------------
(* What the scripts behind have left.                                      *)

\* A script of this network that comes before the running one.
Ahead(s) ==
  s \in Scripts /\ s \in net.scripts /\ \E i \in DOMAIN Pipeline : Pipeline[i] = s /\ i < place

\* What a script depends on comes before it in the same network.
LEMMA Before ==
  ASSUME SteadyRun, NEW s, NEW d \in Scripts, <<s, d>> \in DependsOn, Runs(s) \/ Ahead(s)
  PROVE  Ahead(d)
<1>0. /\ place \in DOMAIN Pipeline /\ DOMAIN Pipeline \subseteq Nat /\ Pipeline[place] \in net.scripts
      /\ \A t \in net.scripts : Dependencies(t) \subseteq net.scripts
  BY Places, Constants DEF SteadyRun, RolloutInv, RunOK
<1>1. PICK i \in DOMAIN Pipeline : Pipeline[i] = s /\ i <= place
  BY <1>0 DEF Runs, Ahead
<1>2. PICK j \in DOMAIN Pipeline : Pipeline[j] = d
  BY DEF Scripts
<1>3. j < i
  BY <1>1, <1>2, DependenciesFirst
<1>4. s \in net.scripts
  BY <1>0 DEF Runs, Ahead
<1>5. d \in net.scripts
  BY <1>0, <1>4 DEF Dependencies
<1> QED
  BY <1>0, <1>1, <1>2, <1>3, <1>5 DEF Ahead

\* Which scripts have something due, and after which statement.
LEMMA DueScripts ==
  ASSUME NEW d \in Due
  PROVE  /\ d[1] \in Scripts /\ d[2] \in {1, 2, 3}
         /\ d[1] \in {"DNSSECImpl", "Root", "BaseRegistrarImplementation", "ReverseRegistrar",
                      "OwnedResolver", "NameWrapper", "DefaultReverseRegistrar",
                      "ETHRegistrarController", "BatchGatewayProvider", "ENSRegistry",
                      "ExponentialPremiumPriceOracle"}
         /\ d[1] \in {"ENSRegistry", "ExponentialPremiumPriceOracle"} \/ (d[2] = 1 /\ d[3] = d[1])
<1>1. Pipeline[4] \in Scripts /\ Pipeline[4] = "DNSSECImpl"
  BY DEF Scripts, Pipeline
<1> QED
  BY <1>1, ScriptNames DEF Due, OwnName

\* What was due before is recorded, at its address.
LEMMA Readied ==
  ASSUME SteadyRun, NEW d \in Due, Ahead(d[1]) \/ (Runs(d[1]) /\ pc > d[2])
  PROVE  d[3] \in DOMAIN saved /\ At(d[3]) = Sole(d[3])
<1>1. d[1] \in net.scripts /\ Did(d[1], d[2])
  BY DEF Ahead, Did, Behind, SteadyRun, RolloutInv, RunOK, Runs
<1>2. d[3] \in DOMAIN saved
  BY <1>1 DEF SteadyRun, SteadyInv, DueOK
<1>3. d[3] \notin Replaced /\ d[3] # "Multicall3" /\ d[3] # "L2ReverseRegistrar"
  BY DEF Due, Replaced, Feed
<1> QED
  BY <1>2, <1>3 DEF SteadyRun, SteadyInv, KeptOK, At, Address

-----------------------------------------------------------------------------
(* What holds after its statements.                                        *)

\* It comes past the statements that deploy what is due with that deployed.
Provides ==
  \A d \in Due : Runs(d[1]) /\ pc <= d[2] /\ ~Throw =>
    (Remains /\ pc' <= d[2]) \/ d[3] \in DOMAIN saved'

Steps(c) ==
  /\ Moves /\ Provides
  /\ UNCHANGED saved \/ Adds(c)
  /\ c = Feed => HasFeed

\* A statement of a script keeps the records, and what is due with them.
LEMMA KeepingRecords ==
  ASSUME SteadyRun, NEW c, Steps(c)
  PROVE  /\ outcome' = "running" => GoodEnv(env') /\ Pipeline[place'] \notin done'
         /\ KeptOK' /\ DueOK' /\ RecordsStay /\ done \subseteq done'
         /\ DOMAIN saved \subseteq DOMAIN saved' /\ DOMAIN saved' \subseteq DOMAIN saved \cup {c}
         /\ \A g \in Guarded : g \in DOMAIN saved => At(g)' = At(g)
<1>0. /\ RolloutInv /\ Pipeline[place] \notin done /\ GoodEnv(env) /\ UNCHANGED <<net, env>>
      /\ outcome = "running" /\ pc \in Nat /\ KeptOK /\ DueOK
  BY DEF SteadyRun, SteadyInv, RolloutInv, RunOK
<1>7. place \in DOMAIN Pipeline /\ DOMAIN Pipeline \subseteq Nat
  BY <1>0, Places DEF RolloutInv, RunOK
<1>8. ASSUME NEW s \in Scripts, s \in net.scripts
      PROVE  /\ ~Runs(s) /\ Behind(s)' => Behind(s)
             /\ ~Runs(s) /\ Runs(s)' => pc' = 1
             /\ Runs(s) /\ Remains => ~Behind(s)'
             /\ Runs(s) /\ Throw => ~Runs(s)' /\ ~Behind(s)'
  BY <1>0, <1>8, Moving DEF Steps
<1>1. /\ Due' = Due /\ (\A d : Given(d)' = Given(d)) /\ (\A d : Address(d)' = Address(d))
      /\ Feed' = Feed /\ HasFeed' = HasFeed
  BY <1>0, Unvarying, Constant
<1>2. /\ DOMAIN saved \subseteq DOMAIN saved' /\ DOMAIN saved' \subseteq DOMAIN saved \cup {c}
      /\ RecordsStay
  BY DEF Steps, Adds, RecordsStay
<1>3. KeptOK'
  BY <1>0, <1>1 DEF Steps, Adds, KeptOK
<1>4. \A g \in Guarded : g \in DOMAIN saved => At(g)' = At(g)
  BY <1>0, <1>1, <1>2, <1>3 DEF KeptOK, Guarded, Replaced, At
<1>5. done \subseteq done' /\ (outcome' = "running" => Pipeline[place'] \notin done')
  <2>1. ASSUME NEW true, Return(true) PROVE outcome' = "running" => Pipeline[place'] \notin done'
    <3>1. SUFFICES ASSUME Later # {} PROVE Pipeline[Min(Later)] \notin done \cup {Pipeline[place]}
      BY <2>1 DEF Return
    <3>2. Min(Later) \in Later
      BY <3>1, MinIsLeast, Places DEF Later, Selected
    <3>3. /\ Min(Later) \in DOMAIN Pipeline /\ Min(Later) > place /\ place \in DOMAIN Pipeline
          /\ Pipeline[Min(Later)] \notin done /\ DOMAIN Pipeline \subseteq Nat
      BY <1>0, <1>7, <3>2 DEF Later, Selected
    <3> QED
      BY <3>3, OneEach
  <2> QED
    BY <1>0, <2>1 DEF Steps, Moves, Remains, Return, Throw
<1>6. DueOK'
  <2>1. ASSUME NEW d \in Due, d[1] \in net.scripts, Did(d[1], d[2])' PROVE d[3] \in DOMAIN saved'
    <3>0. /\ d[1] \in Scripts /\ d[2] \in {1, 2, 3}
          /\ Did(d[1], d[2]) => d[3] \in DOMAIN saved'
      BY <1>0, <1>2, <2>1, DueScripts DEF DueOK
    <3>1. CASE ~Runs(d[1])
      <4>1. ~Did(d[1], d[2]) => FALSE
        BY <1>8, <2>1, <3>0, <3>1 DEF Did
      <4> QED
        BY <3>0, <4>1
    <3>2. CASE Runs(d[1]) /\ pc > d[2]
      BY <3>0, <3>2 DEF Did
    <3>3. CASE Runs(d[1]) /\ pc <= d[2]
      <4>1. ~Throw /\ ~(Remains /\ pc' <= d[2])
        BY <1>8, <2>1, <3>0, <3>3 DEF Did, Remains
      <4> QED
        BY <3>3, <4>1 DEF Steps, Provides
    <3> QED
      BY <1>0, <3>0, <3>1, <3>2, <3>3
  <2>2. Feed \in DOMAIN saved' => HasFeed
    BY <1>0, <1>2 DEF Steps, DueOK
  <2> QED
    BY <1>0, <1>1, <2>1, <2>2 DEF DueOK
<1> QED
  BY <1>0, <1>2, <1>3, <1>4, <1>5, <1>6

\* One of the other scripts than those that serve and wrap the top-level domain's names.
LEMMA Steadily ==
  ASSUME SteadyRun, NEW c, Steps(c), LeavesOwners(chain'), L2OK'
  PROVE  /\ ~Runs("OwnedResolver") /\ c # "OwnedResolver" => TldOK'
         /\ ~Runs("NameWrapper") /\ c # "NameWrapper" => OnceOK'
         /\ ~Runs("OwnedResolver") /\ c # "OwnedResolver" /\ OnceOK' => SteadyInv' /\ RecordsStay
<1>0. /\ RolloutInv /\ RolloutInv' /\ Pipeline[place] \notin done /\ UNCHANGED net
      /\ outcome = "running" /\ Moves /\ TldOK /\ OnceOK /\ Owner' = Owner
  BY DEF SteadyRun, SteadyInv, Steps, Owner
<1>1. /\ done \subseteq done'
      /\ DOMAIN saved \subseteq DOMAIN saved' /\ DOMAIN saved' \subseteq DOMAIN saved \cup {c}
      /\ \A g \in Guarded : g \in DOMAIN saved => At(g)' = At(g)
  BY KeepingRecords
<1>2. ASSUME ~Runs("OwnedResolver"), c # "OwnedResolver" PROVE TldOK'
  <2>1. "OwnedResolver" \in Scripts
    BY ScriptNames DEF OwnName
  <2>2. Runs("OwnedResolver")' => (pc' = 1) /\ "OwnedResolver" \in net.scripts
    BY <1>0, <1>2, <2>1, Moving DEF RolloutInv, RunOK, Runs
  <2>3. "OwnedResolver" \in net.scripts /\ Did("OwnedResolver", 3)' => Did("OwnedResolver", 3)
    <3>1. "OwnedResolver" \in net.scripts /\ Behind("OwnedResolver")' => Behind("OwnedResolver")
      BY <1>0, <1>2, <2>1, Moving
    <3> QED
      BY <2>2, <3>1 DEF Did
  <2>4. \A g \in Guarded : \A who :
          g = "OwnedResolver" \/ SecurityControllerAllows =>
            (OwnedBy(g, who) => OwnedBy(g, who)' /\ (At(g)' = At(g)))
    BY <1>0, <1>1, OnRecord DEF OwnedBy, LeavesOwners, Guarded
  <2>5. SecurityControllerAllows => SecurityControllerAllows'
    BY <1>0, <2>4 DEF SecurityControllerAllows, Guarded
  <2>6. "OwnedResolver" \in DOMAIN saved' => OwnedBy("OwnedResolver", Owner)'
    BY <1>0, <1>1, <1>2, <2>4 DEF TldOK, Guarded
  <2>7. chain'.resolver["etn."] = chain.resolver["etn."]
    BY DEF LeavesOwners
  <2> QED
    BY <1>0, <1>1, <2>2, <2>3, <2>5, <2>6, <2>7 DEF TldOK, Guarded
<1>3. ~Runs("NameWrapper") /\ c # "NameWrapper" => OnceOK'
  BY <1>0, <1>1 DEF OnceOK
<1> QED
  BY <1>2, <1>3, KeepingRecords DEF SteadyInv

-----------------------------------------------------------------------------
(* What a script is given.                                                 *)

\* The dependencies that are used below, as exported by the scripts.
LEMMA Depending ==
  /\ {<<"Root", "ENSRegistry">>, <<"BaseRegistrarImplementation", "ENSRegistry">>,
      <<"LegacyPublicResolver", "ENSRegistry">>, <<"ReverseRegistrar", "ENSRegistry">>,
      <<"OffchainDNSResolver", "ENSRegistry">>, <<"OffchainDNSResolver", "DNSSECImpl">>,
      <<"RootSecurityController", "Root">>,
      <<"RegistrarSecurityController", "BaseRegistrarImplementation">>,
      <<"BaseRegistrarImplementation:setup", "BaseRegistrarImplementation">>,
      <<"LegacyETHRegistrarController", "BaseRegistrarImplementation:setup">>,
      <<"LegacyETHRegistrarController", "ExponentialPremiumPriceOracle">>,
      <<"NameWrapper", "ReverseRegistrar">>, <<"NameWrapper", "OwnedResolver">>,
      <<"NameWrapper", "RegistrarSecurityController">>} \subseteq DependsOn
  /\ {<<"WrappedETHRegistrarController", "NameWrapper">>,
      <<"WrappedETHRegistrarController", "ExponentialPremiumPriceOracle">>,
      <<"ETHRegistrarController", "NameWrapper">>,
      <<"ETHRegistrarController", "DefaultReverseRegistrar">>,
      <<"ETHRegistrarController", "ExponentialPremiumPriceOracle">>,
      <<"StaticBulkRenewal", "ETHRegistrarController">>,
      <<"EnableWrapping", "ETHRegistrarController">>,
      <<"PublicResolver", "NameWrapper">>, <<"PublicResolver", "ETHRegistrarController">>,
      <<"DefaultReverseResolver", "DefaultReverseRegistrar">>,
      <<"UniversalResolver", "ENSRegistry">>, <<"UniversalResolver", "BatchGatewayProvider">>,
      <<"MigrationHelper", "NameWrapper">>} \subseteq DependsOn
  /\ {"DNSSECImpl", "Root", "BaseRegistrarImplementation", "ReverseRegistrar", "OwnedResolver",
      "NameWrapper", "DefaultReverseRegistrar", "ETHRegistrarController", "BatchGatewayProvider",
      "ENSRegistry", "ExponentialPremiumPriceOracle", "RegistrarSecurityController",
      "BaseRegistrarImplementation:setup"} \subseteq Scripts
<1>1. Pipeline[4] \in Scripts /\ Pipeline[4] = "DNSSECImpl"
  BY DEF Scripts, Pipeline
<1> QED
  BY <1>1, ScriptNames DEF DependsOn, OwnName

\* What a script gets from the records, get(name), is where it was first deployed.
LEMMA AtHand ==
  ASSUME SteadyRun
  PROVE  /\ Runs("ENSRegistry") /\ pc = 2 /\ Tag("legacy") =>
              At("LegacyENSRegistry") = Sole("LegacyENSRegistry")
         /\ \A s \in {"Root", "BaseRegistrarImplementation", "LegacyPublicResolver",
                      "ReverseRegistrar", "OffchainDNSResolver", "WrappedETHRegistrarController",
                      "ETHRegistrarController", "PublicResolver", "UniversalResolver"} :
              Runs(s) => At("ENSRegistry") = Sole("ENSRegistry")
         /\ Runs("OffchainDNSResolver") => At("DNSSECImpl") = Sole("DNSSECImpl")
         /\ Runs("RootSecurityController") => At("Root") = Sole("Root")
         /\ \A s \in {"RegistrarSecurityController", "LegacyETHRegistrarController",
                      "WrappedETHRegistrarController", "ETHRegistrarController",
                      "MigrationHelper"} :
              Runs(s) => At("BaseRegistrarImplementation") = Sole("BaseRegistrarImplementation")
         /\ \A s \in {"LegacyETHRegistrarController", "WrappedETHRegistrarController",
                      "ETHRegistrarController"} :
              Runs(s) => At("ExponentialPremiumPriceOracle") = Sole("ExponentialPremiumPriceOracle")
         /\ \A s \in {"WrappedETHRegistrarController", "ETHRegistrarController", "PublicResolver"} :
              Runs(s) => At("ReverseRegistrar") = Sole("ReverseRegistrar")
         /\ \A s \in {"WrappedETHRegistrarController", "EnableWrapping", "PublicResolver",
                      "MigrationHelper"} :
              Runs(s) => At("NameWrapper") = Sole("NameWrapper")
         /\ \A s \in {"ETHRegistrarController", "DefaultReverseResolver"} :
              Runs(s) => At("DefaultReverseRegistrar") = Sole("DefaultReverseRegistrar")
         /\ \A s \in {"StaticBulkRenewal", "EnableWrapping", "PublicResolver"} :
              Runs(s) => At("ETHRegistrarController") = Sole("ETHRegistrarController")
         /\ Runs("UniversalResolver") => At("BatchGatewayProvider") = Sole("BatchGatewayProvider")
         /\ Runs("NameWrapper") => Ahead("OwnedResolver")
<1> DEFINE Deployers == {"DNSSECImpl", "Root", "BaseRegistrarImplementation", "ReverseRegistrar",
                         "NameWrapper", "DefaultReverseRegistrar", "ETHRegistrarController",
                         "BatchGatewayProvider", "ENSRegistry", "ExponentialPremiumPriceOracle"}
           Needs(s, d) == Runs(s) \/ Ahead(s) => Ahead(d)
<1>1. \A s : \A d \in Scripts : <<s, d>> \in DependsOn => Needs(s, d)
  BY Before
<1>2. /\ \A s \in {"Root", "BaseRegistrarImplementation", "LegacyPublicResolver",
                   "ReverseRegistrar", "OffchainDNSResolver", "UniversalResolver"} :
           Needs(s, "ENSRegistry")
      /\ Needs("OffchainDNSResolver", "DNSSECImpl") /\ Needs("RootSecurityController", "Root")
      /\ Needs("RegistrarSecurityController", "BaseRegistrarImplementation")
      /\ Needs("BaseRegistrarImplementation:setup", "BaseRegistrarImplementation")
      /\ Needs("LegacyETHRegistrarController", "BaseRegistrarImplementation:setup")
      /\ Needs("LegacyETHRegistrarController", "ExponentialPremiumPriceOracle")
      /\ \A d \in {"ReverseRegistrar", "OwnedResolver", "RegistrarSecurityController"} :
           Needs("NameWrapper", d)
  BY <1>1, Depending
<1>3. /\ \A s \in {"WrappedETHRegistrarController", "ETHRegistrarController"} :
           Needs(s, "NameWrapper") /\ Needs(s, "ExponentialPremiumPriceOracle")
      /\ Needs("ETHRegistrarController", "DefaultReverseRegistrar")
      /\ \A s \in {"StaticBulkRenewal", "EnableWrapping", "PublicResolver"} :
           Needs(s, "ETHRegistrarController")
      /\ Needs("PublicResolver", "NameWrapper") /\ Needs("MigrationHelper", "NameWrapper")
      /\ Needs("DefaultReverseResolver", "DefaultReverseRegistrar")
      /\ Needs("UniversalResolver", "BatchGatewayProvider")
  BY <1>1, Depending
<1>4. \A d \in Deployers : Ahead(d) => At(d) = Sole(d)
  <2>1. \A d \in Deployers : \E k \in {1, 2, 3} : <<d, k, d>> \in Due
    BY DEF Due
  <2> QED
    BY <2>1, Readied
<1>5. Runs("ENSRegistry") /\ pc = 2 /\ Tag("legacy") =>
        At("LegacyENSRegistry") = Sole("LegacyENSRegistry")
  <2>1. Tag("legacy") => <<"ENSRegistry", 1, "LegacyENSRegistry">> \in Due
    BY DEF Due
  <2> QED
    BY <2>1, Readied
<1> QED
  BY <1>2, <1>3, <1>4, <1>5

-----------------------------------------------------------------------------
(* The scripts, but those that serve and wrap the top-level domain's names. *)

Calm ==
  /\ LeavesOwners(chain') /\ L2OK'
  /\ \E c : c \notin {"OwnedResolver", "NameWrapper"} /\ Steps(c)

\* A statement that deploys nothing due, or what is due, is calm.
LEMMA Calming ==
  ASSUME SteadyRun, ~Runs("L2ReverseRegistrar")
  PROVE  /\ Plainly /\ (Throw \/ \A d \in Due : Runs(d[1]) => pc > d[2]) => Calm
         /\ \A c : /\ Adds(c) /\ c \notin {"OwnedResolver", "NameWrapper"} /\ (c = Feed => HasFeed)
                   /\ \A d \in Due : Runs(d[1]) => pc # d[2] \/ d[3] = c
                   => Calm
<1>0. pc \in Nat /\ \A d \in Due : d[2] \in Nat
  BY DueScripts DEF SteadyRun, RolloutInv, RunOK
<1>1. Moves => L2OK'
  BY DEF L2OK, Moves, Remains, Return, Throw, Runs, SteadyRun
<1>2. ASSUME Plainly, Throw \/ \A d \in Due : Runs(d[1]) => pc > d[2] PROVE Calm
  <2>1. Provides
    BY <1>0, <1>2 DEF Provides
  <2>2. Steps("DNSRegistrar")
    BY <1>2, <2>1 DEF Plainly, Steps, Feed
  <2> QED
    BY <1>1, <1>2, <2>2 DEF Plainly, Calm
<1>3. ASSUME NEW c, Adds(c), c \notin {"OwnedResolver", "NameWrapper"}, c = Feed => HasFeed,
             \A d \in Due : Runs(d[1]) => pc # d[2] \/ d[3] = c
      PROVE  Calm
  <2>1. Provides
    BY <1>0, <1>3 DEF Provides, Adds
  <2>2. Steps(c)
    BY <1>3, <2>1 DEF Steps, Adds, Moves
  <2> QED
    BY <1>1, <1>3, <2>2 DEF Calm, Steps, Adds
<1> QED
  BY <1>2, <1>3

\* Those that deploy what is due, under their own name.
Suppliers == {"DNSSECImpl", "Root", "BaseRegistrarImplementation", "ReverseRegistrar",
              "DefaultReverseRegistrar", "ETHRegistrarController", "BatchGatewayProvider"}

\* The same of the scripts that deploy one contract that is due, first thing.
LEMMA Supplying ==
  ASSUME SteadyRun, NEW s \in Suppliers, Runs(s)
  PROVE  /\ Adds(s) => Calm
         /\ Throw => Calm
         /\ pc > 1 /\ Plainly => Calm
<1>1. \A d \in Due : Runs(d[1]) => (d[2] = 1) /\ (d[3] = s)
  BY DueScripts DEF Runs, Suppliers
<1>2. s \notin {"OwnedResolver", "NameWrapper"} /\ s # Feed /\ ~Runs("L2ReverseRegistrar")
  BY DEF Suppliers, Feed, Runs
<1>3. Throw => Plainly
  BY PlainSteps
<1> QED
  BY <1>1, <1>2, <1>3, Calming

\* And of those that deploy nothing that is due.
LEMMA Unrequired ==
  ASSUME SteadyRun, NEW s, Runs(s),
         s \notin Suppliers \cup {"OwnedResolver", "NameWrapper", "ENSRegistry",
                                  "ExponentialPremiumPriceOracle", "L2ReverseRegistrar"}
  PROVE  /\ Plainly => Calm
         /\ \A c : /\ c \notin {"OwnedResolver", "NameWrapper", "OwnedUsdOracle", "DummyOracle"}
                   /\ Adds(c)
                   => Calm
<1>1. \A d \in Due : ~Runs(d[1])
  BY DueScripts DEF Runs, Suppliers
<1>2. Feed \in {"OwnedUsdOracle", "DummyOracle"} /\ ~Runs("L2ReverseRegistrar")
  BY DEF Feed, Runs
<1> QED
  BY <1>1, <1>2, Calming

\* Given to no other end than to be told apart.
LEMMA GivenNothing ==
  \A c \in {"LegacyENSRegistry", "RSASHA1Algorithm", "RSASHA256Algorithm", "P256SHA256Algorithm",
            "DummyAlgorithm", "SHA1Digest", "SHA256Digest", "DummyDigest", "DNSSECImpl",
            "SimplePublicSuffixList", "OwnedResolver", "ExtendedDNSResolver",
            "DefaultReverseRegistrar", "Multicall3", "UniversalSigValidator",
            "L2ReverseRegistrar"} : Given(c) = << >>
BY DEF Given, Arguments

\* What is given to the contracts of the scripts, one by one.
LEMMA GivenOf ==
  /\ Given("ENSRegistry") = IF Tag("legacy") THEN <<Sole("LegacyENSRegistry")>> ELSE << >>
  /\ \A c \in {"Root", "BaseRegistrarImplementation", "ReverseRegistrar", "LegacyPublicResolver"} :
       Given(c) = <<Sole("ENSRegistry")>>
  /\ Given("OffchainDNSResolver") = <<Sole("ENSRegistry"), Sole("DNSSECImpl")>>
  /\ Given("StaticBulkRenewal") = <<Sole("ETHRegistrarController")>>
  /\ Given("UniversalRegistrarRenewalWithReferrer") =
       <<Sole("ETHRegistrarController"), Sole("NameWrapper")>>
  /\ Given("UniversalResolver") = <<Owner, Sole("ENSRegistry"), Sole("BatchGatewayProvider")>>
  /\ Given("OwnedUsdOracle") = <<Price>> /\ Given("DummyOracle") = <<"160000000000">>
  /\ Given("ExponentialPremiumPriceOracle") = <<IF HasFeed THEN Sole(Feed) ELSE Nobody>>
  /\ \A c \in {"RootSecurityController", "RegistrarSecurityController",
               "LegacyETHRegistrarController", "WrappedETHRegistrarController",
               "ETHRegistrarController", "PublicResolver", "DefaultReverseResolver",
               "BatchGatewayProvider", "MigrationHelper"} : Given(c) = Arguments(c)
BY DEF Given, Arguments

\* The scripts of the registry, the root and DNSSEC.
LEMMA CalmRoot == ASSUME SteadyRun, RootStep PROVE Calm
<1> DEFINE Two == {"OwnedResolver", "NameWrapper", "OwnedUsdOracle", "DummyOracle"}
<1>0. RolloutInv /\ outcome = "running" /\ pc \in Nat \ {0} /\ Pipeline[place] \in net.scripts
      /\ LeavesOwners(chain)
  BY DEF SteadyRun, RolloutInv, RunOK, LeavesOwners
<1>1. CASE DeployRegistry
  <2>1. Runs("ENSRegistry") /\ ~Runs("L2ReverseRegistrar")
    BY <1>1 DEF DeployRegistry, Runs
  <2>2. \A d \in Due : Runs(d[1]) => \/ d[2] = 2 /\ d[3] = "ENSRegistry"
                                     \/ d[2] = 1 /\ d[3] = "LegacyENSRegistry" /\ Tag("legacy")
    BY <2>1, DueScripts DEF Due, Runs
  <2>3. Feed \notin {"ENSRegistry", "LegacyENSRegistry"}
    BY DEF Feed
  <2>4. CASE pc = 1
    <3>1. CASE Tag("legacy")
      <4>1. Adds("LegacyENSRegistry")
        BY <1>1, <2>4, <3>1, GivenNothing, Deployments DEF DeployRegistry, Replaced
      <4> QED
        BY <2>1, <2>2, <2>3, <2>4, <4>1, Calming
    <3>2. CASE ~Tag("legacy")
      <4>1. Skip
        BY <1>1, <2>4, <3>2 DEF DeployRegistry
      <4>2. Plainly
        BY <4>1, PlainSteps
      <4>3. Provides
        BY <2>2, <2>4, <3>2, <4>1 DEF Provides, Remains, Skip, Goto
      <4>4. Steps("DNSRegistrar") /\ L2OK'
        BY <2>1, <4>1, <4>2, <4>3 DEF Steps, Plainly, Feed, L2OK, Runs, Skip, Goto
      <4> QED
        BY <4>2, <4>4 DEF Calm, Plainly
    <3> QED
      BY <3>1, <3>2
  <2>5. CASE pc = 2
    <3>1. LeavesOwners(SetNode("root.", Deployer))
      BY <1>0, LeavingOwners
    <3>2. Create("ENSRegistry", Given("ENSRegistry"), SetNode("root.", Deployer))
      BY <1>1, <2>1, <2>5, AtHand, GivenOf DEF DeployRegistry
    <3>3. Adds("ENSRegistry")
      BY <3>1, <3>2, AddingIt
    <3> QED
      BY <2>1, <2>2, <2>3, <2>5, <3>3, Calming
  <2>6. CASE pc \notin {1, 2}
    <3>1. Plainly
      BY <1>1, <2>6, PlainSteps, PlainWrites DEF DeployRegistry
    <3> QED
      BY <1>0, <2>1, <2>2, <2>6, <3>1, Calming
  <2> QED
    BY <2>4, <2>5, <2>6
<1>2. CASE DeployAlgorithms \/ DeployDigests
  <2>1. PICK s \in {"Algorithms", "Digests"} : Runs(s)
    BY <1>2 DEF DeployAlgorithms, DeployDigests
  <2> DEFINE Verifying(contracts) ==
               \A i \in DOMAIN contracts : contracts[i] \in
                 {"RSASHA1Algorithm", "RSASHA256Algorithm", "P256SHA256Algorithm",
                  "DummyAlgorithm", "SHA1Digest", "SHA256Digest", "DummyDigest"}
             algorithms == <<"RSASHA1Algorithm", "RSASHA256Algorithm", "P256SHA256Algorithm">>
                             \o IF Tag("test") THEN <<"DummyAlgorithm">> ELSE << >>
             digests == <<"SHA1Digest", "SHA256Digest">>
                          \o IF Tag("test") THEN <<"DummyDigest">> ELSE << >>
  <2>5. Verifying(algorithms) /\ Verifying(digests)
    OBVIOUS
  <2>2. PICK contracts : DeployEach(contracts) /\ Verifying(contracts)
    BY <1>2, <2>5 DEF DeployAlgorithms, DeployDigests
  <2>3. CASE pc \in DOMAIN contracts
    <3>1. Adds(contracts[pc])
      BY <2>2, <2>3, GivenNothing, Deployments DEF DeployEach, Replaced
    <3> QED
      BY <2>1, <2>2, <2>3, <3>1, Unrequired DEF Suppliers
  <2>4. CASE pc \notin DOMAIN contracts
    BY <2>1, <2>2, <2>4, Unrequired, PlainSteps DEF Suppliers, DeployEach
  <2> QED
    BY <2>3, <2>4
<1>3. CASE DeployOracle
  <2>1. Runs("DNSSECImpl") /\ "DNSSECImpl" \in Suppliers
    BY <1>3 DEF DeployOracle, Suppliers
  <2>2. pc = 1 => Adds("DNSSECImpl")
    BY <1>3, GivenNothing, Deployments DEF DeployOracle, Replaced
  <2>3. pc # 1 => Plainly
    <3>1. \A a, slot, x : LeavesOwners(SetPointer(a, slot, x))
      BY <1>0, LeavingOwners
    <3>2. 2 \in Nat \ {0, 1}
      OBVIOUS
    <3> QED
      BY <1>3, <3>1, <3>2, PlainSteps, PlainSends DEF DeployOracle
  <2> QED
    BY <1>0, <2>1, <2>2, <2>3, Supplying
<1>4. CASE DeployOffchainResolver
  <2>1. Runs("OffchainDNSResolver")
    BY <1>4 DEF DeployOffchainResolver
  <2>2. Adds("OffchainDNSResolver") \/ Plainly
    BY <1>4, <2>1, AtHand, GivenOf, Deployments, PlainSteps DEF DeployOffchainResolver, Replaced
  <2> QED
    BY <2>1, <2>2, Unrequired DEF Suppliers
<1>5. CASE DeployPublicSuffixList
  <2>1. Runs("SimplePublicSuffixList")
    BY <1>5 DEF DeployPublicSuffixList
  <2>2. Adds("SimplePublicSuffixList") \/ Plainly
    BY <1>5, GivenNothing, Deployments, PlainSteps, PlainWrites
       DEF DeployPublicSuffixList, Replaced, Guarded
  <2> QED
    BY <2>1, <2>2, Unrequired DEF Suppliers
<1>6. CASE DeployDNSRegistrar
  <2>1. Runs("DNSRegistrar")
    BY <1>6 DEF DeployDNSRegistrar
  <2>2. Adds("DNSRegistrar") \/ Plainly
    BY <1>6, Deployments, PlainSteps, PlainWrites DEF DeployDNSRegistrar, Replaced
  <2> QED
    BY <2>1, <2>2, Unrequired DEF Suppliers
<1>7. CASE EnableTlds
  <2>1. Runs("SetTlds")
    BY <1>7 DEF EnableTlds
  <2>2. Plainly
    BY <1>7, PlainSteps, PlainWrites DEF EnableTlds
  <2> QED
    BY <2>1, <2>2, Unrequired DEF Suppliers
<1>8. CASE DeployRoot
  <2>1. Runs("Root") /\ "Root" \in Suppliers
    BY <1>8 DEF DeployRoot, Suppliers
  <2>2. Tag("use_root")
    BY <1>0, <2>1, Shells DEF Runs
  <2>3. pc = 1 => Adds("Root")
    BY <1>8, <2>1, <2>2, AtHand, GivenOf, Deployments DEF DeployRoot, Replaced
  <2>4. pc # 1 => Plainly
    BY <1>8, PlainSteps DEF DeployRoot
  <2> QED
    BY <1>0, <2>1, <2>3, <2>4, Supplying
<1>9. CASE DeployRootSecurityController
  <2>1. Runs("RootSecurityController")
    BY <1>9 DEF DeployRootSecurityController
  <2>2. Given("RootSecurityController") = <<At("Root")>>
    BY <2>1, AtHand, GivenOf, ArgumentsOf
  <2>3. Adds("RootSecurityController") \/ Plainly
    BY <1>9, <2>2, Deployments, PlainSteps, PlainWrites
       DEF DeployRootSecurityController, Replaced, Guarded
  <2> QED
    BY <2>1, <2>3, Unrequired DEF Suppliers
<1>10. CASE SetupRoot
  <2>1. Runs("Root:setup")
    BY <1>10 DEF SetupRoot
  <2>2. LeavesOwners(SetNode("root.", At("Root"))) /\ LeavesOwners(SetOwner("Root", Owner))
        /\ \A x : LeavesOwners(AddController("Root", x))
    BY <1>0, LeavingOwners DEF Guarded
  <2>3. 5 \in Nat \ {0, 1}
    OBVIOUS
  <2>4. Plainly
    BY <1>10, <2>2, <2>3, PlainSteps, PlainSends DEF SetupRoot
  <2> QED
    BY <2>1, <2>4, Unrequired DEF Suppliers
<1> QED
  BY <1>1, <1>2, <1>3, <1>4, <1>5, <1>6, <1>7, <1>8, <1>9, <1>10 DEF SteadyRun, RootStep

\* The price oracle and its feed: the recorded price is the one exported now.
LEMMA CalmOracle == ASSUME SteadyRun, DeployPriceOracle PROVE Calm
<1> DEFINE oracle == "ExponentialPremiumPriceOracle"
<1>0. /\ Runs(oracle) /\ ~Runs("L2ReverseRegistrar") /\ RolloutInv /\ pc \in Nat
  BY DEF SteadyRun, RolloutInv, RunOK, DeployPriceOracle, Runs
<1>1. /\ Feed = (IF Tag("owned_oracle") THEN "OwnedUsdOracle" ELSE "DummyOracle")
      /\ Feed \notin {oracle, "OwnedResolver", "NameWrapper", "DNSRegistrar"} /\ Feed \notin Guarded
  BY DEF Feed, Guarded
<1>2. \A d \in Due : Runs(d[1]) => \/ d[2] = 3 /\ d[3] = oracle
                                   \/ d[2] = 1 /\ d[3] = Feed /\ HasFeed
  BY <1>0, DueScripts DEF Due, Runs
<1>3. Given(Feed) = <<IF Tag("owned_oracle") THEN env.price ELSE "160000000000">>
  BY <1>0, <1>1, GivenOf, Shells DEF SteadyRun, SteadyInv
<1>8. /\ pc = 1 \/ pc = 2 \/ pc = 3 \/ pc = 4
      /\ pc = 1 => IF HasFeed
                   THEN Deploy(Feed, <<IF Tag("owned_oracle") THEN env.price ELSE "160000000000">>)
                   ELSE Skip
      /\ pc = 2 => IF Tag("owned_oracle") /\ mem.fresh THEN HandOver(Feed) ELSE Skip
      /\ pc = 3 => Deploy(oracle, <<At(Feed)>>)
      /\ pc = 4 => Return(FALSE)
  <2>1. /\ (pc = 1 => pc # 2 /\ pc # 3 /\ pc # 4) /\ (pc = 2 => pc # 1 /\ pc # 3 /\ pc # 4)
        /\ (pc = 3 => pc # 1 /\ pc # 2 /\ pc # 4) /\ (pc = 4 => pc # 1 /\ pc # 2 /\ pc # 3)
    OBVIOUS
  <2> QED
    BY <2>1, Zenon DEF DeployPriceOracle, Feed, HasFeed
<1>4. CASE pc = 1 /\ HasFeed
  <2>1. Adds(Feed)
    BY <1>1, <1>3, <1>4, <1>8, Deployments DEF Feed, Replaced
  <2> QED
    BY <1>0, <1>1, <1>2, <1>4, <2>1, Calming
<1>5. CASE pc = 2 \/ (pc = 1 /\ ~HasFeed)
  <2>1. Skip \/ (HandOver(Feed) /\ pc = 2)
    BY <1>5, <1>8
  <2>2. Plainly
    BY <1>1, <2>1, PlainSteps, PlainWrites
  <2>3. Throw \/ (Remains /\ pc' <= 3 /\ pc' = pc + 1)
    BY <1>0, <1>5, <2>1 DEF HandOver, SendUnless, Send, Tx, Skip, Goto, Remains
  <2>4. Provides
    BY <1>2, <1>5, <2>3 DEF Provides
  <2>5. Steps("DNSRegistrar") /\ L2OK'
    BY <1>0, <1>1, <2>2, <2>3, <2>4 DEF Steps, Plainly, L2OK, Runs, Remains, Throw
  <2> QED
    BY <2>2, <2>5 DEF Calm, Plainly
<1>6. CASE pc = 3
  <2>1. HasFeed => At(Feed) = Sole(Feed)
    <3>1. HasFeed => <<oracle, 1, Feed>> \in Due
      BY DEF Due
    <3> QED
      BY <1>0, <1>6, <3>1, Readied
  <2>2. ~HasFeed => At(Feed) = Nobody
    BY DEF At, SteadyRun, SteadyInv, DueOK
  <2>3. Given(oracle) = <<At(Feed)>>
    BY <2>1, <2>2, GivenOf
  <2>4. Adds(oracle)
    BY <1>6, <1>8, <2>3, Deployments DEF Replaced
  <2> QED
    BY <1>0, <1>1, <1>2, <1>6, <2>4, Calming
<1>7. CASE pc = 4
  BY <1>0, <1>2, <1>7, <1>8, PlainSteps, Calming
<1> QED
  BY <1>4, <1>5, <1>6, <1>7, <1>8

\* The scripts that register names deploy nothing.
LEMMA CalmNames ==
  ASSUME SteadyRun, RegisterReservedNames \/ RegisterInfrastructureNames PROVE Calm
<1>0. RolloutInv /\ pc + 1 \in Nat \ {0, 1}
  BY DEF SteadyRun, RolloutInv, RunOK
<1>1. PICK s \in {"ReservedNames", "InfrastructureNames"} : Runs(s)
  BY DEF RegisterReservedNames, RegisterInfrastructureNames
<1>2. /\ \A l, x : /\ LeavesOwners([chain EXCEPT !.token[l] = x]) /\ LeavesOwners(SetNode(l, x))
                   /\ LeavesOwners([chain EXCEPT !.token[l] = x, !.node[l] = x])
                   /\ l # "etn." => LeavesOwners(SetResolver(l, x))
      /\ \A c, x : LeavesOwners(AddController(c, x)) /\ LeavesOwners(DropController(c, x))
      /\ LeavesOwners(chain)
  BY <1>0, LeavingOwners
<1>3. (\A m : Remember(m) => Plainly) /\ (NextName => Plainly) /\ (RevokeIfGranted => Plainly)
  <2>1. ASSUME NEW m, Remember(m) PROVE Plainly
    BY <1>0, <1>2, <2>1 DEF Remember, Plainly, Moves, Remains
  <2>2. ASSUME NextName PROVE Plainly
    <3>1. Remains
      BY <2>2, 2 \in Nat \ {0, 1} DEF NextName, Remains
    <3> QED
      BY <1>2, <2>2, <3>1 DEF NextName, Plainly, Moves
  <2>3. RevokeIfGranted => Plainly
    BY <1>2, PlainSends DEF RevokeIfGranted
  <2> QED
    BY <2>1, <2>2, <2>3
<1>4. \A next \in {3, 4} : Grant(next) => Plainly
  <2>1. {3, 4} \subseteq Nat \ {0, 1}
    OBVIOUS
  <2> QED
    BY <1>2, <2>1, PlainSteps, PlainSends DEF Grant
<1>5. CASE RegisterReservedNames
  <2>1. 3 \in Nat \ {0, 1}
    OBVIOUS
  <2>2. \A l : Tx(RegisterAllowed(l), Registered(l), [mem EXCEPT !.left = Rest], 3) => Plainly
    BY <1>2, <2>1, PlainSends DEF Registered
  <2>3. Plainly
    BY <1>3, <1>4, <1>5, <2>2, PlainSteps DEF RegisterReservedNames
  <2> QED
    BY <1>1, <2>3, Unrequired DEF Suppliers
<1>6. CASE RegisterInfrastructureNames
  <2> DEFINE l == Infrastructure[First]
             target == env.target
  <2>1. {2, 4, 9} \subseteq Nat \ {0, 1}
    OBVIOUS
  <2>2. \A x : pc = 6 => LeavesOwners(SetResolver(l, x))
    <3>0. DOMAIN Infrastructure \subseteq Nat
      BY RolloutAssumption
    <3>1. pc = 6 => mem.left \subseteq DOMAIN Infrastructure
      BY <1>6 DEF SteadyRun, RolloutInv, InfrastructureOK, RegisterInfrastructureNames
    <3>2. pc = 6 => First \in mem.left
      BY <1>6, <3>0, <3>1, MinIsLeast
         DEF SteadyRun, RolloutInv, InfrastructureOK, RegisterInfrastructureNames, First
    <3>3. pc = 6 => l \in Labels
      BY <3>1, <3>2 DEF Labels
    <3>4. pc = 6 => l # "etn."
      BY <3>3, FixedNodes, RolloutAssumption
    <3> QED
      BY <1>2, <3>4
  <2>3. /\ pc = 4 => (SendUnless(~mem.available, RegisterAllowed(l), Registered(l)) => Plainly)
        /\ pc = 6 => (SendUnless(HasItsResolver(l), chain.node[l] = Owner,
                                 SetResolver(l, At("PublicResolver"))) => Plainly)
        /\ SendUnless(~(target # Owner) \/ mem.registrant # Owner, chain.token[l] = Owner,
                      [chain EXCEPT !.token[l] = target]) => Plainly
        /\ Tx(chain.node[l] = Owner, SetNode(l, target), NameDone, 2) => Plainly
    BY <1>2, <2>1, <2>2, PlainSends DEF Registered
  <2>4. Plainly
    BY <1>3, <1>4, <1>6, <2>1, <2>3, PlainSteps DEF RegisterInfrastructureNames
  <2> QED
    BY <1>1, <2>4, Unrequired DEF Suppliers
<1> QED
  BY <1>5, <1>6

\* The scripts of the registrar and the controllers.
LEMMA CalmRegistrar == ASSUME SteadyRun, RegistrarStep PROVE Calm
<1>0. /\ RolloutInv /\ outcome = "running" /\ pc \in Nat \ {0} /\ Pipeline[place] \in net.scripts
      /\ LeavesOwners(chain)
  BY DEF SteadyRun, RolloutInv, RunOK, LeavesOwners
<1>1. CASE DeployBaseRegistrar
  <2>1. Runs("BaseRegistrarImplementation") /\ "BaseRegistrarImplementation" \in Suppliers
    BY <1>1 DEF DeployBaseRegistrar, Suppliers
  <2>2. Tag("use_root")
    BY <1>0, <2>1, Shells DEF Runs
  <2>3. pc = 1 => Adds("BaseRegistrarImplementation")
    BY <1>1, <2>1, <2>2, AtHand, GivenOf, Deployments DEF DeployBaseRegistrar, Replaced
  <2>4. pc # 1 => Plainly
    BY <1>1, PlainSteps DEF DeployBaseRegistrar
  <2> QED
    BY <1>0, <2>1, <2>3, <2>4, Supplying
<1>2. CASE DeployRegistrarSecurityController
  <2> DEFINE c == "RegistrarSecurityController"
  <2>1. Runs(c)
    BY <1>2 DEF DeployRegistrarSecurityController
  <2>2. Given(c) = <<At("BaseRegistrarImplementation")>>
    BY <2>1, AtHand, GivenOf, ArgumentsOf
  <2>3. LeavesOwners(SetOwner(c, Owner))
    BY <1>0, LeavingOwners
  <2>4. HandOverIfFresh(c) => Plainly
    BY <2>3, PlainSends, PlainSteps DEF HandOver, HandOverIfFresh
  <2>5. Adds(c) \/ Plainly
    BY <1>2, <2>2, <2>4, Deployments, PlainSteps DEF DeployRegistrarSecurityController, Replaced
  <2> QED
    BY <2>1, <2>5, Unrequired DEF Suppliers
<1>3. CASE SetupBaseRegistrar
  <2> DEFINE c == "BaseRegistrarImplementation"
             after == SetOwner(c, At("RegistrarSecurityController"))
  <2>1. Runs("BaseRegistrarImplementation:setup")
    BY <1>3 DEF SetupBaseRegistrar
  <2>2. ~RegistrarIsSecured => LeavesOwners(after)
    BY <1>0, LeavingOwners DEF RegistrarIsSecured, SecurityControllerAllows
  <2>3. SendUnless(RegistrarIsSecured, OwnedBy(c, Deployer), after) => Plainly
    BY <2>2, PlainSends, PlainSteps DEF SendUnless
  <2>4. Plainly
    BY <1>3, <2>3, PlainSteps, PlainWrites DEF SetupBaseRegistrar
  <2> QED
    BY <2>1, <2>4, Unrequired DEF Suppliers
<1>4. CASE DeployLegacyController
  <2>1. Runs("LegacyETHRegistrarController")
    BY <1>4 DEF DeployLegacyController
  <2>2. Given("LegacyETHRegistrarController") =
          <<At("BaseRegistrarImplementation"), At("ExponentialPremiumPriceOracle")>>
    BY <2>1, AtHand, GivenOf, ArgumentsOf
  <2>3. Adds("LegacyETHRegistrarController") \/ Plainly
    BY <1>4, <2>2, Deployments, PlainSteps, PlainWrites DEF DeployLegacyController, Replaced
  <2> QED
    BY <2>1, <2>3, Unrequired DEF Suppliers
<1>5. CASE DeployWrappedController
  <2> DEFINE c == "WrappedETHRegistrarController"
             args == <<At("BaseRegistrarImplementation"), At("ExponentialPremiumPriceOracle"),
                       At("ReverseRegistrar"), At("NameWrapper"), At("ENSRegistry")>>
  <2>1. Runs(c)
    BY <1>5 DEF DeployWrappedController
  <2>2. Given(c) = args
    BY <2>1, AtHand, GivenOf, ArgumentsOf
  <2>3. c \notin Guarded
    BY DEF Guarded
  <2>4. Deploy(c, args) => Adds(c)
    BY <2>2, Deployments DEF Replaced
  <2>6. pc = 1 => Adds(c) \/ Plainly
    <3>1. ASSUME pc = 1 PROVE Deploy(c, args) \/ Return(FALSE)
      <4>1. pc # 2 /\ pc # 3 /\ pc # 4 /\ pc # 5 /\ pc # 6
        BY <3>1
      <4> QED
        BY <1>5, <4>1, Zenon DEF DeployWrappedController
    <3> QED
      BY <2>4, <3>1, PlainSteps
  <2>5. pc # 1 => Plainly
    BY <1>5, <2>3, PlainSteps, PlainWrites DEF DeployWrappedController
  <2> QED
    BY <2>1, <2>5, <2>6, Unrequired DEF Suppliers
<1>6. CASE DeployController
  <2> DEFINE c == "ETHRegistrarController"
  <2>1. Runs(c) /\ c \in Suppliers
    BY <1>6 DEF DeployController, Suppliers
  <2>2. Given(c) = <<At("BaseRegistrarImplementation"), At("ExponentialPremiumPriceOracle"),
                     At("ReverseRegistrar"), At("DefaultReverseRegistrar"), At("ENSRegistry")>>
    BY <2>1, AtHand, GivenOf, ArgumentsOf
  <2>3. c \notin Guarded
    BY DEF Guarded
  <2>4. pc = 1 => Adds(c)
    BY <1>6, <2>2, Deployments DEF DeployController, Replaced
  <2>5. pc # 1 => Plainly
    BY <1>6, <2>3, PlainSteps, PlainWrites DEF DeployController
  <2> QED
    BY <1>0, <2>1, <2>4, <2>5, Supplying
<1>7. CASE DeployBulkRenewal
  <2>1. Runs("StaticBulkRenewal")
    BY <1>7 DEF DeployBulkRenewal
  <2>2. Given("StaticBulkRenewal") = <<At("ETHRegistrarController")>>
    BY <2>1, AtHand, GivenOf
  <2>3. Adds("StaticBulkRenewal") \/ Plainly
    BY <1>7, <2>2, Deployments, PlainSteps, PlainWrites DEF DeployBulkRenewal, Replaced
  <2> QED
    BY <2>1, <2>3, Unrequired DEF Suppliers
<1>8. CASE EnableWrapping
  <2> DEFINE c == "UniversalRegistrarRenewalWithReferrer"
  <2>1. Runs("EnableWrapping")
    BY <1>8 DEF EnableWrapping
  <2>2. Given(c) = <<At("ETHRegistrarController"), At("NameWrapper")>>
    BY <2>1, AtHand, GivenOf
  <2>3. c \notin Guarded
    BY DEF Guarded
  <2>4. Adds(c) \/ Plainly
    BY <1>8, <2>2, <2>3, Deployments, PlainSteps, PlainWrites DEF EnableWrapping, Replaced
  <2> QED
    BY <2>1, <2>4, Unrequired DEF Suppliers
<1> QED
  BY <1>1, <1>2, <1>3, <1>4, <1>5, <1>6, <1>7, <1>8, CalmOracle, CalmNames
     DEF SteadyRun, RegistrarStep

\* The scripts of Multicall3 and of the signature validator.
LEMMA CalmShared ==
  ASSUME SteadyRun, DeployMulticall \/ DeploySigValidator PROVE Calm
<1>0. RolloutInv /\ LeavesOwners(chain)
  BY DEF SteadyRun, LeavesOwners
<1>1. \A site : /\ LeavesOwners([chain EXCEPT !.code = @ \cup {site}])
                /\ LeavesOwners([chain EXCEPT !.funded = @ \cup {site}])
  BY <1>0, LeavingOwners
<1>2. \A site : Fund(site) => Plainly
  BY <1>1, PlainSends DEF Fund
<1>3. \A site : \A mined, rejected, unfunded \in Nat \ {0, 1} :
        Broadcast(site, mined, rejected, unfunded) => Plainly
  BY <1>1, PlainSends, PlainSteps DEF Broadcast
<1>4. {2, 4, 5, 6, 7} \subseteq Nat \ {0, 1}
  OBVIOUS
<1>5. CASE DeployMulticall
  <2> DEFINE c == "Multicall3"
  <2>1. Runs(c)
    BY <1>5 DEF DeployMulticall
  <2>2. Record(c) => Adds(c)
    <3>1. SUFFICES ASSUME Record(c) PROVE Adds(c)
      OBVIOUS
    <3>2. /\ DOMAIN saved' = DOMAIN saved \cup {c} /\ saved'[c].args = << >>
          /\ \A d \in DOMAIN saved \ {c} : saved'[d] = saved[d]
      BY <3>1 DEF Record, Put
    <3>3. Given(c) = << >> /\ KeptOK
      BY GivenNothing DEF SteadyRun, SteadyInv
    <3>4. (\A d : Given(d)' = Given(d)) /\ (\A d : Address(d)' = Address(d))
      BY Unvarying DEF SteadyRun
    <3>5. KeptOK'
      BY <3>2, <3>3, <3>4 DEF KeptOK
    <3>7. RecordsStay
      BY <3>1, <3>2 DEF RecordsStay, Record, Put
    <3>6. Remains /\ (pc' = pc + 1) /\ UNCHANGED chain
      BY <3>1 DEF Record, Remains, SteadyRun, RolloutInv, RunOK
    <3> QED
      BY <1>0, <3>2, <3>5, <3>6, <3>7 DEF Adds
  <2>3. Adds(c) \/ Plainly
    <3>1. ProbeMulticall => Plainly
      BY <1>3, <1>4 DEF ProbeMulticall
    <3>2. Broadcast(c, 5, 7, 2) => Plainly
      BY <1>3, <1>4
    <3>3. Deploy(c, << >>) => Adds(c)
      BY GivenNothing, Deployments
    <3> QED
      BY <1>2, <1>5, <2>2, <3>1, <3>2, <3>3, PlainSteps DEF DeployMulticall
  <2> QED
    BY <2>1, <2>3, Unrequired DEF Suppliers
<1>6. CASE DeploySigValidator
  <2> DEFINE c == "UniversalSigValidator"
  <2>1. Runs(c)
    BY <1>6 DEF DeploySigValidator
  <2>2. Adds(c) \/ Plainly
    <3>1. Broadcast("DDP", 4, 6, 2) => Plainly
      BY <1>3, <1>4
    <3>2. Deploy(c, << >>) => Adds(c)
      BY GivenNothing, Deployments
    <3>3. Goto(4) => Plainly
      BY <1>4, PlainSteps
    <3> QED
      BY <1>1, <1>2, <1>6, <3>1, <3>2, <3>3, PlainSteps, PlainSends DEF DeploySigValidator
  <2> QED
    BY <2>1, <2>2, Unrequired DEF Suppliers
<1> QED
  BY <1>5, <1>6

\* The L2 registrar is recorded at its canonical address where there is a Safe to deploy it.
LEMMA CalmSafe == ASSUME SteadyRun, DeployL2Registrar PROVE Calm
<1> DEFINE c == "L2ReverseRegistrar"
<1>0. /\ RolloutInv /\ LeavesOwners(chain) /\ Runs(c) /\ pc \in Nat \ {0} /\ UNCHANGED env
      /\ pc > 2 => env.safeKey
  BY DEF SteadyRun, RolloutInv, RunOK, LeavesOwners, DeployL2Registrar, SteadyInv, L2OK
<1>1. \A d \in Due : ~Runs(d[1])
  BY <1>0, DueScripts DEF Runs
<1>2. Plainly /\ (Remains /\ pc' > 2 => env.safeKey) => Calm
  <2>1. SUFFICES ASSUME Plainly, Remains /\ pc' > 2 => env.safeKey PROVE Calm
    OBVIOUS
  <2>2. L2OK'
    BY <1>0, <2>1 DEF Plainly, Moves, L2OK, Remains, Return, Throw, Runs
  <2>3. Steps("DNSRegistrar")
    BY <1>1, <2>1 DEF Steps, Plainly, Provides, Feed
  <2> QED
    BY <2>1, <2>2, <2>3 DEF Calm, Plainly
<1>3. Adds(c) /\ (pc + 1 > 2 => env.safeKey) => Calm
  <2>1. SUFFICES ASSUME Adds(c), pc + 1 > 2 => env.safeKey PROVE Calm
    OBVIOUS
  <2>2. L2OK'
    BY <1>0, <2>1 DEF Adds, L2OK
  <2>3. Steps(c)
    BY <1>1, <2>1 DEF Steps, Adds, Moves, Provides, Feed
  <2> QED
    BY <2>1, <2>2, <2>3 DEF Calm, Adds
<1>4. Throw \/ Return(TRUE) \/ Return(FALSE) => Calm
  <2>1. Throw \/ Return(TRUE) \/ Return(FALSE) => ~(Remains /\ pc' > 2)
    BY DEF Throw, Return
  <2> QED
    BY <1>2, <2>1, PlainSteps
<1>5. /\ pc > 2 \/ env.safeKey => (Skip => Calm) /\ (Goto(3) => Calm)
  BY <1>0, <1>2, 3 \in Nat \ {0, 1}, PlainSteps
<1>6. CASE SafePending
  BY <1>4, <1>5, <1>6 DEF SafePending, UsesSafe
<1>7. CASE SafeCreate
  <2>1. Remains /\ UNCHANGED <<chain, saved>> /\ env.safeKey
    BY <1>7, 6 \in Nat \ {0, 1} DEF SafeCreate, Remains, UsesSafe
  <2> QED
    BY <1>0, <1>2, <2>1 DEF Plainly, Moves
<1>8. CASE SafeExecute
  <2>1. CASE Executable(mem.nonce)
    <3>1. Remains /\ UNCHANGED saved /\ (chain' = WithL2Registrar) /\ env.safeKey
      BY <1>0, <1>8, <2>1, 3 \in Nat \ {0, 1} DEF SafeExecute, Remains
    <3>2. LeavesOwners(WithL2Registrar)
      BY <1>0, LeavingOwners DEF WithL2Registrar
    <3> QED
      BY <1>2, <3>1, <3>2 DEF Plainly, Moves
  <2>2. CASE ~Executable(mem.nonce)
    BY <1>4, <1>8, <2>2 DEF SafeExecute
  <2> QED
    BY <2>1, <2>2
<1>9. CASE SafePropose
  <2>1. \/ pc = 6 /\ (Throw \/ Skip)
        \/ pc = 7 /\ Skip
        \/ pc = 8 /\ Return(FALSE)
    BY <1>9, Zenon DEF SafePropose
  <2>2. (pc = 6 => pc > 2) /\ (pc = 7 => pc > 2)
    OBVIOUS
  <2> QED
    BY <1>4, <1>5, <2>1, <2>2, Zenon
<1>10. CASE SafeConfirm
  <2>1. CASE Record(c) /\ pc = 3
    <3>1. env.safeKey /\ Address(c) = <<c, 0>> /\ Given(c) = << >> /\ KeptOK
      BY <1>0, <2>1, GivenNothing DEF Address, SteadyRun, SteadyInv
    <3>2. /\ DOMAIN saved' = DOMAIN saved \cup {c} /\ saved'[c].args = << >>
          /\ saved'[c].at = <<c, 0>> /\ \A d \in DOMAIN saved \ {c} : saved'[d] = saved[d]
      BY <2>1 DEF Record, Put
    <3>3. (\A d : Given(d)' = Given(d)) /\ (\A d : Address(d)' = Address(d))
      BY Unvarying DEF SteadyRun
    <3>4. KeptOK'
      BY <3>1, <3>2, <3>3 DEF KeptOK
    <3>5. RecordsStay
      BY <3>1, <3>2 DEF KeptOK, Replaced, RecordsStay
    <3>6. Remains /\ (pc' = pc + 1) /\ UNCHANGED chain
      BY <1>0, <2>1 DEF Record, Remains
    <3>7. Adds(c)
      BY <1>0, <3>2, <3>4, <3>5, <3>6 DEF Adds
    <3> QED
      BY <1>3, <3>1, <3>7
  <2>2. CASE ~(Record(c) /\ pc = 3)
    <3>1. \/ pc = 3 /\ Throw
          \/ pc = 4 /\ Skip
          \/ pc = 5 /\ Return(TRUE)
      BY <1>10, <2>2, Zenon DEF SafeConfirm
    <3>2. pc = 4 => pc > 2
      OBVIOUS
    <3> QED
      BY <1>4, <1>5, <3>1, <3>2, Zenon
  <2> QED
    BY <2>1, <2>2
<1>11. CASE pc = 1 /\ ~UsesSafe /\ Deploy(c, << >>)
  <2>1. Adds(c)
    BY <1>11, GivenNothing, Deployments DEF UsesSafe
  <2> QED
    BY <1>3, <1>11, <2>1
<1> QED
  BY <1>4, <1>6, <1>7, <1>8, <1>9, <1>10, <1>11 DEF DeployL2Registrar

\* The scripts of the resolvers and the reverse registrars, and the utilities.
LEMMA CalmResolver ==
  ASSUME SteadyRun, ResolverStep, ~Runs("OwnedResolver"), ~Runs("NameWrapper") PROVE Calm
<1>0. /\ RolloutInv /\ outcome = "running" /\ pc \in Nat \ {0} /\ LeavesOwners(chain)
      /\ "resolver" # "etn." /\ "reverse." # "etn."
  BY DEF SteadyRun, RolloutInv, RunOK, LeavesOwners
<1>1. CASE DeployExtendedDNSResolver
  <2>1. Runs("ExtendedDNSResolver") /\ DeployEach(<<"ExtendedDNSResolver">>)
    BY <1>1 DEF DeployExtendedDNSResolver
  <2>2. \A i \in DOMAIN <<"ExtendedDNSResolver">> : <<"ExtendedDNSResolver">>[i] = "ExtendedDNSResolver"
    OBVIOUS
  <2>3. Adds("ExtendedDNSResolver") \/ Plainly
    BY <2>1, <2>2, GivenNothing, Deployments, PlainSteps DEF DeployEach, Replaced
  <2> QED
    BY <2>1, <2>3, Unrequired DEF Suppliers
<1>2. CASE DeployLegacyPublicResolver
  <2>1. Runs("LegacyPublicResolver")
    BY <1>2 DEF DeployLegacyPublicResolver
  <2>2. Adds("LegacyPublicResolver") \/ Plainly
    BY <1>2, <2>1, AtHand, GivenOf, Deployments, PlainSteps DEF DeployLegacyPublicResolver, Replaced
  <2> QED
    BY <2>1, <2>2, Unrequired DEF Suppliers
<1>3. CASE DeployPublicResolver
  <2> DEFINE c == "PublicResolver"
             args == <<At("ENSRegistry"), At("NameWrapper"), At("ETHRegistrarController"),
                       At("ReverseRegistrar")>>
  <2>1. Runs(c)
    BY <1>3 DEF DeployPublicResolver
  <2>2. Given(c) = args
    BY <2>1, AtHand, GivenOf, ArgumentsOf
  <2>3. pc = 1 => Adds(c) \/ Plainly
    BY <1>3, <2>2, Deployments DEF DeployPublicResolver, Replaced
  <2>4. pc # 1 => Plainly
    BY <1>0, <1>3, PlainSteps, PlainWrites DEF DeployPublicResolver
  <2> QED
    BY <2>1, <2>3, <2>4, Unrequired DEF Suppliers
<1>4. CASE DeployReverseRegistrar
  <2> DEFINE c == "ReverseRegistrar"
  <2>1. Runs(c) /\ c \in Suppliers
    BY <1>4 DEF DeployReverseRegistrar, Suppliers
  <2>2. pc = 1 => Adds(c)
    BY <1>4, <2>1, AtHand, GivenOf, Deployments DEF DeployReverseRegistrar, Replaced
  <2>3. pc # 1 => Plainly
    BY <1>4, PlainSteps, PlainWrites DEF DeployReverseRegistrar, Guarded
  <2> QED
    BY <1>0, <2>1, <2>2, <2>3, Supplying
<1>5. CASE DeployDefaultReverseRegistrar
  <2> DEFINE c == "DefaultReverseRegistrar"
  <2>1. Runs(c) /\ c \in Suppliers
    BY <1>5 DEF DeployDefaultReverseRegistrar, Suppliers
  <2>2. pc = 1 => Adds(c)
    BY <1>5, GivenNothing, Deployments DEF DeployDefaultReverseRegistrar, Replaced
  <2>3. pc # 1 => Plainly
    BY <1>5, PlainSteps, PlainWrites DEF DeployDefaultReverseRegistrar, Guarded
  <2> QED
    BY <1>0, <2>1, <2>2, <2>3, Supplying
<1>6. CASE DeployDefaultReverseResolver
  <2> DEFINE c == "DefaultReverseResolver"
  <2>1. Runs(c)
    BY <1>6 DEF DeployDefaultReverseResolver
  <2>2. Given(c) = <<At("DefaultReverseRegistrar")>>
    BY <2>1, AtHand, GivenOf, ArgumentsOf
  <2>3. Adds(c) \/ Plainly
    BY <1>0, <1>6, <2>2, Deployments, PlainSteps, PlainWrites
       DEF DeployDefaultReverseResolver, Replaced
  <2> QED
    BY <2>1, <2>3, Unrequired DEF Suppliers
<1>7. CASE DeployMetadataService
  <2>1. Runs("StaticMetadataService")
    BY <1>7 DEF DeployMetadataService
  <2>2. Adds("StaticMetadataService") \/ Plainly
    BY <1>7, Deployments, PlainSteps DEF DeployMetadataService, Replaced
  <2> QED
    BY <2>1, <2>2, Unrequired DEF Suppliers
<1>8. CASE UpdateMetadataService
  <2>1. Runs("UpdateMetadataService")
    BY <1>8 DEF UpdateMetadataService
  <2>2. Adds("StaticMetadataService") \/ Plainly
    BY <1>8, Deployments, PlainSteps, PlainWrites DEF UpdateMetadataService, Replaced
  <2> QED
    BY <2>1, <2>2, Unrequired DEF Suppliers
<1>9. CASE DeployGatewayProvider
  <2> DEFINE c == "BatchGatewayProvider"
             built == Constructed(c, Owner)
  <2>1. Runs(c) /\ c \in Suppliers
    BY <1>9 DEF DeployGatewayProvider, Suppliers
  <2>2. Given(c) = <<Owner>> /\ (c \notin DOMAIN saved => LeavesOwners(built))
    BY <1>0, GivenOf, ArgumentsOf, LeavingOwners
  <2>3. pc = 1 => Adds(c) \/ Throw
    <3>1. Create(c, <<Owner>>, built) => Adds(c)
      BY <2>2, AddingIt DEF Replaced
    <3> QED
      BY <1>9, <3>1 DEF DeployGatewayProvider
  <2>4. pc # 1 => Plainly
    BY <1>9, PlainSteps DEF DeployGatewayProvider
  <2> QED
    BY <1>0, <2>1, <2>3, <2>4, Supplying
<1>10. CASE DeployUniversalResolver
  <2> DEFINE c == "UniversalResolver"
  <2>1. Runs(c)
    BY <1>10 DEF DeployUniversalResolver
  <2>2. Given(c) = <<Owner, At("ENSRegistry"), At("BatchGatewayProvider")>>
    BY <2>1, AtHand, GivenOf
  <2>3. Adds(c) \/ Plainly
    BY <1>10, <2>2, Deployments, PlainSteps DEF DeployUniversalResolver, Replaced
  <2> QED
    BY <2>1, <2>3, Unrequired DEF Suppliers
<1>11. CASE DeployMigrationHelper
  <2> DEFINE c == "MigrationHelper"
  <2>1. Runs(c)
    BY <1>11 DEF DeployMigrationHelper
  <2>2. Given(c) = <<At("BaseRegistrarImplementation"), At("NameWrapper")>>
    BY <2>1, AtHand, GivenOf, ArgumentsOf
  <2>3. Adds(c) \/ Plainly
    BY <1>11, <2>2, Deployments, PlainSteps, PlainWrites DEF DeployMigrationHelper, Replaced, Guarded
  <2> QED
    BY <2>1, <2>3, Unrequired DEF Suppliers
<1> QED
  BY <1>1, <1>2, <1>3, <1>4, <1>5, <1>6, <1>7, <1>8, <1>9, <1>10, <1>11
     DEF SteadyRun, ResolverStep, DeployOwnedResolver, DeployNameWrapper

-----------------------------------------------------------------------------
(* The script of the top-level domain's resolver.                          *)

\* It hands its contract to the owner in the run that deploys it, and the node of etn. to its
\* resolver before it ends; a run that comes later finds both done.
LEMMA SteadyOwnedResolver ==
  ASSUME SteadyRun, DeployOwnedResolver PROVE SteadyInv' /\ RecordsStay
<1> DEFINE c == "OwnedResolver"
           built == Constructed(c, Deployer)
<1>0. /\ RolloutInv /\ Runs(c) /\ pc \in Nat \ {0} /\ c \in Scripts /\ c \in net.scripts
      /\ Pipeline[place] \notin done /\ UNCHANGED <<net, env>> /\ outcome = "running"
      /\ TldOK /\ OnceOK /\ KeptOK /\ DueOK /\ Owner' = Owner /\ "etn." \in Nodes
  BY ScriptNames, FixedNodes
     DEF SteadyRun, SteadyInv, RolloutInv, RunOK, DeployOwnedResolver, OwnName, Owner, Runs, Nodes
<1>1. /\ pc = 1 => Deploy(c, << >>)
      /\ pc = 2 => IF mem.fresh THEN HandOver(c) ELSE Skip
      /\ pc = 3 => SendUnless(chain.resolver["etn."] = At(c),
                              SecurityControllerAllows /\ chain.node["etn."] = At("BaseRegistrarImplementation"),
                              SetResolver("etn.", At(c)))
      /\ pc = 4 => Return(FALSE)
      /\ pc = 1 \/ pc = 2 \/ pc = 3 \/ pc = 4
  <2>1. /\ (pc = 1 => pc # 2 /\ pc # 3 /\ pc # 4) /\ (pc = 2 => pc # 1 /\ pc # 3 /\ pc # 4)
        /\ (pc = 3 => pc # 1 /\ pc # 2 /\ pc # 4) /\ (pc = 4 => pc # 1 /\ pc # 2 /\ pc # 3)
    OBVIOUS
  <2> QED
    BY <2>1, Zenon DEF DeployOwnedResolver
<1>2. /\ \A d \in Due : Runs(d[1]) => (d[2] = 1) /\ (d[3] = c)
      /\ c # Feed /\ "DNSRegistrar" # Feed /\ Given(c) = << >>
  BY <1>0, DueScripts, GivenNothing DEF Runs, Feed
<1>3. /\ c \in DOMAIN saved => At(c) = Sole(c) /\ At(c) # Nobody
      /\ pc > 1 => c \in DOMAIN saved
  <2>1. <<c, 1, c>> \in Due
    BY DEF Due
  <2>2. pc > 1 => Did(c, 1)
    BY <1>0 DEF Did
  <2>3. pc > 1 => c \in DOMAIN saved
    BY <1>0, <2>1, <2>2 DEF DueOK
  <2>4. Address(c) = Sole(c) /\ Sole(c) # Nobody
    BY DEF Address, Sole, Nobody
  <2>5. c \in DOMAIN saved => saved[c].at = Address(c)
    BY <1>0 DEF KeptOK, Replaced
  <2> QED
    BY <2>3, <2>4, <2>5 DEF At
<1>4. /\ Runs(c) /\ Remains => Runs(c)' /\ ~Behind(c)'
      /\ Throw => ~Runs(c)' /\ ~Behind(c)'
      /\ Return(FALSE) => ~Runs(c)'
  BY <1>0, Moving DEF Moves
<1>5. ASSUME NEW d, Steps(d), d # "NameWrapper", TldOK' PROVE SteadyInv' /\ RecordsStay
  <2>1. /\ done \subseteq done' /\ DOMAIN saved' \subseteq DOMAIN saved \cup {d} /\ RecordsStay
        /\ KeptOK' /\ DueOK'
        /\ outcome' = "running" => GoodEnv(env') /\ Pipeline[place'] \notin done'
    BY <1>5, KeepingRecords
  <2>2. OnceOK'
    BY <1>0, <1>5, <2>1 DEF OnceOK, Runs
  <2>3. L2OK'
    BY <1>0, <1>5 DEF Steps, Moves, L2OK, Remains, Return, Throw, Runs
  <2> QED
    BY <1>5, <2>1, <2>2, <2>3 DEF SteadyInv
<1>6. CASE pc = 1
  <2>1. /\ Adds(c)
        /\ IF c \in DOMAIN saved THEN UNCHANGED <<chain, saved>> /\ ~mem'.fresh
                                 ELSE (chain' = built) /\ mem'.fresh
    <3>1. c \notin DOMAIN saved => LeavesOwners(built)
      BY <1>0, LeavingOwners
    <3> QED
      BY <1>1, <1>2, <1>6, <3>1, AddingIt DEF Deploy, Replaced
  <2>2. Steps(c)
    BY <1>2, <2>1 DEF Steps, Adds, Moves, Provides
  <2>3. c \in DOMAIN saved' /\ At(c)' = Sole(c) /\ pc' = 2 /\ Runs(c)' /\ ~Did(c, 3)'
    <3>1. c \in DOMAIN saved' /\ KeptOK' /\ pc' = 2 /\ Remains
      BY <1>6, <2>1 DEF Adds
    <3>2. saved'[c].at = Address(c)'
      BY <3>1 DEF KeptOK, Replaced
    <3>3. Address(c)' = Sole(c)
      BY DEF Address, Sole
    <3> QED
      BY <1>0, <1>4, <3>1, <3>2, <3>3 DEF At, Did
  <2>4. CASE c \in DOMAIN saved
    <3>1. OwnedBy(c, Owner)
      BY <1>0, <1>6, <2>4 DEF TldOK
    <3>2. OwnedBy(c, Owner)' /\ (SecurityControllerAllows' <=> SecurityControllerAllows)
          /\ (At(c)' = At(c))
      BY <1>0, <2>1, <2>4, <3>1 DEF OwnedBy, At, SecurityControllerAllows
    <3>3. ~mem'.fresh
      BY <2>1, <2>4
    <3>4. TldOK'
      BY <1>0, <2>1, <2>3, <2>4, <3>2, <3>3 DEF TldOK
    <3> QED
      BY <1>5, <2>2, <3>4
  <2>5. CASE c \notin DOMAIN saved
    <3>1. NewAt(c) = Sole(c)
      BY <2>5 DEF NewAt, At, Nobody, Sole
    <3>2. Sole(c) \in DOMAIN chain'.owner /\ chain'.owner[Sole(c)] = Deployer
          /\ chain'.resolver = chain.resolver
      BY <1>0, <2>1, <2>5, <3>1 DEF Constructed, Put, RolloutInv, ChainOK
    <3>3. chain'.resolver["etn."] = Nobody /\ OwnedBy(c, Deployer)'
      BY <1>0, <2>3, <2>5, <3>2 DEF TldOK, OwnedBy
    <3>4. TldOK'
      BY <1>0, <2>1, <2>3, <2>5, <3>3 DEF TldOK
    <3> QED
      BY <1>5, <2>2, <3>4
  <2> QED
    BY <2>4, <2>5
<1>7. CASE pc = 2
  <2>1. c \in DOMAIN saved /\ OwnedBy(c, IF mem.fresh THEN Deployer ELSE Owner)
    BY <1>0, <1>3, <1>7 DEF TldOK
  <2>2. \/ Skip /\ OwnedBy(c, Owner)
        \/ /\ Remains /\ UNCHANGED saved /\ (pc' = pc + 1)
           /\ (chain' = SetOwner(c, Owner)) /\ mem.fresh
    BY <1>0, <1>1, <1>7, <2>1 DEF HandOver, SendUnless, Send, Tx, Remains
  <2>3. /\ Remains /\ UNCHANGED saved /\ (pc' = 3) /\ OwnedBy(c, Owner)'
        /\ chain'.resolver = chain.resolver
        /\ SecurityControllerAllows => SecurityControllerAllows'
    <3>1. CASE Skip /\ OwnedBy(c, Owner)
      BY <1>0, <1>7, <3>1 DEF Skip, Goto, Remains, OwnedBy, At, SecurityControllerAllows
    <3>2. CASE ~(Skip /\ OwnedBy(c, Owner))
      <4>1. /\ Remains /\ UNCHANGED saved /\ (pc' = 3) /\ (chain' = SetOwner(c, Owner))
        BY <1>7, <2>2, <3>2
      <4>2. \A d : At(d)' = At(d)
        BY <4>1 DEF At
      <4>3. /\ chain'.owner = [chain.owner EXCEPT ![At(c)] = Owner]
            /\ chain'.resolver = chain.resolver
        BY <1>0, <4>1 DEF SetOwner, RolloutInv, ChainOK
      <4>4. \A d \in {"RegistrarSecurityController", "BaseRegistrarImplementation"} : At(d) # At(c)
        BY <1>0, <1>3, <2>1, AtIsAddress DEF RolloutInv, Nobody, Sole
      <4>5. SecurityControllerAllows => SecurityControllerAllows'
        BY <1>0, <4>2, <4>3, <4>4 DEF SecurityControllerAllows, OwnedBy
      <4>6. OwnedBy(c, Owner)'
        BY <1>0, <2>1, <4>2, <4>3 DEF OwnedBy
      <4> QED
        BY <4>1, <4>3, <4>5, <4>6
    <3> QED
      BY <3>1, <3>2
  <2>4. Steps("DNSRegistrar")
    BY <1>0, <1>2, <1>7, <2>3 DEF Steps, Moves, Provides
  <2>5. ~Did(c, 3)' /\ (At(c)' = At(c))
    BY <1>0, <1>4, <2>3 DEF Did, At
  <2>6. TldOK'
    BY <1>0, <2>3, <2>5 DEF TldOK
  <2> QED
    BY <1>5, <2>4, <2>6
<1>8. CASE pc = 3
  <2> DEFINE settled == chain.resolver["etn."] = At(c)
             after == SetResolver("etn.", At(c))
  <2>1. /\ c \in DOMAIN saved /\ OwnedBy(c, Owner)
        /\ (Goto(4) /\ settled) \/ Throw
           \/ (Remains /\ UNCHANGED saved /\ (pc' = 4) /\ (chain' = after) /\ SecurityControllerAllows)
    BY <1>0, <1>1, <1>3, <1>8 DEF SendUnless, Send, Tx, Remains, Skip, TldOK
  <2>2. UNCHANGED saved /\ Moves /\ (pc' # 2) /\ (\A d : At(d)' = At(d)) /\ (Remains \/ Throw)
    <3>1. Remains \/ Throw
      BY <2>1, 4 \in Nat \ {0, 1} DEF Goto, Remains
    <3>2. UNCHANGED saved /\ pc' # 2
      BY <2>1 DEF Goto, Throw
    <3> QED
      BY <3>1, <3>2 DEF Moves, At
  <2>3. /\ chain'.owner = chain.owner
        /\ (chain'.resolver["etn."] = At(c) /\ (settled \/ SecurityControllerAllows))
           \/ (Throw /\ UNCHANGED chain)
    BY <1>0, <2>1 DEF Goto, Throw, SetResolver, RolloutInv, ChainOK
  <2>4. OwnedBy(c, Owner)' /\ (SecurityControllerAllows' <=> SecurityControllerAllows)
    BY <1>0, <2>1, <2>2, <2>3 DEF OwnedBy, SecurityControllerAllows
  <2>5. Steps("DNSRegistrar")
    BY <1>2, <1>8, <2>2 DEF Steps, Provides
  <2>6. Throw => ~Did(c, 3)'
    BY <1>4 DEF Did
  <2>7. TldOK'
    BY <1>0, <1>3, <2>1, <2>2, <2>3, <2>4, <2>6 DEF TldOK
  <2> QED
    BY <1>5, <2>5, <2>7
<1>9. CASE pc = 4
  <2>1. Plainly /\ Steps("DNSRegistrar")
    BY <1>1, <1>2, <1>9, PlainSteps DEF Plainly, Steps, Provides
  <2>2. TldOK'
    BY <1>0, <1>1, <1>4, <1>9 DEF TldOK, Did, Return, OwnedBy, At, SecurityControllerAllows
  <2> QED
    BY <1>5, <2>1, <2>2
<1> QED
  BY <1>1, <1>6, <1>7, <1>8, <1>9

-----------------------------------------------------------------------------
(* The script of the wrapper, which comes to its end once it has deployed. *)

\* It returns true, which records it as done, in the run that deploys the wrapper; so that
\* the metadata service, replaced since, is never asked for again.
LEMMA SteadyNameWrapper ==
  ASSUME SteadyRun, DeployNameWrapper PROVE SteadyInv' /\ RecordsStay
<1> DEFINE c == "NameWrapper"
           args == <<At("ENSRegistry"), At("BaseRegistrarImplementation"), At("StaticMetadataService")>>
           built == [Constructed(c, Deployer) EXCEPT
                      !.points = Put(@, <<NewAt(c), "metadataService">>, At("StaticMetadataService"))]
           resolver == chain.resolver["etn."]
<1>0. /\ RolloutInv /\ Runs(c) /\ pc \in Nat \ {0} /\ c \in net.scripts /\ ~Runs("OwnedResolver")
      /\ Pipeline[place] \notin done /\ c \notin done /\ UNCHANGED <<net, env>> /\ ~LeavesWiring
      /\ TldOK /\ OnceOK /\ DueOK /\ c \notin Guarded
  BY Shells DEF SteadyRun, SteadyInv, RolloutInv, RunOK, DeployNameWrapper, Runs, Guarded
<1>1. /\ pc = 1 => DeployClaiming(c, args, built)
      /\ pc = 2 => HandOverIfFresh(c)
      /\ pc = 3 => Send(SecurityControllerAllows, AddController("BaseRegistrarImplementation", At(c)))
      /\ pc = 4 => IF resolver = Nobody THEN Return(FALSE)
                   ELSE Send(chain.owner[resolver] = Owner, SetPointer(resolver, "INameWrapper", At(c)))
      /\ pc = 5 => NameWrapperIsDone
      /\ pc = 1 \/ pc = 2 \/ pc = 3 \/ pc = 4 \/ pc = 5
  <2>1. /\ (pc = 1 => pc # 2 /\ pc # 3 /\ pc # 4 /\ pc # 5)
        /\ (pc = 2 => pc # 1 /\ pc # 3 /\ pc # 4 /\ pc # 5)
        /\ (pc = 3 => pc # 1 /\ pc # 2 /\ pc # 4 /\ pc # 5)
        /\ (pc = 4 => pc # 1 /\ pc # 2 /\ pc # 3 /\ pc # 5)
        /\ (pc = 5 => pc # 1 /\ pc # 2 /\ pc # 3 /\ pc # 4)
    OBVIOUS
  <2> QED
    BY <1>0, <2>1, Zenon DEF DeployNameWrapper
<1>2. /\ \A d \in Due : Runs(d[1]) => (d[2] = 1) /\ (d[3] = c)
      /\ c # Feed /\ "DNSRegistrar" # Feed
  BY <1>0, DueScripts DEF Runs, Feed
<1>3. /\ pc > 1 => c \in DOMAIN saved
      /\ c \in DOMAIN saved => mem.fresh /\ pc > 1 /\ (pc = 2 => OwnedBy(c, Deployer))
  <2>1. <<c, 1, c>> \in Due
    BY DEF Due
  <2>2. pc > 1 => Did(c, 1)
    BY <1>0 DEF Did
  <2> QED
    BY <1>0, <2>1, <2>2 DEF DueOK, OnceOK
<1>4. SecurityControllerAllows /\ resolver # Nobody /\ chain.owner[resolver] = Owner
  <2>1. Ahead("OwnedResolver")
    BY <1>0, AtHand
  <2>2. Did("OwnedResolver", 3) /\ "OwnedResolver" \in net.scripts
    BY <1>0, <2>1 DEF Ahead, Did, Behind, Runs
  <2> QED
    BY <1>0, <2>2 DEF TldOK, OwnedBy
<1>5. ASSUME NEW d, Steps(d), d # "OwnedResolver", LeavesOwners(chain'), OnceOK'
      PROVE  SteadyInv' /\ RecordsStay
  <2>1. L2OK'
    BY <1>0, <1>5 DEF Steps, Moves, L2OK, Remains, Return, Throw, Runs
  <2> QED
    BY <1>0, <1>5, <2>1, Steadily
<1>6. CASE pc = 1
  <2>1. c \notin DOMAIN saved
    BY <1>3, <1>6
  <2>2. CASE Throw
    <3>1. Plainly
      BY <2>2, PlainSteps
    <3>2. Steps("DNSRegistrar") /\ LeavesOwners(chain')
      BY <1>2, <2>2, <3>1 DEF Plainly, Steps, Provides
    <3>3. OnceOK'
      BY <2>1, <2>2 DEF Throw, OnceOK
    <3> QED
      BY <1>5, <3>2, <3>3
  <2>3. CASE Create(c, args, built)
    <3>1. /\ built.owner = Put(chain.owner, NewAt(c), Deployer) /\ built.resolver = chain.resolver
          /\ Constructed(c, Deployer).owner = built.owner
          /\ Constructed(c, Deployer).resolver = chain.resolver
      BY <1>0 DEF Constructed, RolloutInv, ChainOK
    <3>2. LeavesOwners(Constructed(c, Deployer))
      BY <1>0, <2>1, LeavingOwners
    <3>3. LeavesOwners(built)
      BY <3>1, <3>2 DEF LeavesOwners
    <3>4. Adds(c) /\ (chain' = built) /\ mem'.fresh
      BY <2>1, <2>3, <3>3, AddingIt DEF Replaced
    <3>5. Steps(c) /\ LeavesOwners(chain')
      BY <1>2, <3>4 DEF Steps, Adds, Moves, Provides
    <3>6. At(c)' = Sole(c)
      <4>1. c \in DOMAIN saved' /\ KeptOK'
        BY <3>4 DEF Adds
      <4>2. saved'[c].at = Address(c)'
        BY <4>1 DEF KeptOK, Replaced
      <4>3. Address(c)' = Sole(c)
        BY DEF Address, Sole
      <4> QED
        BY <4>1, <4>2, <4>3 DEF At
    <3>7. NewAt(c) = Sole(c)
      BY <2>1 DEF NewAt, At, Nobody, Sole
    <3>8. OwnedBy(c, Deployer)'
      BY <3>1, <3>4, <3>6, <3>7 DEF OwnedBy, Put
    <3>9. OnceOK'
      BY <1>0, <1>6, <3>4, <3>8 DEF OnceOK, Adds, Remains, Runs
    <3> QED
      BY <1>5, <3>5, <3>9
  <2> QED
    BY <1>1, <1>6, <2>2, <2>3 DEF DeployClaiming
<1>7. CASE pc \in {2, 3, 4}
  <2>1. c \in DOMAIN saved /\ mem.fresh /\ (pc = 2 => OwnedBy(c, Deployer))
    BY <1>3, <1>7
  <2>2. Plainly
    <3>1. pc = 2 => Plainly
      BY <1>0, <1>1, PlainWrites
    <3>2. pc = 3 => Plainly
      BY <1>1, PlainWrites
    <3>3. pc = 4 => Plainly
      BY <1>1, PlainWrites, PlainSteps
    <3> QED
      BY <1>7, <3>1, <3>2, <3>3
  <2>3. Remains /\ UNCHANGED mem /\ (pc' = pc + 1)
    <3>1. pc = 2 => Remains /\ UNCHANGED mem /\ (pc' = pc + 1)
      BY <1>1, <2>1 DEF HandOverIfFresh, HandOver, SendUnless, Send, Tx, Skip, Goto, Remains
    <3>2. pc \in {3, 4} => Remains /\ UNCHANGED mem /\ (pc' = pc + 1)
      BY <1>1, <1>4 DEF Send, Tx, Remains
    <3> QED
      BY <1>7, <3>1, <3>2
  <2>4. Steps("DNSRegistrar") /\ LeavesOwners(chain')
    BY <1>2, <1>7, <2>2 DEF Plainly, Steps, Provides
  <2>5. OnceOK'
    BY <1>0, <1>7, <2>1, <2>3 DEF OnceOK, Remains, Runs
  <2> QED
    BY <1>5, <2>4, <2>5
<1>8. CASE pc = 5
  <2>1. Return(TRUE)
    BY <1>1, <1>8 DEF NameWrapperIsDone
  <2>2. Plainly
    BY <2>1, PlainSteps
  <2>3. Steps("DNSRegistrar") /\ LeavesOwners(chain')
    BY <1>2, <1>8, <2>2 DEF Plainly, Steps, Provides
  <2>4. OnceOK'
    BY <1>0, <2>1 DEF OnceOK, Return, Runs
  <2> QED
    BY <1>5, <2>3, <2>4
<1> QED
  BY <1>1, <1>6, <1>7, <1>8

-----------------------------------------------------------------------------
(* The other steps.                                                        *)

\* Between deploying the resolver and giving it to the owner.
HandsItOver == outcome = "running" /\ Pipeline[place] = "OwnedResolver" /\ mem.fresh /\ pc = 2
\* Between deploying the wrapper and the end of its script.
Wraps == outcome = "running" /\ Pipeline[place] = "NameWrapper" /\ mem.fresh /\ pc \in 2 .. 5

\* A step of another than the scripts.
LEMMA Unmoved ==
  ASSUME SteadyInv, UNCHANGED <<net, saved, done>>, chain'.owner = chain.owner,
         chain'.resolver["etn."] = chain.resolver["etn."], env'.safeKey = env.safeKey,
         outcome' = "running" => GoodEnv(env') /\ Pipeline[place'] \notin done, L2OK',
         \A s \in Scripts : s \in net.scripts => \A k \in {1, 2, 3} : Did(s, k)' => Did(s, k),
         UNCHANGED <<place, pc, mem, outcome>> \/ (~HandsItOver /\ ~HandsItOver' /\ ~Wraps)
  PROVE  SteadyInv'
<1>1. /\ Due' = Due /\ (\A c : Given(c)' = Given(c)) /\ (\A c : Address(c)' = Address(c))
      /\ Owner' = Owner /\ Feed' = Feed /\ HasFeed' = HasFeed /\ \A c : At(c)' = At(c)
  BY Unvarying, Constant DEF At
<1>2. KeptOK'
  BY <1>1 DEF SteadyInv, KeptOK
<1>3. DueOK'
  BY <1>1, DueScripts DEF SteadyInv, DueOK
<1>4. /\ \A c, who : OwnedBy(c, who)' <=> OwnedBy(c, who)
      /\ SecurityControllerAllows' <=> SecurityControllerAllows
  BY <1>1 DEF OwnedBy, SecurityControllerAllows
<1>5. TldOK'
  <2>1. HandsItOver' <=> HandsItOver
    BY DEF HandsItOver
  <2>2. "OwnedResolver" \in net.scripts /\ Did("OwnedResolver", 3)' => Did("OwnedResolver", 3)
    BY ScriptNames DEF OwnName
  <2>3. "OwnedResolver" \in DOMAIN saved => OwnedBy("OwnedResolver", IF HandsItOver THEN Deployer ELSE Owner)
    BY DEF SteadyInv, TldOK, HandsItOver, Runs
  <2>4. "OwnedResolver" \in DOMAIN saved' => OwnedBy("OwnedResolver", IF HandsItOver THEN Deployer ELSE Owner)'
    <3>1. CASE HandsItOver
      BY <1>1, <1>4, <2>1, <2>3, <3>1
    <3>2. CASE ~HandsItOver
      BY <1>1, <1>4, <2>1, <2>3, <3>2
    <3> QED
      BY <3>1, <3>2
  <2> QED
    BY <1>1, <1>4, <2>2, <2>4 DEF SteadyInv, TldOK, HandsItOver, Runs
<1>6. OnceOK'
  <2>1. CASE UNCHANGED <<place, pc, mem, outcome>>
    BY <1>4, <2>1 DEF SteadyInv, OnceOK, Runs
  <2>2. CASE ~Wraps
    BY <2>2 DEF SteadyInv, OnceOK, Wraps, Runs
  <2> QED
    BY <2>1, <2>2
<1> QED
  BY <1>2, <1>3, <1>5, <1>6 DEF SteadyInv

\* Every statement of every script.
LEMMA SteadyScripts ==
  ASSUME RolloutInv, RolloutInv', SteadyInv, RunScript PROVE SteadyInv' /\ RecordsStay
<1>0. SteadyRun
  BY DEF RunScript, SteadyRun
<1>1. ASSUME Calm, ~Runs("OwnedResolver"), ~Runs("NameWrapper") PROVE SteadyInv' /\ RecordsStay
  <2>1. PICK c : c \notin {"OwnedResolver", "NameWrapper"} /\ Steps(c)
    BY <1>1 DEF Calm
  <2>2. LeavesOwners(chain') /\ L2OK'
    BY <1>1 DEF Calm
  <2> QED
    BY <1>0, <1>1, <2>1, <2>2, Steadily
<1>2. CASE RootStep
  <2>1. ~Runs("OwnedResolver") /\ ~Runs("NameWrapper")
    BY <1>2 DEF RootStep, DeployRegistry, DeployAlgorithms, DeployDigests, DeployOracle,
         DeployOffchainResolver, DeployPublicSuffixList, DeployDNSRegistrar, EnableTlds,
         DeployRoot, DeployRootSecurityController, SetupRoot, Runs
  <2> QED
    BY <1>0, <1>1, <1>2, <2>1, CalmRoot
<1>3. CASE RegistrarStep
  <2>1. ~Runs("OwnedResolver") /\ ~Runs("NameWrapper")
    BY <1>3 DEF RegistrarStep, DeployBaseRegistrar, DeployRegistrarSecurityController,
         SetupBaseRegistrar, DeployPriceOracle, DeployLegacyController, DeployWrappedController,
         DeployController, DeployBulkRenewal, RegisterReservedNames, EnableWrapping,
         RegisterInfrastructureNames, Runs
  <2> QED
    BY <1>0, <1>1, <1>3, <2>1, CalmRegistrar
<1>4. CASE ResolverStep
  <2>1. CASE DeployOwnedResolver
    BY <1>0, <2>1, SteadyOwnedResolver
  <2>2. CASE DeployNameWrapper
    BY <1>0, <2>2, SteadyNameWrapper
  <2>3. CASE ~DeployOwnedResolver /\ ~DeployNameWrapper
    <3>1. ~Runs("OwnedResolver") /\ ~Runs("NameWrapper")
      BY <1>4, <2>3 DEF ResolverStep, DeployExtendedDNSResolver, DeployLegacyPublicResolver,
           DeployPublicResolver, DeployReverseRegistrar, DeployDefaultReverseRegistrar,
           DeployDefaultReverseResolver, DeployMetadataService, UpdateMetadataService,
           DeployGatewayProvider, DeployUniversalResolver, DeployMigrationHelper, Runs
    <3> QED
      BY <1>0, <1>1, <1>4, <3>1, CalmResolver
  <2> QED
    BY <2>1, <2>2, <2>3
<1>5. CASE DeployMulticall \/ DeploySigValidator \/ DeployL2Registrar
  <2>1. ~Runs("OwnedResolver") /\ ~Runs("NameWrapper")
    BY <1>5 DEF DeployMulticall, DeploySigValidator, DeployL2Registrar, Runs
  <2> QED
    BY <1>0, <1>1, <1>5, <2>1, CalmShared, CalmSafe
<1> QED
  BY <1>2, <1>3, <1>4, <1>5 DEF RunScript

\* A run takes up the first script that is not done; what comes before it is.
LEMMA SteadyStart ==
  ASSUME RolloutInv, SteadyInv, Steady', NEW e \in Envs(net), Start(e) PROVE SteadyInv'
<1>1. /\ outcome # "running" /\ outcome' = "running" /\ UNCHANGED <<net, chain, saved, done>>
      /\ env' = e /\ pc' = 1 /\ Selected # {} /\ place' = Min(Selected)
  BY DEF Start
<1>2. GoodEnv(e)
  BY DEF Start, Mishap, Steady
<1>3. Selected \subseteq DOMAIN Pipeline /\ DOMAIN Pipeline \subseteq Nat
  BY Places DEF Selected
<1>4. place' \in Selected /\ \A i \in Selected : place' <= i
  BY <1>1, <1>3, MinIsLeast
<1>5. Pipeline[place'] \notin done
  BY <1>4 DEF Selected
<1>6. env'.safeKey = env.safeKey
  BY <1>1, Shells
<1>7. ASSUME NEW s \in Scripts, s \in net.scripts, NEW k \in {1, 2, 3}, Did(s, k)' PROVE Did(s, k)
  <2>1. s \in done \/ \E i \in DOMAIN Pipeline : Pipeline[i] = s /\ i < place'
    BY <1>1, <1>7 DEF Did, Behind
  <2>2. ASSUME NEW i \in DOMAIN Pipeline, Pipeline[i] = s, i < place' PROVE s \in done
    <3>1. i \notin Selected
      BY <1>3, <1>4, <2>2
    <3> QED
      BY <1>7, <2>2, <3>1 DEF Selected
  <2> QED
    BY <2>1, <2>2 DEF Did, Behind
<1>8. ~HandsItOver /\ ~HandsItOver' /\ ~Wraps /\ L2OK'
  BY <1>1 DEF HandsItOver, Wraps, Runs, L2OK
<1> QED
  BY <1>1, <1>2, <1>5, <1>6, <1>7, <1>8, Unmoved

\* A run dies anywhere but in the two gaps.
LEMMA SteadyInterrupt ==
  ASSUME SteadyInv, Steady', Interrupt PROVE SteadyInv'
<1>1. /\ outcome' = "interrupted" /\ UNCHANGED <<net, env, chain, saved, done>>
      /\ lost' = IF InGap THEN lost \cup {Pipeline[place]} ELSE lost
  BY DEF Interrupt
<1>2. ~HandsItOver /\ ~Wraps
  <2>1. HandsItOver \/ Wraps => InGap /\ Pipeline[place] \in {"NameWrapper", "OwnedResolver"}
    BY DEF HandsItOver, Wraps, Runs, InGap, Gap
  <2> QED
    BY <1>1, <2>1 DEF Steady
<1>3. ~HandsItOver' /\ L2OK'
  BY <1>1 DEF HandsItOver, L2OK, Runs
<1>4. \A s \in Scripts : \A k \in {1, 2, 3} : Did(s, k)' => Did(s, k)
  BY <1>1 DEF Did, Behind, Runs
<1> QED
  BY <1>1, <1>2, <1>3, <1>4, Unmoved

\* The others move tokens and nodes of names, or put code at a canonical address.
LEMMA SteadyAside ==
  ASSUME RolloutInv, SteadyInv, UNCHANGED <<net, env, saved, done, place, pc, mem, outcome>>,
         chain'.owner = chain.owner, chain'.resolver = chain.resolver
  PROVE  SteadyInv'
<1>1. \A s, k : Did(s, k)' => Did(s, k)
  BY DEF Did, Behind, Runs
<1>2. L2OK'
  BY DEF SteadyInv, L2OK, Runs
<1> QED
  BY <1>1, <1>2, Unmoved DEF SteadyInv

-----------------------------------------------------------------------------
(* Every run.                                                              *)

\* Mishaps and gaps died in are never forgotten.
LEMMA SteadyFrom ==
  ASSUME [Next]_vars, Steady' PROVE Steady
<1>1. mishaps \subseteq mishaps' /\ lost \subseteq lost'
  <2>1. ASSUME NEW e \in Envs(net), Start(e) PROVE mishaps \subseteq mishaps' /\ lost \subseteq lost'
    BY <2>1 DEF Start, Mishap
  <2>2. ASSUME NEW l \in Labels, Squat(l) \/ Reclaim(l)
        PROVE  mishaps \subseteq mishaps' /\ lost \subseteq lost'
    BY <2>2 DEF Squat, Reclaim, Mishap
  <2>3. ASSUME NEW n \in safe.queue, Confirm(n)
        PROVE  mishaps \subseteq mishaps' /\ lost \subseteq lost'
    BY <2>3 DEF Confirm
  <2>4. CASE RunScript
    BY <2>4 DEF RunScript
  <2>5. CASE Interrupt
    BY <2>5 DEF Interrupt, Mishap
  <2>6. CASE UNCHANGED vars
    BY <2>6 DEF vars
  <2> QED
    BY <2>1, <2>2, <2>3, <2>4, <2>5, <2>6 DEF Next
<1> QED
  BY <1>1 DEF Steady

\* Nothing is recorded at first.
LEMMA SteadyAtFirst == Init => SteadyInv
<1> SUFFICES ASSUME Init PROVE SteadyInv
  OBVIOUS
<1>1. /\ DOMAIN saved = {} /\ done = {} /\ outcome = "idle"
      /\ chain.resolver = [n \in Nodes |-> Nobody]
  BY DEF Init, EmptyChain
<1>2. "etn." \in Nodes
  BY DEF Nodes, OtherNodes
<1>3. chain.resolver["etn."] = Nobody
  BY <1>1, <1>2
<1>4. \A s, k : ~Did(s, k)
  BY <1>1 DEF Did, Behind, Runs
<1>5. KeptOK /\ OnceOK /\ L2OK /\ Feed \notin DOMAIN saved
  BY <1>1 DEF KeptOK, OnceOK, L2OK, Runs
<1>6. DueOK
  BY <1>4, <1>5 DEF DueOK
<1>7. TldOK
  BY <1>1, <1>3, <1>4 DEF TldOK
<1> QED
  BY <1>1, <1>5, <1>6, <1>7 DEF SteadyInv

\* Every step keeps the invariant and the addresses.
LEMMA SteadyStep ==
  ASSUME RolloutInv, [Next]_vars, Steady => SteadyInv, Steady'
  PROVE  SteadyInv' /\ RecordsStay
<1>1. Steady /\ SteadyInv
  BY SteadyFrom
<1>2. RolloutInv'
  BY RolloutStep
<1>3. CASE RunScript
  BY <1>1, <1>2, <1>3, SteadyScripts
<1>4. ASSUME UNCHANGED saved PROVE RecordsStay
  BY <1>4 DEF RecordsStay
<1>5. ASSUME NEW e \in Envs(net), Start(e) PROVE SteadyInv' /\ RecordsStay
  <2>1. UNCHANGED saved
    BY <1>5 DEF Start
  <2> QED
    BY <1>1, <1>4, <1>5, <2>1, SteadyStart
<1>6. CASE Interrupt
  <2>1. UNCHANGED saved
    BY <1>6 DEF Interrupt
  <2> QED
    BY <1>1, <1>4, <1>6, <2>1, SteadyInterrupt
<1>7. ASSUME NEW l \in Labels, Squat(l) \/ Reclaim(l) PROVE SteadyInv' /\ RecordsStay
  <2>1. UNCHANGED <<net, env, saved, done, place, pc, mem, outcome>>
    BY <1>7 DEF Squat, Reclaim
  <2>2. chain'.owner = chain.owner /\ chain'.resolver = chain.resolver
    BY <1>7 DEF Squat, Reclaim, SetNode, RolloutInv, ChainOK
  <2> QED
    BY <1>1, <1>4, <2>1, <2>2, SteadyAside
<1>8. ASSUME NEW n \in safe.queue, Confirm(n) PROVE SteadyInv' /\ RecordsStay
  <2>1. UNCHANGED <<net, env, saved, done, place, pc, mem, outcome>> /\ chain' = WithL2Registrar
    BY <1>8 DEF Confirm
  <2>2. chain'.owner = chain.owner /\ chain'.resolver = chain.resolver
    BY <2>1 DEF WithL2Registrar
  <2> QED
    BY <1>1, <1>4, <2>1, <2>2, SteadyAside
<1>9. CASE UNCHANGED vars
  <2>1. UNCHANGED <<net, env, chain, saved, done, place, pc, mem, outcome>>
    BY <1>9 DEF vars
  <2> QED
    BY <1>1, <1>4, <2>1, SteadyAside
<1> QED
  BY <1>3, <1>5, <1>6, <1>7, <1>8, <1>9 DEF Next

(* Of the runs: in shells that are as they should be, whichever network    *)
(* and whatever part of the pipeline, and wherever a run dies except in    *)
(* two scripts between the deployment and their end, what a script needs   *)
(* is recorded before it runs, under the address it has for good.          *)
THEOREM SteadyInvariant == Spec => [](Steady => SteadyInv)
<1>1. Init => (Steady => SteadyInv)
  BY SteadyAtFirst
<1>2. RolloutInv /\ (Steady => SteadyInv) /\ [Next]_vars => (Steady => SteadyInv)'
  <2> SUFFICES ASSUME RolloutInv, Steady => SteadyInv, [Next]_vars, Steady' PROVE SteadyInv'
    OBVIOUS
  <2> QED
    BY SteadyStep
<1> QED
  BY <1>1, <1>2, RolloutInvariant, PTL DEF Spec

(* A recorded contract keeps its address, over any number of runs, of      *)
(* which others may be cut, as long as no shell was wrong and no run was   *)
(* cut in a gap of the scripts of the NameWrapper and the OwnedResolver: a *)
(* rocketh deploy finds the same arguments in the record and returns it.   *)
(* Replaced are the DNSRegistrar, the metadata service and a Multicall3    *)
(* that becomes canonical.                                                 *)
THEOREM AddressesStay == Spec => AddressesAreStable
<1> DEFINE Stays ==
      \A c \in DOMAIN saved :
        \/ saved'[c].at = saved[c].at
        \/ c \in {"DNSRegistrar", "StaticMetadataService"}
        \/ saved'[c].at = <<"Multicall3", 0>>
        \/ "environment" \in mishaps
        \/ lost \cap {"NameWrapper", "OwnedResolver"} # {}
<1>1. RolloutInv /\ (Steady => SteadyInv) /\ [Next]_vars => [Stays]_vars
  <2> SUFFICES ASSUME RolloutInv, Steady => SteadyInv, [Next]_vars PROVE Stays
    OBVIOUS
  <2>1. CASE RunScript
    <3>1. UNCHANGED <<mishaps, lost>>
      BY <2>1 DEF RunScript
    <3>2. CASE Steady
      <4>1. Steady'
        BY <3>1, <3>2 DEF Steady
      <4>2. RecordsStay
        BY <4>1, SteadyStep
      <4> QED
        BY <4>2 DEF RecordsStay, Replaced
    <3>3. CASE ~Steady
      BY <3>3 DEF Steady
    <3> QED
      BY <3>2, <3>3
  <2>2. CASE ~RunScript
    <3>1. UNCHANGED saved
      BY <2>2 DEF Next, vars, Start, Interrupt, Squat, Reclaim, Confirm
    <3> QED
      BY <3>1
  <2> QED
    BY <2>1, <2>2
<1> QED
  BY <1>1, RolloutInvariant, SteadyInvariant, PTL DEF Spec, AddressesAreStable

=============================================================================
