---------------------------- MODULE SharedScripts ----------------------------
(***************************************************************************)
(* deploy/utils/shared and deploy/l2: contracts whose address is the same  *)
(* on every chain, installed by pre-signed transactions and by a Safe.     *)
(* The canonical address of c is <<c, 0>>.                                 *)
(***************************************************************************)
EXTENDS Deployment

(* Send the pre-signed, pre-EIP-155 transaction of a site.  A node may     *)
(* reject all of them, none, or, behind a load balancer, either.  One that *)
(* is not rejected is mined when its keyless signer has been funded.       *)
Broadcast(site, mined, rejected, unfunded) ==
  \/ env.node # "accepts" /\ Goto(rejected)
  \/ /\ env.node # "rejects"
     /\ IF site \in chain.funded
        THEN Tx(TRUE, [chain EXCEPT !.code = @ \cup {site}], mem, mined)
        ELSE Goto(unfunded)

Fund(account) == Send(TRUE, [chain EXCEPT !.funded = @ \cup {account}])

(* A record of the deployment at the canonical address. *)
Record(c) ==
  /\ saved' = Put(saved, c, [at |-> <<c, 0>>, args |-> << >>])
  /\ pc' = pc + 1 /\ UNCHANGED <<chain, done, place, mem, outcome>>

ProbeMulticall == Broadcast("Multicall3", 5, 7, 2)

(* 00_deploy_multicall.ts *)
DeployMulticall ==
  /\ Runs("Multicall3")
  /\ \/ pc = 1 /\ "Multicall3" \in chain.code /\ Return(FALSE)
     \/ pc = 1 /\ "Multicall3" \notin chain.code /\ ProbeMulticall
     \/ pc = 2 /\ Fund("Multicall3")
     \/ pc = 3 /\ Fund("preparation")
     \/ pc = 4 /\ Broadcast("Multicall3", 5, 7, 2)
     \/ pc = 5 /\ Record("Multicall3")
     \/ pc = 6 /\ IF "Multicall3" \in chain.code THEN Return(FALSE) ELSE Throw
     \/ pc = 7 /\ Deploy("Multicall3", << >>)
     \/ pc = 8 /\ Return(FALSE)

(* 00_deploy_universal_sig_validator.ts, by way of the Deterministic       *)
(* Deployment Proxy.  Each way out of the script returns true.             *)
DeploySigValidator ==
  /\ Runs("UniversalSigValidator")
  /\ \/ pc = 1 /\ "UniversalSigValidator" \in chain.code /\ Return(TRUE)
     \/ pc = 1 /\ "UniversalSigValidator" \notin chain.code
               /\ IF "DDP" \in chain.code THEN Goto(4) ELSE Broadcast("DDP", 4, 6, 2)
     \/ pc = 2 /\ Fund("DDP")
     \/ pc = 3 /\ Broadcast("DDP", 4, 6, 2)
     \/ pc = 4 /\ Send(TRUE, [chain EXCEPT !.code = @ \cup {"UniversalSigValidator"}])
     \/ pc = 5 /\ IF "UniversalSigValidator" \in chain.code THEN Return(TRUE) ELSE Throw
     \/ pc = 6 /\ Deploy("UniversalSigValidator", << >>)
     \/ pc = 7 /\ Return(TRUE)

-----------------------------------------------------------------------------
(* The Safe: nonce is its next transaction's, queue what was proposed to   *)
(* its service, executed what went through, pending the nonce written to   *)
(* .pendingSafeTransactions (0 without an entry).  The hash of the         *)
(* proposal is determined by its nonce.                                    *)

NewSafe == [nonce |-> 1, queue |-> {}, executed |-> {}, pending |-> 0]

(* The CREATE3 deployment reverts, and its Safe transaction with it, when  *)
(* the expected address has code.                                          *)
Executable(n) == n = safe.nonce /\ "L2ReverseRegistrar" \notin chain.code

Executed(n) == [safe EXCEPT !.nonce = n + 1, !.queue = @ \ {n}, !.executed = @ \cup {n}]

WithL2Registrar == [chain EXCEPT !.code = @ \cup {"L2ReverseRegistrar"}]

UsesSafe == env.safeKey

(* safeDeploy where the deployer may execute alone (testnet): lines 224 on.*)
SafeExecute ==
  /\ pc = 6 /\ Tag("testnet")
  /\ IF Executable(mem.nonce)
     THEN /\ chain' = WithL2Registrar /\ safe' = Executed(mem.nonce) /\ pc' = 3
          /\ UNCHANGED <<saved, done, place, mem, outcome>>
     ELSE Throw /\ UNCHANGED safe

(* safeDeploy where the signers have to confirm: propose, then write the   *)
(* pending file.                                                           *)
SafePropose ==
  \/ /\ pc = 6 /\ ~Tag("testnet")
     /\ IF mem.nonce \in safe.executed THEN Throw /\ UNCHANGED safe
        ELSE safe' = [safe EXCEPT !.queue = @ \cup {mem.nonce}] /\ Skip
  \/ pc = 7 /\ safe' = [safe EXCEPT !.pending = mem.nonce] /\ Skip
  \/ pc = 8 /\ Return(FALSE) /\ UNCHANGED safe

(* The entry found in the pending file: an error until it is executed.     *)
SafePending ==
  /\ pc = 1 /\ UsesSafe /\ ~Tag("testnet") /\ safe.pending # 0
  /\ IF safe.pending \in safe.executed THEN Goto(3) ELSE Throw
  /\ UNCHANGED safe

(* confirmAndSave, the entry deleted after it. *)
SafeConfirm ==
  \/ pc = 3 /\ (IF "L2ReverseRegistrar" \in chain.code THEN Record("L2ReverseRegistrar") ELSE Throw)
            /\ UNCHANGED safe
  \/ pc = 4 /\ safe' = [safe EXCEPT !.pending = 0] /\ Skip
  \/ pc = 5 /\ Return(TRUE) /\ UNCHANGED safe

(* createTransaction reads the nonce of the Safe. *)
SafeCreate ==
  /\ pc = 1 /\ UsesSafe /\ (Tag("testnet") \/ safe.pending = 0)
  /\ mem' = [mem EXCEPT !.nonce = safe.nonce] /\ pc' = 6
  /\ UNCHANGED <<chain, saved, done, place, outcome, safe>>

(* l2/00_deploy_l2_reverse_registrar.ts *)
DeployL2Registrar ==
  /\ Runs("L2ReverseRegistrar")
  /\ \/ SafePending \/ SafeCreate \/ SafeExecute \/ SafePropose \/ SafeConfirm
     \/ pc = 1 /\ ~UsesSafe /\ Deploy("L2ReverseRegistrar", << >>) /\ UNCHANGED safe
     \/ pc = 2 /\ Return(FALSE) /\ UNCHANGED safe
=============================================================================
