---------------------------- MODULE MCBatchSession ----------------------------
(***************************************************************************)
(* Batches of three calls: answered at once, without the function, failing, *)
(* throwing in a legacy contract, and asking one or two rounds off chain.   *)
(* The resolvers accept the right answer to a request and no other.        *)
(***************************************************************************)
EXTENDS BatchProperties

CONSTANTS
    direct, missing, failing, legacy, once, twice, silent,   \* calls
    askOnce, askFirst, askSecond, askSilent,                 \* requests
    right, again, last, quiet, forged,                       \* responses
    value, found, final, error, nothing

MCInitial == [c \in Calls |->
    CASE c = direct  -> [ok |-> TRUE,  data |-> value]
      [] c = missing -> [ok |-> TRUE,  data |-> nothing]
      [] c = failing -> [ok |-> FALSE, data |-> error]
      [] c = legacy  -> [ok |-> FALSE, data |-> nothing]
      [] c = once    -> [ok |-> FALSE, data |-> askOnce]
      [] c = twice   -> [ok |-> FALSE, data |-> askFirst]
      [] c = silent  -> [ok |-> FALSE, data |-> askSilent]]

Answer == [q \in Requests |->
    CASE q = askOnce -> right [] q = askFirst -> again
      [] q = askSecond -> last [] q = askSilent -> quiet]

MCCallback == [x \in Requests \X Responses |->
    CASE x[2] # Answer[x[1]] -> [ok |-> FALSE, data |-> error]
      [] x = <<askOnce, right>> -> [ok |-> TRUE, data |-> found]
      [] x = <<askFirst, again>> -> [ok |-> FALSE, data |-> askSecond]
      [] x = <<askSecond, last>> -> [ok |-> TRUE, data |-> final]
      [] x = <<askSilent, quiet>> -> [ok |-> TRUE, data |-> nothing]]

MCBatches ==
    {<<once, direct, twice>>, <<twice, missing, once>>, <<failing, once, twice>>,
     <<legacy, silent, once>>, <<direct, missing, legacy>>, <<twice, once, twice>>}

MCGateways == {[q \in Requests |-> {Answer[q]}], [q \in Requests |-> Responses]}

(***************************************************************************)
(* When the resolvers' own rounds end, the batch does: the client gets the  *)
(* batch, a revert, or runs out of gateways, and never circles with         *)
(* lookups that are neither answered nor given up (_revertBatchGateway).   *)
(***************************************************************************)
BatchEnds == <>(phase \in {"returned", "reverted", "failed"})
===============================================================================
