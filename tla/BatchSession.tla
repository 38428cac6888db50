----------------------------- MODULE BatchSession -----------------------------
(***************************************************************************)
(* One use of CCIPBatcher by a client that speaks EIP-3668: it calls        *)
(* ccipBatch(), and each time the contract reverts with OffchainLookup it   *)
(* asks the batch gateways one after the other and calls the callback with  *)
(* what it got.  Gateways are not trusted.  Which answers one may give is   *)
(* chosen when the session starts: an honest gateway gives the right answer *)
(* to each request or says that it failed, and counts; another one gives    *)
(* any answers, in any number.                                             *)
(***************************************************************************)
EXTENDS CCIPBatcher

CONSTANTS
    Initial,      \* [Calls -> Outcome]: what a resolver does with a call
    Callback,     \* [Requests \X Responses -> Outcome]: and with an answer
    Batches,      \* the sequences of calls clients make
    Gateways,     \* [Requests -> SUBSET Responses]: what a gateway may answer
    MaxGateways   \* the number of gateway URLs

VARIABLES
    lookups,      \* Batch.lookups, as encoded in the last revert
    phase,        \* what the client does next, or how it ended
    failures, responses,  \* the answer it got
    tried,        \* the gateways that did not respond in this round
    mayAnswer

vars == <<lookups, phase, failures, responses, tried, mayAnswer>>

ASSUME SessionAssumption ==
    /\ Initial \in [Calls -> Outcome]
    /\ Callback \in [Requests \X Responses -> Outcome]
    /\ Batches \subseteq Seq(Calls)
    /\ Gateways \subseteq [Requests -> SUBSET Responses]
    /\ MaxGateways \in Nat \ {0}

Untrusted == \A q \in Requests : mayAnswer[q] = Responses

Init ==
    /\ \E calls \in Batches : lookups = CreateBatch(calls)
    /\ phase = "start"
    /\ failures = <<>> /\ responses = <<>> /\ tried = 0
    /\ mayAnswer \in Gateways

\* _revertBatchGateway(), or the return of the batch
Proceed ==
    phase' = IF Unfinished(lookups') = {} THEN "returned" ELSE "asking"

Start ==
    /\ phase = "start"
    /\ lookups' = CcipBatch(lookups, Initial)
    /\ Proceed
    /\ UNCHANGED <<failures, responses, tried, mayAnswer>>

GatewayAnswers ==
    LET n == Cardinality(Unfinished(lookups))
    IN
    /\ phase = "asking"
    /\ failures' \in [1..n -> BOOLEAN]
    /\ responses' \in [1..n -> Responses]
    /\ \A k \in 1..n : failures'[k] \/ responses'[k] \in mayAnswer[GatewayRequests(lookups)[k]]
    /\ phase' = "answered" /\ tried' = 0
    /\ UNCHANGED <<lookups, mayAnswer>>

\* Too few or too many, alike or not.
GatewayMiscounts ==
    LET n == Cardinality(Unfinished(lookups))
    IN
    /\ phase = "asking" /\ Untrusted
    /\ \E m \in {n - 1, n + 1}, l \in {n - 1, n, n + 1} :
        /\ failures' \in [1..l -> BOOLEAN]
        /\ responses' \in [1..m -> Responses]
    /\ phase' = "answered" /\ tried' = 0
    /\ UNCHANGED <<lookups, mayAnswer>>

\* No response: the client goes on with the next URL, and gives up after the last.
GatewayIsDown ==
    /\ phase = "asking"
    /\ tried' = tried + 1
    /\ phase' = IF tried' = MaxGateways THEN "failed" ELSE "asking"
    /\ UNCHANGED <<lookups, failures, responses, mayAnswer>>

CallBack ==
    /\ phase = "answered"
    /\ IF CountsAgree(lookups, failures, responses)
       THEN /\ lookups' = CcipBatchCallback(lookups, failures, responses, Callback)
            /\ Proceed
       ELSE /\ phase' = "reverted"
            /\ UNCHANGED lookups
    /\ failures' = <<>> /\ responses' = <<>>
    /\ UNCHANGED <<tried, mayAnswer>>

Next == Start \/ GatewayAnswers \/ GatewayMiscounts \/ GatewayIsDown \/ CallBack

Spec == Init /\ [][Next]_vars

\* The client goes on, and a gateway that answers no more is one that is down.
FairSpec ==
    /\ Spec
    /\ WF_vars(Start \/ CallBack)
    /\ WF_vars(GatewayAnswers \/ GatewayMiscounts \/ GatewayIsDown)
===============================================================================
