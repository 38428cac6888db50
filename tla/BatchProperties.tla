--------------------------- MODULE BatchProperties ---------------------------
(***************************************************************************)
(* What a batch has to keep, and how a lookup of it is a session of its own *)
(***************************************************************************)
EXTENDS BatchSession

(***************************************************************************)
(* Types: of the lookups with the flags of CCIPBatcher.sol, and of what the *)
(* client holds.  A lookup that is not done has an OffchainLookup to decode *)
(* once the batch was started, or the callback would revert.               *)
(***************************************************************************)
BatchTypeOK ==
    /\ lookups \in Seq(Lookup)
    /\ phase \in {"start", "asking", "answered", "returned", "reverted", "failed"}
    /\ failures \in Seq(BOOLEAN) /\ responses \in Seq(Responses)
    /\ tried \in Nat /\ IF phase = "failed" THEN tried = MaxGateways ELSE tried < MaxGateways
    /\ mayAnswer \in Gateways
    /\ phase # "start" => \A i \in Unfinished(lookups) : lookups[i].data \in Requests

\* What links the phases: a lookup has flags according to how far it is, and
\* an answer with the right counts has for each request what its gateway may say.
FlagsFollow ==
    IF phase = "start"
    THEN \A i \in DOMAIN lookups : lookups[i].flags = {} /\ lookups[i].data = Empty
    ELSE \A i \in Unfinished(lookups) :
            "OFFCHAIN" \in lookups[i].flags /\ lookups[i].flags \intersect AnyError = {}

AnswersAreMeant ==
    phase = "answered" /\ CountsAgree(lookups, failures, responses) =>
        \A k \in 1..Len(responses) :
            failures[k] \/ responses[k] \in mayAnswer[GatewayRequests(lookups)[k]]

BatchInv == BatchTypeOK /\ FlagsFollow /\ AnswersAreMeant

(***************************************************************************)
(* The requests a resolver may make of a call: the one it starts with, and  *)
(* whatever it asks after an answer to one of these; no others.            *)
(***************************************************************************)
AsksOn(outcome, requests) == AsksOffchain(outcome) => outcome.data \in requests

ClosedFor(call, requests) ==
    /\ AsksOn(Initial[call], requests)
    /\ \A q \in requests, r \in Responses : AsksOn(Callback[<<q, r>>], requests)

Asks(call) ==
    {q \in Requests : \A requests \in SUBSET Requests :
                        ClosedFor(call, requests) => q \in requests}

\* The bytes are what the call, or the callback of a request of its own, returned.
Returned(call, bytes) ==
    LET good == [ok |-> TRUE, data |-> bytes]
    IN  \/ Initial[call] = good
        \/ \E q \in Asks(call), r \in Responses : Callback[<<q, r>>] = good

(***************************************************************************)
(* "prevents unverified data from passing as valid response": what looks    *)
(* like a response in the array that is returned was returned by the        *)
(* lookup's own resolver, for an answer to a request of its own             *)
(* (_toResponseArray), whatever gateways answer.                           *)
(***************************************************************************)
NoForgedValue ==
    phase = "returned" =>
        \A i \in DOMAIN lookups :
            LET response == ToResponseArray(lookups)[i]
            IN  response.data = Empty \/ response.padded
                \/ Returned(lookups[i].call, response.data)

\* What it follows from: a lookup that waits, waits for a request of its own, and
\* one that ended without an error has what its resolver returned.
Sourced(lu) ==
    IF "DONE" \in lu.flags
    THEN lu.flags \intersect AnyError # {} \/ Returned(lu.call, lu.data)
    ELSE lu.data \in Asks(lu.call)

ValuesFollow ==
    /\ phase # "start" => \A i \in DOMAIN lookups : Sourced(lookups[i])
    /\ phase = "returned" => Unfinished(lookups) = {}

\* A lookup, seen as a session.
StatusOf(lu) ==
    IF "DONE" \notin lu.flags THEN IF "OFFCHAIN" \in lu.flags THEN "asking" ELSE "fresh"
    ELSE IF "BATCH_ERROR" \in lu.flags THEN "gateway failed"
    ELSE IF "CALL_ERROR" \in lu.flags THEN "call failed"
    ELSE IF "EMPTY_RESPONSE" \in lu.flags THEN "unsupported"
    ELSE "answered"

SessionOf(i) ==
    [call |-> lookups[i].call, status |-> StatusOf(lookups[i]), data |-> lookups[i].data]

Session(i) == INSTANCE OffchainLookupSession WITH session <- SessionOf(i)

(***************************************************************************)
(* "An independent `OffchainLookup` session": in a batch every lookup goes  *)
(* through the states it would go through alone, whatever the others do,    *)
(* and hears only what its gateway has to say to its own request            *)
(* (ccipBatch, ccipBatchCallback).                                         *)
(***************************************************************************)
LookupsAreIndependent ==
    [][\A i \in DOMAIN lookups : Session(i)!Next \/ UNCHANGED SessionOf(i)]_vars
==============================================================================
