----------------------------- MODULE CCIPBatcher -----------------------------
(***************************************************************************)
(* ccipRead/CCIPBatcher.sol: several calls of resolvers, each of which may  *)
(* ask for data from off chain by reverting with OffchainLookup, carried    *)
(* through one conversation with a batch gateway.  The contract keeps       *)
(* nothing: the batch travels with the client, from a revert to the call    *)
(* of the callback.                                                        *)
(*                                                                         *)
(* A call of a contract ends in an outcome: did it succeed, and with which  *)
(* bytes.  An element of Requests is the data of an OffchainLookup error,   *)
(* which says whom to ask, what, and whom to call back.                    *)
(***************************************************************************)
EXTENDS Naturals, Sequences, FiniteSets

CONSTANTS
    Calls,          \* a target with the calldata for it
    Requests,
    Bytes,          \* return values and error data
    Empty,          \* 0x
    Responses,      \* what gateways answer
    LegacyCalls     \* the calls of targets without the revert opcode (EIP-140)

ASSUME BatcherAssumption ==
    /\ Empty \in Bytes /\ Responses \subseteq Bytes
    /\ Requests \intersect Bytes = {}
    /\ LegacyCalls \subseteq Calls

Flags == {"OFFCHAIN", "CALL_ERROR", "BATCH_ERROR", "EMPTY_RESPONSE",
          "EIP140_BEFORE", "EIP140_AFTER", "DONE"}
AnyError == {"CALL_ERROR", "BATCH_ERROR", "EMPTY_RESPONSE"}
AnyEIP140 == {"EIP140_BEFORE", "EIP140_AFTER"}

Lookup == [call : Calls, data : Bytes \union Requests, flags : SUBSET Flags]
Outcome == [ok : BOOLEAN, data : Bytes \union Requests]

AsksOffchain(outcome) == ~outcome.ok /\ outcome.data \in Requests

\* createBatch()
CreateBatch(calls) ==
    [i \in DOMAIN calls |-> [call |-> calls[i], data |-> Empty, flags |-> {}]]

FlagIf(condition, flag) == IF condition THEN {flag} ELSE {}

(***************************************************************************)
(* ccipBatch(): each call is made once                                     *)
(***************************************************************************)
\* detectEIP140() for the lookup's target, noted on the lookups that share it.
Probed(lu) ==
    IF lu.flags \intersect AnyEIP140 # {} THEN lu
    ELSE [lu EXCEPT !.flags = @ \union
             {IF lu.call \in LegacyCalls THEN "EIP140_BEFORE" ELSE "EIP140_AFTER"}]

\* A legacy contract that throws and one without the function look the same.
Called(lu, outcome) ==
    LET lenient == "EIP140_AFTER" \notin lu.flags /\ outcome.data = Empty
    IN  [lu EXCEPT
            !.data = outcome.data,
            !.flags = @ \union
                IF AsksOffchain(outcome) THEN {"OFFCHAIN"}
                ELSE {"DONE"} \union FlagIf(~outcome.ok /\ ~lenient, "CALL_ERROR")
                              \union FlagIf(outcome.data = Empty, "EMPTY_RESPONSE")]

CcipBatch(lookups, initial) ==
    [i \in DOMAIN lookups |->
        IF "DONE" \in lookups[i].flags THEN lookups[i]
        ELSE Called(Probed(lookups[i]), initial[lookups[i].call])]

(***************************************************************************)
(* _revertBatchGateway(): the requests of the lookups that are not done,   *)
(* in the order of the batch                                               *)
(***************************************************************************)
Unfinished(lookups) == {i \in DOMAIN lookups : "DONE" \notin lookups[i].flags}

Count(lookups, i) == Cardinality({j \in Unfinished(lookups) : j <= i})

GatewayRequests(lookups) ==
    [k \in 1..Cardinality(Unfinished(lookups)) |->
        lookups[CHOOSE i \in Unfinished(lookups) : Count(lookups, i) = k].data]

(***************************************************************************)
(* ccipBatchCallback(): the k-th answer belongs to the k-th unfinished     *)
(* lookup                                                                  *)
(***************************************************************************)
\* Slip: the bytes of a failed request are kept like a response.
Failed_Unflagged(lu, v) == [lu EXCEPT !.data = v, !.flags = @ \union {"DONE"}]

Failed(lu, v) == [lu EXCEPT !.data = v, !.flags = @ \union {"DONE", "BATCH_ERROR"}]

\* Slip: a callback that fails is left for another try.
CalledBack_TriesAgain(lu, outcome) ==
    IF outcome.ok THEN [lu EXCEPT !.data = outcome.data, !.flags = @ \union {"DONE"}]
    ELSE lu

\* Slip: only a callback that succeeds finishes its lookup.
CalledBack_DoneIfOk(lu, outcome) ==
    [lu EXCEPT !.data = outcome.data, !.flags = @ \union FlagIf(outcome.ok, "DONE")]

\* It may ask again; otherwise the lookup is over.
CalledBack(lu, outcome) ==
    [lu EXCEPT
        !.data = outcome.data,
        !.flags = @ \union
            IF AsksOffchain(outcome) THEN {}
            ELSE {"DONE"}
                 \union FlagIf(~outcome.ok \/ outcome.data = Empty, "CALL_ERROR")
                 \union FlagIf(outcome.data = Empty, "EMPTY_RESPONSE")]

\* Slip: the place in the batch is taken for the place among the answers.
Expected_Index(lookups, i) == i

Expected(lookups, i) == Count(lookups, i)

CcipBatchCallback(lookups, failures, responses, callback) ==
    [i \in DOMAIN lookups |->
        LET k == Expected(lookups, i)
        IN  IF i \in Unfinished(lookups) /\ k <= Len(responses)
            THEN IF failures[k]
                 THEN Failed(lookups[i], responses[k])
                 ELSE CalledBack(lookups[i], callback[<<lookups[i].data, responses[k]>>])
            ELSE lookups[i]]

CountsAgree(lookups, failures, responses) ==
    /\ Len(failures) = Len(responses)
    /\ Len(responses) = Cardinality(Unfinished(lookups))

(***************************************************************************)
(* _toResponseArray(): an error is padded so that nobody takes it for a    *)
(* response, whose length is a multiple of 32                              *)
(***************************************************************************)
ToResponse(lu) ==
    [data |-> lu.data, padded |-> lu.flags \intersect AnyError # {} /\ lu.data # Empty]

ToResponseArray(lookups) == [i \in DOMAIN lookups |-> ToResponse(lookups[i])]
==============================================================================
