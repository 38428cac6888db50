------------------------ MODULE OffchainLookupSession ------------------------
(***************************************************************************)
(* What CCIPBatcher.sol promises of each lookup of a batch: "An independent *)
(* `OffchainLookup` session".  One call, made once; while it asks for data, *)
(* the gateway either fails or answers that request, and the contract that  *)
(* asked makes of the answer what it likes.  Nothing of the other lookups,  *)
(* of places in a list or of flags is known here.                          *)
(***************************************************************************)
CONSTANTS Calls, Requests, Bytes, Empty, LegacyCalls,
          Initial,     \* [Calls -> Outcome]: what the call itself ends in
          Callback     \* what the callback makes of an answer to a request

VARIABLES
    session,       \* the call, how far it is and the bytes at hand
    mayAnswer      \* for each request, the answers the gateway may give

\* A response of no bytes is none; a callback that returns nothing has failed.
After(outcome, fromCallback) ==
    IF ~outcome.ok /\ outcome.data \in Requests THEN "asking"
    ELSE IF outcome.data = Empty /\ ~fromCallback
         THEN IF outcome.ok \/ session.call \in LegacyCalls THEN "unsupported" ELSE "call failed"
    ELSE IF outcome.ok /\ outcome.data # Empty THEN "answered"
    ELSE "call failed"

Becomes(status, data) ==
    session' = [call |-> session.call, status |-> status, data |-> data]

Settle(outcome, fromCallback) == Becomes(After(outcome, fromCallback), outcome.data)

Init ==
    \E call \in Calls : session = [call |-> call, status |-> "fresh", data |-> Empty]

MakeCall ==
    /\ session.status = "fresh"
    /\ Settle(Initial[session.call], FALSE)

GetAnswer ==
    /\ session.status = "asking"
    /\ \E r \in mayAnswer[session.data] : Settle(Callback[<<session.data, r>>], TRUE)

GatewayFails ==
    /\ session.status = "asking"
    /\ \E error \in Bytes : Becomes("gateway failed", error)

Next == MakeCall \/ GetAnswer \/ GatewayFails

Spec == Init /\ [][Next]_session
==============================================================================
