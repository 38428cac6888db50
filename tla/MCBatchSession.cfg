CONSTANTS
    direct = direct
    missing = missing
    failing = failing
    legacy = legacy
    once = once
    twice = twice
    silent = silent
    askOnce = askOnce
    askFirst = askFirst
    askSecond = askSecond
    askSilent = askSilent
    right = right
    again = again
    last = last
    quiet = quiet
    forged = forged
    value = value
    found = found
    final = final
    error = error
    nothing = nothing
    Calls = {direct, missing, failing, legacy, once, twice, silent}
    Requests = {askOnce, askFirst, askSecond, askSilent}
    Responses = {right, again, last, quiet, forged}
    Bytes = {right, again, last, quiet, forged, value, found, final, error, nothing}
    Empty = nothing
    LegacyCalls = {legacy}
    Initial <- MCInitial
    Callback <- MCCallback
    Batches <- MCBatches
    Gateways <- MCGateways
    MaxGateways = 2
SPECIFICATION FairSpec
INVARIANT BatchInv
INVARIANT NoForgedValue
PROPERTY LookupsAreIndependent
PROPERTY BatchEnds
CHECK_DEADLOCK FALSE
