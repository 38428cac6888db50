----------------------------- MODULE BatchProofs -----------------------------
(***************************************************************************)
(* Proofs about BatchSession: types, and that the lookups of a batch are    *)
(* independent sessions, for any number of lookups, resolvers and gateways. *)
(***************************************************************************)
EXTENDS BatchProperties, FiniteSetTheorems, SequenceTheorems, TLAPS

(***************************************************************************)
(* The places of unfinished lookups                                        *)
(***************************************************************************)

\* A batch has finitely many lookups, and so finitely many are unfinished.
LEMMA UnfinishedFinite ==
    ASSUME NEW batch \in Seq(Lookup)
    PROVE  /\ IsFiniteSet(Unfinished(batch))
           /\ Cardinality(Unfinished(batch)) \in Nat
           /\ Unfinished(batch) \subseteq 1..Len(batch)
<1>1. IsFiniteSet(1..Len(batch)) BY FS_Interval
<1>2. Unfinished(batch) \subseteq 1..Len(batch) BY DEF Unfinished
<1> QED BY <1>1, <1>2, FS_Subset, FS_CardinalityType

\* The k-th answer belongs to one lookup: no two unfinished ones share a place.
LEMMA PlacesDiffer ==
    ASSUME NEW batch \in Seq(Lookup),
           NEW i \in Unfinished(batch), NEW j \in Unfinished(batch),
           i < j
    PROVE  Count(batch, i) < Count(batch, j)
<1> DEFINE UpTo(n) == {m \in Unfinished(batch) : m <= n}
<1>1. IsFiniteSet(UpTo(j)) /\ IsFiniteSet(UpTo(i))
    BY UnfinishedFinite, FS_Subset
<1>2. i \in Nat /\ j \in Nat /\ \A m \in Unfinished(batch) : m \in Nat
    BY UnfinishedFinite
<1>3. UpTo(i) \subseteq UpTo(j)
    <2>1. \A m \in Nat : m <= i => m <= j BY <1>2
    <2> QED BY <1>2, <2>1
<1>4. j \in UpTo(j) /\ j \notin UpTo(i) BY <1>2
<1>5. Cardinality(UpTo(i)) <= Cardinality(UpTo(j))
      /\ Cardinality(UpTo(i)) # Cardinality(UpTo(j))
    BY <1>1, <1>3, <1>4, FS_Subset
<1>6. Cardinality(UpTo(i)) \in Nat /\ Cardinality(UpTo(j)) \in Nat
    BY <1>1, FS_CardinalityType
<1> QED BY <1>5, <1>6 DEF Count

\* The request at a lookup's place is its own.
LEMMA OwnRequest ==
    ASSUME NEW batch \in Seq(Lookup), NEW i \in Unfinished(batch)
    PROVE  /\ Count(batch, i) \in 1..Cardinality(Unfinished(batch))
           /\ GatewayRequests(batch)[Count(batch, i)] = batch[i].data
<1> DEFINE UpTo == {m \in Unfinished(batch) : m <= i}
           owner == CHOOSE j \in Unfinished(batch) : Count(batch, j) = Count(batch, i)
<1>1. Count(batch, i) \in 1..Cardinality(Unfinished(batch))
    <2>1. IsFiniteSet(UpTo) /\ Cardinality(UpTo) <= Cardinality(Unfinished(batch))
        BY UnfinishedFinite, FS_Subset
    <2>2. i \in UpTo BY UnfinishedFinite
    <2>3. Cardinality(UpTo) \in Nat /\ Cardinality(UpTo) # 0
        BY <2>1, <2>2, FS_CardinalityType, FS_EmptySet
    <2> QED BY <2>1, <2>3, UnfinishedFinite DEF Count
<1>2. owner \in Unfinished(batch) /\ Count(batch, owner) = Count(batch, i)
    OBVIOUS
<1>3. owner = i
    <2>1. i \in Nat /\ owner \in Nat BY <1>2, UnfinishedFinite
    <2>2. CASE owner < i
        <3>1. Count(batch, owner) < Count(batch, i) BY <1>2, <2>2, PlacesDiffer
        <3> QED BY <3>1, <1>1, <1>2, UnfinishedFinite
    <2>3. CASE i < owner
        <3>1. Count(batch, i) < Count(batch, owner) BY <1>2, <2>3, PlacesDiffer
        <3> QED BY <3>1, <1>1, <1>2, UnfinishedFinite
    <2> QED BY <2>1, <2>2, <2>3
<1>4. GatewayRequests(batch)[Count(batch, i)] = batch[owner].data
    BY <1>1 DEF GatewayRequests
<1> QED BY <1>1, <1>3, <1>4

(***************************************************************************)
(* One lookup at a time                                                    *)
(***************************************************************************)

\* A lookup that was called is done, or has a request to send.
LEMMA CalledLookup ==
    ASSUME NEW lu \in Lookup, lu.flags = {}, NEW outcome \in Outcome
    PROVE  LET new == Called(Probed(lu), outcome)
           IN  /\ new \in Lookup
               /\ new.call = lu.call
               /\ new.data = outcome.data
               /\ "BATCH_ERROR" \notin new.flags
               /\ "DONE" \in new.flags <=> ~AsksOffchain(outcome)
               /\ "OFFCHAIN" \in new.flags <=> AsksOffchain(outcome)
               /\ "CALL_ERROR" \in new.flags <=>
                     /\ ~AsksOffchain(outcome) /\ ~outcome.ok
                     /\ ~(lu.call \in LegacyCalls /\ outcome.data = Empty)
               /\ "EMPTY_RESPONSE" \in new.flags <=>
                     ~AsksOffchain(outcome) /\ outcome.data = Empty
<1> DEFINE probed == Probed(lu)
           new == Called(probed, outcome)
<1>1. /\ probed.call = lu.call
      /\ probed \in Lookup
      /\ probed.flags = {IF lu.call \in LegacyCalls THEN "EIP140_BEFORE" ELSE "EIP140_AFTER"}
    BY DEF Probed, Lookup, Flags, AnyEIP140
<1>2. new = [probed EXCEPT
                !.data = outcome.data,
                !.flags = probed.flags \union
                    IF AsksOffchain(outcome) THEN {"OFFCHAIN"}
                    ELSE {"DONE"}
                         \union FlagIf(~outcome.ok /\ ~(lu.call \in LegacyCalls /\ outcome.data = Empty),
                                       "CALL_ERROR")
                         \union FlagIf(outcome.data = Empty, "EMPTY_RESPONSE")]
    <2>1. "EIP140_AFTER" \notin probed.flags <=> lu.call \in LegacyCalls BY <1>1
    <2> QED BY <2>1 DEF Called
<1> HIDE DEF probed, new
<1>3. new.call = lu.call /\ new.data = outcome.data BY <1>1, <1>2 DEF Lookup
<1>4. new.flags = probed.flags \union
                    IF AsksOffchain(outcome) THEN {"OFFCHAIN"}
                    ELSE {"DONE"}
                         \union FlagIf(~outcome.ok /\ ~(lu.call \in LegacyCalls /\ outcome.data = Empty),
                                       "CALL_ERROR")
                         \union FlagIf(outcome.data = Empty, "EMPTY_RESPONSE")
    BY <1>1, <1>2 DEF Lookup
<1>5. new \in Lookup
    <2>1. new.flags \in SUBSET Flags BY <1>1, <1>4 DEF Flags, FlagIf
    <2> QED BY <1>1, <1>2, <1>4, <2>1 DEF Lookup, Outcome
<1>6. /\ "BATCH_ERROR" \notin new.flags
      /\ "DONE" \in new.flags <=> ~AsksOffchain(outcome)
      /\ "OFFCHAIN" \in new.flags <=> AsksOffchain(outcome)
      /\ "CALL_ERROR" \in new.flags <=>
            /\ ~AsksOffchain(outcome) /\ ~outcome.ok
            /\ ~(lu.call \in LegacyCalls /\ outcome.data = Empty)
      /\ "EMPTY_RESPONSE" \in new.flags <=> ~AsksOffchain(outcome) /\ outcome.data = Empty
    BY <1>1, <1>4 DEF FlagIf
<1> QED BY <1>3, <1>5, <1>6 DEF new, probed

\* A lookup whose callback was called is done, or has another request to send.
LEMMA CalledBackLookup ==
    ASSUME NEW lu \in Lookup, "DONE" \notin lu.flags, "OFFCHAIN" \in lu.flags,
           lu.flags \intersect AnyError = {}, NEW outcome \in Outcome
    PROVE  LET new == CalledBack(lu, outcome)
           IN  /\ new \in Lookup
               /\ new.call = lu.call
               /\ new.data = outcome.data
               /\ "OFFCHAIN" \in new.flags
               /\ "BATCH_ERROR" \notin new.flags
               /\ "DONE" \in new.flags <=> ~AsksOffchain(outcome)
               /\ "CALL_ERROR" \in new.flags <=>
                     ~AsksOffchain(outcome) /\ (~outcome.ok \/ outcome.data = Empty)
               /\ "EMPTY_RESPONSE" \in new.flags <=>
                     ~AsksOffchain(outcome) /\ outcome.data = Empty
<1> DEFINE new == CalledBack(lu, outcome)
<1>1. new.call = lu.call /\ new.data = outcome.data BY DEF CalledBack, Lookup
<1>2. new.flags = lu.flags \union
            IF AsksOffchain(outcome) THEN {}
            ELSE {"DONE"} \union FlagIf(~outcome.ok \/ outcome.data = Empty, "CALL_ERROR")
                          \union FlagIf(outcome.data = Empty, "EMPTY_RESPONSE")
    BY DEF CalledBack, Lookup
<1>3. new \in Lookup
    <2>1. new.flags \in SUBSET Flags BY <1>2 DEF Flags, FlagIf, Lookup
    <2> QED BY <1>2, <2>1 DEF Lookup, Outcome, CalledBack
<1>4. /\ "OFFCHAIN" \in new.flags
      /\ "BATCH_ERROR" \notin new.flags
      /\ "DONE" \in new.flags <=> ~AsksOffchain(outcome)
      /\ "CALL_ERROR" \in new.flags <=>
            ~AsksOffchain(outcome) /\ (~outcome.ok \/ outcome.data = Empty)
      /\ "EMPTY_RESPONSE" \in new.flags <=> ~AsksOffchain(outcome) /\ outcome.data = Empty
    BY <1>2 DEF FlagIf, AnyError
<1> QED BY <1>1, <1>3, <1>4

\* A lookup whose request failed is done.
LEMMA FailedLookup ==
    ASSUME NEW lu \in Lookup, NEW v \in Bytes
    PROVE  LET new == Failed(lu, v)
           IN  /\ new \in Lookup
               /\ new.call = lu.call
               /\ new.data = v
               /\ "DONE" \in new.flags /\ "BATCH_ERROR" \in new.flags
BY DEF Failed, Lookup, Flags

(***************************************************************************)
(* The steps of the batch, one lookup at a time                            *)
(***************************************************************************)

\* ccipBatch() calls each lookup once.
LEMMA StartEach ==
    ASSUME BatchInv, Start
    PROVE  /\ lookups' \in Seq(Lookup)
           /\ DOMAIN lookups' = DOMAIN lookups
           /\ \A i \in DOMAIN lookups :
                /\ lookups[i] \in Lookup /\ lookups[i].flags = {}
                /\ Initial[lookups[i].call] \in Outcome
                /\ lookups'[i] = Called(Probed(lookups[i]), Initial[lookups[i].call])
<1>1. /\ lookups \in [1..Len(lookups) -> Lookup] /\ Len(lookups) \in Nat
      /\ DOMAIN lookups = 1..Len(lookups)
    BY LenProperties DEF BatchInv, BatchTypeOK
<1>2. \A i \in DOMAIN lookups :
         /\ lookups[i] \in Lookup /\ lookups[i].flags = {}
         /\ Initial[lookups[i].call] \in Outcome
    BY <1>1, SessionAssumption DEF BatchInv, FlagsFollow, Start, Lookup
<1>3. \A i \in DOMAIN lookups :
         Called(Probed(lookups[i]), Initial[lookups[i].call]) \in Lookup
    BY <1>2, CalledLookup
<1>4. lookups' = [i \in 1..Len(lookups) |->
                    Called(Probed(lookups[i]), Initial[lookups[i].call])]
    BY <1>1, <1>2 DEF Start, CcipBatch
<1>5. lookups' \in [1..Len(lookups) -> Lookup] BY <1>1, <1>3, <1>4
<1> QED BY <1>1, <1>2, <1>4, <1>5, SeqDef

\* ccipBatchCallback() gives each unfinished lookup the answer at its place.
LEMMA CallBackEach ==
    ASSUME BatchInv, CallBack, CountsAgree(lookups, failures, responses)
    PROVE  /\ lookups' \in Seq(Lookup)
           /\ DOMAIN lookups' = DOMAIN lookups
           /\ \A i \in DOMAIN lookups \ Unfinished(lookups) : lookups'[i] = lookups[i]
           /\ \A i \in Unfinished(lookups) :
                LET v == responses[Count(lookups, i)]
                IN  /\ lookups[i] \in Lookup
                    /\ "DONE" \notin lookups[i].flags /\ "OFFCHAIN" \in lookups[i].flags
                    /\ lookups[i].flags \intersect AnyError = {}
                    /\ lookups[i].data \in Requests
                    /\ v \in Responses
                    /\ Callback[<<lookups[i].data, v>>] \in Outcome
                    /\ \/ lookups'[i] = Failed(lookups[i], v)
                       \/ /\ v \in mayAnswer[lookups[i].data]
                          /\ lookups'[i] = CalledBack(lookups[i], Callback[<<lookups[i].data, v>>])
<1>1. /\ lookups \in Seq(Lookup)
      /\ lookups \in [1..Len(lookups) -> Lookup] /\ Len(lookups) \in Nat
      /\ DOMAIN lookups = 1..Len(lookups)
    BY LenProperties DEF BatchInv, BatchTypeOK
<1>2. /\ failures \in Seq(BOOLEAN) /\ responses \in Seq(Responses)
      /\ Len(failures) = Cardinality(Unfinished(lookups))
      /\ Len(responses) = Cardinality(Unfinished(lookups))
    BY DEF BatchInv, BatchTypeOK, CountsAgree
<1>3. ASSUME NEW i \in Unfinished(lookups)
      PROVE  LET k == Count(lookups, i)
             IN  /\ k \in 1..Len(responses) /\ k <= Len(responses)
                 /\ responses[k] \in Responses
                 /\ failures[k] \in BOOLEAN
                 /\ failures[k] \/ responses[k] \in mayAnswer[lookups[i].data]
    <2> DEFINE k == Count(lookups, i)
    <2>1. /\ k \in 1..Cardinality(Unfinished(lookups))
          /\ GatewayRequests(lookups)[k] = lookups[i].data
        BY <1>1, OwnRequest
    <2>2. k \in 1..Len(responses) /\ k \in 1..Len(failures) BY <1>2, <2>1
    <2>3. responses[k] \in Responses /\ failures[k] \in BOOLEAN
        BY <1>2, <2>2, ElementOfSeq
    <2>4. k <= Len(responses) BY <1>1, <1>2, <2>1, UnfinishedFinite
    <2>5. failures[k] \/ responses[k] \in mayAnswer[GatewayRequests(lookups)[k]]
        BY <2>2 DEF BatchInv, AnswersAreMeant, CallBack
    <2> QED BY <2>1, <2>2, <2>3, <2>4, <2>5
<1>4. ASSUME NEW i \in Unfinished(lookups)
      PROVE  /\ lookups[i] \in Lookup
             /\ "DONE" \notin lookups[i].flags /\ "OFFCHAIN" \in lookups[i].flags
             /\ lookups[i].flags \intersect AnyError = {}
             /\ lookups[i].data \in Requests
    BY <1>1 DEF Unfinished, BatchInv, FlagsFollow, BatchTypeOK, CallBack
<1>5. ASSUME NEW i \in Unfinished(lookups)
      PROVE  Callback[<<lookups[i].data, responses[Count(lookups, i)]>>] \in Outcome
    BY <1>3, <1>4, SessionAssumption
<1> DEFINE new(i) ==
        IF i \in Unfinished(lookups)
        THEN IF failures[Count(lookups, i)]
             THEN Failed(lookups[i], responses[Count(lookups, i)])
             ELSE CalledBack(lookups[i], Callback[<<lookups[i].data,
                                                    responses[Count(lookups, i)]>>])
        ELSE lookups[i]
<1>6. lookups' = [i \in 1..Len(lookups) |-> new(i)]
    <2>1. lookups' = CcipBatchCallback(lookups, failures, responses, Callback)
        BY DEF CallBack
    <2>2. \A i \in DOMAIN lookups :
            CcipBatchCallback(lookups, failures, responses, Callback)[i] = new(i)
        BY <1>3 DEF CcipBatchCallback, Expected
    <2>3. DOMAIN CcipBatchCallback(lookups, failures, responses, Callback) = DOMAIN lookups
        BY DEF CcipBatchCallback
    <2>4. CcipBatchCallback(lookups, failures, responses, Callback)
            = [i \in DOMAIN lookups |->
                 CcipBatchCallback(lookups, failures, responses, Callback)[i]]
        BY DEF CcipBatchCallback
    <2> QED BY <1>1, <2>1, <2>2, <2>4
<1>7. ASSUME NEW i \in 1..Len(lookups) PROVE new(i) \in Lookup
    <2>1. CASE i \notin Unfinished(lookups) BY <1>1, <2>1
    <2>2. CASE i \in Unfinished(lookups) /\ failures[Count(lookups, i)]
        <3>1. responses[Count(lookups, i)] \in Bytes BY <1>3, <2>2, BatcherAssumption
        <3> QED BY <1>4, <2>2, <3>1, FailedLookup
    <2>3. CASE i \in Unfinished(lookups) /\ ~failures[Count(lookups, i)]
        BY <1>4, <1>5, <2>3, CalledBackLookup
    <2> QED BY <2>1, <2>2, <2>3
<1>8. lookups' \in [1..Len(lookups) -> Lookup] BY <1>6, <1>7
<1>9. lookups' \in Seq(Lookup) /\ DOMAIN lookups' = DOMAIN lookups
    BY <1>1, <1>8, SeqDef
<1>10. \A i \in DOMAIN lookups : lookups'[i] = new(i) BY <1>1, <1>6
<1>11. Unfinished(lookups) \subseteq DOMAIN lookups BY DEF Unfinished
<1> HIDE DEF new
<1>12. \A i \in DOMAIN lookups \ Unfinished(lookups) : lookups'[i] = lookups[i]
    BY <1>10 DEF new
<1>13. ASSUME NEW i \in Unfinished(lookups)
       PROVE  LET v == responses[Count(lookups, i)]
              IN  \/ lookups'[i] = Failed(lookups[i], v)
                  \/ /\ v \in mayAnswer[lookups[i].data]
                     /\ lookups'[i] = CalledBack(lookups[i], Callback[<<lookups[i].data, v>>])
    BY <1>3, <1>10, <1>11 DEF new
<1> QED BY <1>3, <1>4, <1>5, <1>9, <1>12, <1>13

(***************************************************************************)
(* The invariant                                                           *)
(***************************************************************************)

\* A new batch has nothing called yet.
LEMMA InitKeepsInv == Init => BatchInv
<1> SUFFICES ASSUME Init PROVE BatchInv OBVIOUS
<1>1. PICK calls \in Batches : lookups = CreateBatch(calls) BY DEF Init
<1>2. calls \in Seq(Calls) BY SessionAssumption
<1>3. calls \in [1..Len(calls) -> Calls] /\ Len(calls) \in Nat /\ DOMAIN calls = 1..Len(calls)
    BY <1>2, LenProperties
<1>4. lookups = [i \in 1..Len(calls) |-> [call |-> calls[i], data |-> Empty, flags |-> {}]]
    BY <1>1, <1>3 DEF CreateBatch
<1>5. \A i \in 1..Len(calls) :
        [call |-> calls[i], data |-> Empty, flags |-> {}] \in Lookup
    BY <1>3, BatcherAssumption DEF Lookup
<1>6. lookups \in [1..Len(calls) -> Lookup] BY <1>4, <1>5
<1>7. lookups \in Seq(Lookup) BY <1>3, <1>6, SeqDef
<1>8. BatchTypeOK
    <2>1. failures \in Seq(BOOLEAN) /\ responses \in Seq(Responses)
        BY EmptySeq DEF Init
    <2> QED BY <1>7, <2>1, SessionAssumption DEF Init, BatchTypeOK
<1>9. FlagsFollow BY <1>4 DEF FlagsFollow, Init
<1> QED BY <1>8, <1>9 DEF BatchInv, AnswersAreMeant, Init

\* An answer that came in leaves the lookups alone.
LEMMA AnswerKeepsInv ==
    ASSUME BatchInv,
           phase = "asking", phase' = "answered", tried' = 0,
           UNCHANGED <<lookups, mayAnswer>>,
           failures' \in Seq(BOOLEAN), responses' \in Seq(Responses),
           AnswersAreMeant'
    PROVE  BatchInv'
<1>1. Unfinished(lookups)' = Unfinished(lookups) BY DEF Unfinished
<1>2. BatchTypeOK' BY <1>1, SessionAssumption DEF BatchInv, BatchTypeOK
<1>3. FlagsFollow' BY <1>1 DEF BatchInv, FlagsFollow
<1> QED BY <1>2, <1>3 DEF BatchInv

\* Every step keeps the invariant.
LEMMA NextKeepsInv == BatchInv /\ [Next]_vars => BatchInv'
<1> SUFFICES ASSUME BatchInv, [Next]_vars PROVE BatchInv' OBVIOUS
<1> DEFINE n == Cardinality(Unfinished(lookups))
<1>1. n \in Nat /\ MaxGateways \in Nat
    BY UnfinishedFinite, SessionAssumption DEF BatchInv, BatchTypeOK
<1>2. CASE Start
    <2>1. \A i \in DOMAIN lookups :
            LET new == lookups'[i]
            IN  "DONE" \notin new.flags =>
                  /\ new.data \in Requests /\ "OFFCHAIN" \in new.flags
                  /\ new.flags \intersect AnyError = {}
        <3> SUFFICES ASSUME NEW i \in DOMAIN lookups, "DONE" \notin lookups'[i].flags
                     PROVE  /\ lookups'[i].data \in Requests /\ "OFFCHAIN" \in lookups'[i].flags
                            /\ lookups'[i].flags \intersect AnyError = {}
            OBVIOUS
        <3> DEFINE lu == lookups[i]
                   outcome == Initial[lu.call]
        <3>1. lu \in Lookup /\ lu.flags = {} /\ outcome \in Outcome
              /\ lookups'[i] = Called(Probed(lu), outcome)
            BY <1>2, StartEach
        <3> HIDE DEF lu, outcome
        <3>2. AsksOffchain(outcome) /\ lookups'[i].data = outcome.data
              /\ "OFFCHAIN" \in lookups'[i].flags /\ "BATCH_ERROR" \notin lookups'[i].flags
              /\ "CALL_ERROR" \notin lookups'[i].flags
              /\ "EMPTY_RESPONSE" \notin lookups'[i].flags
            BY <3>1, CalledLookup
        <3> QED BY <3>2 DEF AsksOffchain, AnyError
    <2>2. lookups' \in Seq(Lookup) /\ DOMAIN lookups' = DOMAIN lookups
        BY <1>2, StartEach
    <2>3. phase' \in {"returned", "asking"} BY <1>2 DEF Start, Proceed
    <2>4. BatchTypeOK'
        BY <1>2, <2>1, <2>2, <2>3, SessionAssumption
        DEF BatchInv, BatchTypeOK, Start, Unfinished
    <2>5. FlagsFollow' BY <2>1, <2>2, <2>3 DEF FlagsFollow, Unfinished
    <2>6. AnswersAreMeant' BY <2>3 DEF AnswersAreMeant
    <2> QED BY <2>4, <2>5, <2>6 DEF BatchInv
<1>3. CASE GatewayAnswers
    <2>1. /\ failures' \in [1..n -> BOOLEAN] /\ responses' \in [1..n -> Responses]
          /\ phase = "asking" /\ phase' = "answered" /\ tried' = 0
          /\ UNCHANGED <<lookups, mayAnswer>>
          /\ \A k \in 1..n :
                failures'[k] \/ responses'[k] \in mayAnswer[GatewayRequests(lookups)[k]]
        BY <1>3 DEF GatewayAnswers
    <2>2. failures' \in Seq(BOOLEAN) /\ responses' \in Seq(Responses) /\ Len(responses') = n
        BY <1>1, <2>1, SeqDef, LenProperties
    <2>3. GatewayRequests(lookups)' = GatewayRequests(lookups) BY <2>1
    <2>4. AnswersAreMeant'
        <3>1. ASSUME NEW k \in 1..Len(responses')
              PROVE  failures'[k] \/ responses'[k] \in mayAnswer'[GatewayRequests(lookups)'[k]]
            BY <2>1, <2>2, <2>3
        <3> QED BY <3>1 DEF AnswersAreMeant
    <2> QED BY <1>1, <2>1, <2>2, <2>4, AnswerKeepsInv
<1>4. CASE GatewayMiscounts
    <2>1. PICK m \in {n - 1, n + 1}, l \in {n - 1, n, n + 1} :
            failures' \in [1..l -> BOOLEAN] /\ responses' \in [1..m -> Responses]
        BY <1>4 DEF GatewayMiscounts
    <2>2. /\ phase = "asking" /\ phase' = "answered" /\ tried' = 0
          /\ UNCHANGED <<lookups, mayAnswer>>
        BY <1>4 DEF GatewayMiscounts
    <2>3. ASSUME NEW S, NEW k \in Int, NEW f \in [1..k -> S], k # n
          PROVE  f \in Seq(S) /\ (Len(f) = n => n = 0)
        <3>1. CASE k \in Nat BY <1>1, <2>3, <3>1, SeqDef, LenProperties
        <3>2. CASE k \notin Nat
            <4>1. 1..k = {} /\ 1..0 = {} BY <3>2
            <4>2. f \in [1..0 -> S] BY <4>1
            <4> QED BY <4>2, SeqDef, LenProperties
        <3> QED BY <3>1, <3>2
    <2>4. responses' \in Seq(Responses) /\ (Len(responses') = n => n = 0)
        BY <1>1, <2>1, <2>3
    <2>5. failures' \in Seq(BOOLEAN)
        <3>1. CASE l = n BY <1>1, <2>1, <3>1, SeqDef
        <3>2. CASE l # n BY <1>1, <2>1, <2>3, <3>2
        <3> QED BY <3>1, <3>2
    <2>6. AnswersAreMeant'
        BY <1>1, <2>2, <2>4 DEF AnswersAreMeant, CountsAgree, Unfinished
    <2> QED BY <1>1, <2>2, <2>4, <2>5, <2>6, AnswerKeepsInv
<1>5. CASE GatewayIsDown
    <2>1. /\ UNCHANGED <<lookups, failures, responses, mayAnswer>>
          /\ phase = "asking" /\ phase' \in {"failed", "asking"}
          /\ tried' = tried + 1
          /\ phase' = IF tried' = MaxGateways THEN "failed" ELSE "asking"
        BY <1>5 DEF GatewayIsDown
    <2>2. Unfinished(lookups)' = Unfinished(lookups) BY <2>1
    <2>3. BatchTypeOK' BY <1>1, <2>1, <2>2 DEF BatchInv, BatchTypeOK
    <2>4. FlagsFollow' BY <2>1, <2>2 DEF BatchInv, FlagsFollow
    <2>5. AnswersAreMeant' BY <2>1 DEF AnswersAreMeant
    <2> QED BY <2>3, <2>4, <2>5 DEF BatchInv
<1>6. CASE CallBack
    <2>1. /\ phase = "answered" /\ UNCHANGED <<tried, mayAnswer>>
          /\ failures' = <<>> /\ responses' = <<>>
        BY <1>6 DEF CallBack
    <2>2. failures' \in Seq(BOOLEAN) /\ responses' \in Seq(Responses) BY <2>1, EmptySeq
    <2>3. CASE CountsAgree(lookups, failures, responses)
        <3>1. lookups' \in Seq(Lookup) /\ DOMAIN lookups' = DOMAIN lookups
            BY <1>6, <2>3, CallBackEach
        <3>2. ASSUME NEW i \in DOMAIN lookups, "DONE" \notin lookups'[i].flags
              PROVE  /\ lookups'[i].data \in Requests /\ "OFFCHAIN" \in lookups'[i].flags
                     /\ lookups'[i].flags \intersect AnyError = {}
            <4>1. i \in Unfinished(lookups)
                <5>1. CASE i \notin Unfinished(lookups)
                    <6>1. lookups'[i] = lookups[i] BY <1>6, <2>3, <5>1, CallBackEach
                    <6> QED BY <3>2, <6>1 DEF Unfinished
                <5> QED BY <5>1
            <4> DEFINE lu == lookups[i]
                       v == responses[Count(lookups, i)]
                       outcome == Callback[<<lookups[i].data, v>>]
            <4>2. /\ lu \in Lookup /\ "DONE" \notin lu.flags /\ "OFFCHAIN" \in lu.flags
                  /\ lu.flags \intersect AnyError = {}
                  /\ v \in Bytes /\ outcome \in Outcome
                  /\ lookups'[i] = Failed(lu, v) \/ lookups'[i] = CalledBack(lu, outcome)
                BY <1>6, <2>3, <4>1, CallBackEach, BatcherAssumption
            <4> HIDE DEF lu, v, outcome
            <4>3. lookups'[i] = CalledBack(lu, outcome) BY <3>2, <4>2, FailedLookup
            <4>4. AsksOffchain(outcome) /\ lookups'[i].data = outcome.data
                  /\ "OFFCHAIN" \in lookups'[i].flags /\ "BATCH_ERROR" \notin lookups'[i].flags
                  /\ "CALL_ERROR" \notin lookups'[i].flags
                  /\ "EMPTY_RESPONSE" \notin lookups'[i].flags
                BY <3>2, <4>2, <4>3, CalledBackLookup
            <4> QED BY <4>4 DEF AsksOffchain, AnyError
        <3>3. phase' \in {"returned", "asking"} BY <1>6, <2>3 DEF CallBack, Proceed
        <3>4. BatchTypeOK'
            BY <2>1, <2>2, <3>1, <3>2, <3>3 DEF BatchInv, BatchTypeOK, Unfinished
        <3>5. FlagsFollow' BY <3>1, <3>2, <3>3 DEF FlagsFollow, Unfinished
        <3>6. AnswersAreMeant' BY <3>3 DEF AnswersAreMeant
        <3> QED BY <3>4, <3>5, <3>6 DEF BatchInv
    <2>4. CASE ~CountsAgree(lookups, failures, responses)
        <3>1. phase' = "reverted" /\ lookups' = lookups BY <1>6, <2>4 DEF CallBack
        <3>2. Unfinished(lookups)' = Unfinished(lookups) BY <3>1
        <3>3. BatchTypeOK' BY <2>1, <2>2, <3>1, <3>2 DEF BatchInv, BatchTypeOK
        <3>4. FlagsFollow' BY <2>1, <3>1, <3>2 DEF BatchInv, FlagsFollow
        <3>5. AnswersAreMeant' BY <3>1 DEF AnswersAreMeant
        <3> QED BY <3>3, <3>4, <3>5 DEF BatchInv
    <2> QED BY <2>3, <2>4
<1>7. CASE UNCHANGED vars
    <2>1. /\ lookups' = lookups /\ phase' = phase /\ failures' = failures
          /\ responses' = responses /\ tried' = tried /\ mayAnswer' = mayAnswer
        BY <1>7 DEF vars
    <2>2. Unfinished(lookups)' = Unfinished(lookups) BY <2>1
    <2>3. GatewayRequests(lookups)' = GatewayRequests(lookups) BY <2>1
    <2>4. BatchTypeOK' BY <2>1, <2>2 DEF BatchInv, BatchTypeOK
    <2>5. FlagsFollow' BY <2>1, <2>2 DEF BatchInv, FlagsFollow
    <2>6. CountsAgree(lookups, failures, responses)' = CountsAgree(lookups, failures, responses)
        BY <2>1
    <2>7. AnswersAreMeant' BY <2>1, <2>3, <2>6 DEF BatchInv, AnswersAreMeant
    <2> QED BY <2>4, <2>5, <2>7 DEF BatchInv
<1> QED BY <1>2, <1>3, <1>4, <1>5, <1>6, <1>7 DEF Next

(***************************************************************************)
(* The types of the batch and of what the client holds, and what links the *)
(* flags, the rounds and the gateway's answers, hold in every session       *)
(* (BatchSession): a lookup that waits has a request that can be decoded.  *)
(***************************************************************************)
THEOREM BatchInvariant == Spec => []BatchInv
BY InitKeepsInv, NextKeepsInv, PTL DEF Spec

(***************************************************************************)
(* Every lookup of every batch is an independent session: it takes the      *)
(* steps of OffchainLookupSession and no others, with the answers its       *)
(* gateway may give to its own request (ccipBatch, ccipBatchCallback).     *)
(***************************************************************************)
THEOREM IndependentLookups == Spec => LookupsAreIndependent
<1>1. BatchInv /\ [Next]_vars =>
        [\A i \in DOMAIN lookups : Session(i)!Next \/ UNCHANGED SessionOf(i)]_vars
    <2> SUFFICES ASSUME BatchInv, Next, NEW i \in DOMAIN lookups
                 PROVE  Session(i)!Next \/ UNCHANGED SessionOf(i)
        OBVIOUS
    <2> DEFINE lu == lookups[i]
               new == lookups'[i]
    <2>1. CASE Start
        <3> DEFINE outcome == Initial[lu.call]
        <3>1. /\ lu \in Lookup /\ lu.flags = {} /\ lu.data = Empty /\ outcome \in Outcome
              /\ lookups'[i] = Called(Probed(lu), outcome)
            BY <2>1, StartEach DEF BatchInv, FlagsFollow, Start
        <3>2. /\ SessionOf(i) = [call |-> lu.call, status |-> "fresh", data |-> lu.data]
              /\ SessionOf(i)' = [call |-> lu.call, status |-> StatusOf(new), data |-> outcome.data]
            <4>1. new.call = lu.call /\ new.data = outcome.data BY <3>1, CalledLookup
            <4> QED BY <3>1, <4>1 DEF SessionOf, StatusOf
        <3>3. StatusOf(new) = Session(i)!After(outcome, FALSE)
            <4> HIDE DEF outcome, lu, new
            <4>1. SessionOf(i).call = lu.call BY <3>2
            <4> QED BY <3>1, <4>1, CalledLookup
                DEF Session!After, StatusOf, AsksOffchain, Outcome, new, lu
        <3>4. Session(i)!MakeCall
            <4>1. /\ SessionOf(i).status = "fresh" /\ SessionOf(i).call = lu.call
                  /\ Initial[SessionOf(i).call] = outcome
                BY <3>2
            <4> HIDE DEF outcome, lu, new
            <4> QED BY <4>1, <3>2, <3>3
                DEF Session!MakeCall, Session!Settle, Session!Becomes
        <3> QED BY <3>4 DEF Session!Next
    <2>2. CASE CallBack
        <3>1. CASE i \notin Unfinished(lookups)
                   \/ ~CountsAgree(lookups, failures, responses)
            <4>1. lookups'[i] = lookups[i] BY <2>2, <3>1, CallBackEach DEF CallBack
            <4> QED BY <4>1 DEF SessionOf
        <3>2. CASE i \in Unfinished(lookups) /\ CountsAgree(lookups, failures, responses)
            <4> DEFINE v == responses[Count(lookups, i)]
                       outcome == Callback[<<lu.data, v>>]
            <4>1. /\ lu \in Lookup /\ "DONE" \notin lu.flags /\ "OFFCHAIN" \in lu.flags
                  /\ lu.flags \intersect AnyError = {}
                  /\ v \in Bytes /\ outcome \in Outcome
                  /\ \/ new = Failed(lu, v)
                     \/ v \in mayAnswer[lu.data] /\ new = CalledBack(lu, outcome)
                BY <2>2, <3>2, CallBackEach, BatcherAssumption
            <4>2. /\ SessionOf(i) = [call |-> lu.call, status |-> "asking", data |-> lu.data]
                  /\ SessionOf(i)' = [call |-> new.call, status |-> StatusOf(new),
                                      data |-> new.data]
                BY <4>1 DEF SessionOf, StatusOf
            <4>3. CASE new = Failed(lu, v)
                <5> HIDE DEF lu, new, v, outcome
                <5>1. new.call = lu.call /\ new.data = v /\ StatusOf(new) = "gateway failed"
                    BY <4>1, <4>3, FailedLookup DEF StatusOf
                <5>2. SessionOf(i).status = "asking" /\ SessionOf(i).call = lu.call
                    BY <4>2
                <5>3. SessionOf(i)' = [call |-> SessionOf(i).call,
                                       status |-> "gateway failed", data |-> v]
                    BY <4>2, <5>1, <5>2
                <5>4. Session(i)!GatewayFails
                    BY <4>1, <5>2, <5>3 DEF Session!GatewayFails, Session!Becomes
                <5> QED BY <5>4 DEF Session!Next
            <4>4. CASE v \in mayAnswer[lu.data] /\ new = CalledBack(lu, outcome)
                <5>1. new.call = lu.call /\ new.data = outcome.data
                    BY <4>1, <4>4, CalledBackLookup
                <5>2. StatusOf(new) = Session(i)!After(outcome, TRUE)
                    <6> HIDE DEF outcome, lu, new
                    <6> QED BY <4>1, <4>4, CalledBackLookup
                        DEF Session!After, StatusOf, AsksOffchain, Outcome
                <5>3. SessionOf(i).status = "asking" /\ SessionOf(i).data = lu.data
                      /\ SessionOf(i).call = lu.call
                    BY <4>2
                <5>4. Session(i)!Settle(outcome, TRUE)
                    <6> HIDE DEF outcome, lu, new
                    <6> QED BY <4>2, <5>1, <5>2, <5>3 DEF Session!Settle, Session!Becomes
                <5>5. Session(i)!GetAnswer
                    BY <4>4, <5>3, <5>4 DEF Session!GetAnswer
                <5> QED BY <5>5 DEF Session!Next
            <4> QED BY <4>1, <4>3, <4>4
        <3> QED BY <3>1, <3>2
    <2>3. CASE GatewayAnswers \/ GatewayMiscounts \/ GatewayIsDown
        <3>1. lookups' = lookups
            BY <2>3 DEF GatewayAnswers, GatewayMiscounts, GatewayIsDown
        <3> QED BY <3>1 DEF SessionOf
    <2> QED BY <2>1, <2>2, <2>3 DEF Next
<1> QED BY <1>1, BatchInvariant, PTL DEF Spec, LookupsAreIndependent

(***************************************************************************)
(* Where values come from                                                  *)
(***************************************************************************)

\* What the call asks for first is among its own requests.
LEMMA FirstRequest ==
    ASSUME NEW call \in Calls, AsksOffchain(Initial[call])
    PROVE  Initial[call].data \in Asks(call)
BY DEF Asks, ClosedFor, AsksOn, AsksOffchain

\* And so is what a callback asks for next.
LEMMA NextRequest ==
    ASSUME NEW call \in Calls, NEW q \in Asks(call), NEW r \in Responses,
           AsksOffchain(Callback[<<q, r>>])
    PROVE  Callback[<<q, r>>].data \in Asks(call)
<1>1. Callback[<<q, r>>].data \in Requests BY DEF AsksOffchain
<1>2. ASSUME NEW requests \in SUBSET Requests, ClosedFor(call, requests)
      PROVE  Callback[<<q, r>>].data \in requests
    <2>1. q \in requests BY <1>2 DEF Asks
    <2> QED BY <1>2, <2>1 DEF ClosedFor, AsksOn
<1> QED BY <1>1, <1>2 DEF Asks

\* A lookup that was called waits for its own request or has its own value.
LEMMA CalledIsSourced ==
    ASSUME NEW lu \in Lookup, lu.flags = {}
    PROVE  Sourced(Called(Probed(lu), Initial[lu.call]))
<1> DEFINE outcome == Initial[lu.call]
           new == Called(Probed(lu), outcome)
<1>1. lu.call \in Calls /\ outcome \in Outcome BY SessionAssumption DEF Lookup
<1>2. /\ new.call = lu.call /\ new.data = outcome.data
      /\ "DONE" \in new.flags <=> ~AsksOffchain(outcome)
      /\ "CALL_ERROR" \in new.flags <=>
            /\ ~AsksOffchain(outcome) /\ ~outcome.ok
            /\ ~(lu.call \in LegacyCalls /\ outcome.data = Empty)
      /\ "EMPTY_RESPONSE" \in new.flags <=>
            ~AsksOffchain(outcome) /\ outcome.data = Empty
    <2> HIDE DEF outcome
    <2> QED BY <1>1, CalledLookup
<1>3. CASE AsksOffchain(outcome)
    <2>1. outcome.data \in Asks(lu.call) BY <1>1, <1>3, FirstRequest
    <2> HIDE DEF new, outcome
    <2> QED BY <1>2, <1>3, <2>1 DEF Sourced, new, outcome
<1>4. CASE ~AsksOffchain(outcome) /\ outcome.ok
    <2>1. outcome = [ok |-> TRUE, data |-> outcome.data] BY <1>1, <1>4 DEF Outcome
    <2>2. Returned(new.call, new.data) BY <1>2, <2>1 DEF Returned
    <2> QED BY <1>2, <1>4, <2>2 DEF Sourced
<1>5. CASE ~AsksOffchain(outcome) /\ ~outcome.ok
    <2>1. new.flags \intersect AnyError # {} BY <1>2, <1>5 DEF AnyError
    <2> QED BY <1>2, <1>5, <2>1 DEF Sourced
<1> QED BY <1>3, <1>4, <1>5

\* So does one whose callback was called with an answer to such a request.
LEMMA CalledBackIsSourced ==
    ASSUME NEW lu \in Lookup, "DONE" \notin lu.flags, "OFFCHAIN" \in lu.flags,
           lu.flags \intersect AnyError = {}, lu.data \in Asks(lu.call),
           NEW v \in Responses
    PROVE  Sourced(CalledBack(lu, Callback[<<lu.data, v>>]))
<1> DEFINE outcome == Callback[<<lu.data, v>>]
           new == CalledBack(lu, outcome)
<1>1. lu.call \in Calls /\ lu.data \in Requests /\ outcome \in Outcome
    BY SessionAssumption DEF Lookup, Asks
<1>2. /\ new.call = lu.call /\ new.data = outcome.data
      /\ "DONE" \in new.flags <=> ~AsksOffchain(outcome)
      /\ "CALL_ERROR" \in new.flags <=>
            ~AsksOffchain(outcome) /\ (~outcome.ok \/ outcome.data = Empty)
    <2> HIDE DEF outcome
    <2> QED BY <1>1, CalledBackLookup
<1>3. CASE AsksOffchain(outcome)
    <2>1. outcome.data \in Asks(lu.call) BY <1>1, <1>3, NextRequest
    <2> QED BY <1>2, <1>3, <2>1 DEF Sourced
<1>4. CASE ~AsksOffchain(outcome) /\ outcome.ok
    <2>1. outcome = [ok |-> TRUE, data |-> outcome.data] BY <1>1, <1>4 DEF Outcome
    <2>2. Returned(new.call, new.data) BY <1>2, <2>1 DEF Returned
    <2> QED BY <1>2, <1>4, <2>2 DEF Sourced
<1>5. CASE ~AsksOffchain(outcome) /\ ~outcome.ok
    <2>1. new.flags \intersect AnyError # {} BY <1>2, <1>5 DEF AnyError
    <2> QED BY <1>2, <1>5, <2>1 DEF Sourced
<1> QED BY <1>3, <1>4, <1>5

\* Every step keeps values and requests with the resolvers they came from.
LEMMA NextKeepsValues == BatchInv /\ ValuesFollow /\ [Next]_vars => ValuesFollow'
<1> SUFFICES ASSUME BatchInv, ValuesFollow, [Next]_vars PROVE ValuesFollow' OBVIOUS
<1>1. CASE Start
    <2>1. ASSUME NEW i \in DOMAIN lookups' PROVE Sourced(lookups'[i])
        BY <1>1, StartEach, CalledIsSourced
    <2>2. phase' = "returned" => Unfinished(lookups') = {} BY <1>1 DEF Start, Proceed
    <2> QED BY <2>1, <2>2 DEF ValuesFollow
<1>2. CASE CallBack /\ CountsAgree(lookups, failures, responses)
    <2>1. phase # "start" BY <1>2 DEF CallBack
    <2>2. ASSUME NEW i \in DOMAIN lookups' PROVE Sourced(lookups'[i])
        <3>1. i \in DOMAIN lookups /\ Sourced(lookups[i])
            BY <1>2, <2>1, CallBackEach DEF ValuesFollow
        <3>2. CASE i \notin Unfinished(lookups)
            <4>1. lookups'[i] = lookups[i] BY <1>2, <3>1, <3>2, CallBackEach
            <4> QED BY <3>1, <4>1
        <3>3. CASE i \in Unfinished(lookups)
            <4> DEFINE lu == lookups[i]
                       v == responses[Count(lookups, i)]
            <4>1. /\ lu \in Lookup /\ "DONE" \notin lu.flags /\ "OFFCHAIN" \in lu.flags
                  /\ lu.flags \intersect AnyError = {}
                  /\ v \in Responses /\ v \in Bytes
                  /\ \/ lookups'[i] = Failed(lu, v)
                     \/ lookups'[i] = CalledBack(lu, Callback[<<lu.data, v>>])
                BY <1>2, <3>3, CallBackEach, BatcherAssumption
            <4>2. lu.data \in Asks(lu.call) BY <3>1, <4>1 DEF Sourced
            <4> HIDE DEF lu, v
            <4>3. CASE lookups'[i] = Failed(lu, v)
                <5>1. "DONE" \in lookups'[i].flags /\ "BATCH_ERROR" \in lookups'[i].flags
                    BY <4>1, <4>3, FailedLookup
                <5> QED BY <5>1 DEF Sourced, AnyError
            <4>4. CASE lookups'[i] = CalledBack(lu, Callback[<<lu.data, v>>])
                BY <4>1, <4>2, <4>4, CalledBackIsSourced
            <4> QED BY <4>1, <4>3, <4>4
        <3> QED BY <3>2, <3>3
    <2>3. phase' = "returned" => Unfinished(lookups') = {} BY <1>2 DEF CallBack, Proceed
    <2> QED BY <2>2, <2>3 DEF ValuesFollow
<1>3. CASE CallBack /\ ~CountsAgree(lookups, failures, responses)
    <2>1. phase # "start" /\ phase' = "reverted" /\ lookups' = lookups BY <1>3 DEF CallBack
    <2> QED BY <2>1 DEF ValuesFollow
<1>4. CASE GatewayAnswers \/ GatewayMiscounts \/ GatewayIsDown
    <2>1. phase # "start" /\ phase' # "returned" /\ lookups' = lookups
        BY <1>4 DEF GatewayAnswers, GatewayMiscounts, GatewayIsDown
    <2> QED BY <2>1 DEF ValuesFollow
<1>5. CASE UNCHANGED vars BY <1>5 DEF ValuesFollow, vars, Unfinished
<1> QED BY <1>1, <1>2, <1>3, <1>4, <1>5 DEF Next

(***************************************************************************)
(* No value in the array a batch returns was made up by a gateway: what is  *)
(* not padded as an error is what the lookup's own resolver returned, for   *)
(* an answer to one of its own requests (_toResponseArray), whatever the    *)
(* resolvers, the gateways and the length of the batch.                    *)
(***************************************************************************)
THEOREM ValuesAreNotForged == Spec => []NoForgedValue
<1>1. Init => ValuesFollow BY DEF Init, ValuesFollow
<1>2. ValuesFollow => NoForgedValue
    <2> SUFFICES ASSUME ValuesFollow, phase = "returned", NEW i \in DOMAIN lookups
                 PROVE  LET response == ToResponseArray(lookups)[i]
                        IN  response.data = Empty \/ response.padded
                            \/ Returned(lookups[i].call, response.data)
        BY DEF NoForgedValue
    <2>1. Sourced(lookups[i]) /\ "DONE" \in lookups[i].flags
        BY DEF ValuesFollow, Unfinished
    <2>2. /\ ToResponseArray(lookups)[i].data = lookups[i].data
          /\ ToResponseArray(lookups)[i].padded =
                (lookups[i].flags \intersect AnyError # {} /\ lookups[i].data # Empty)
        BY DEF ToResponseArray, ToResponse
    <2> QED BY <2>1, <2>2 DEF Sourced
<1> QED BY <1>1, <1>2, BatchInvariant, NextKeepsValues, PTL DEF Spec
==============================================================================

