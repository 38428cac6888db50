---------------------------- MODULE SetTldsProofs ----------------------------
(***************************************************************************)
(* SetTlds for any number of suffixes, workers, retries and reruns, and    *)
(* any size of a batch.                                                    *)
(***************************************************************************)
EXTENDS SetTlds, TLAPS

(* A worker returns when the cursor is at the end, and the calls are       *)
(* collected when all have returned.                                       *)
ReturnedAtEnd ==
  /\ \A w \in Workers : step[w] = "returned" => next = N
  /\ phase \in {"send", "ended"} => \A w \in Workers : step[w] = "returned"
  /\ \A i \in Suffixes : i > next => result[i] = "unset"

(* What a result says of the owner: it stays true while others enable.     *)
ResultsHold ==
  /\ \A i \in Suffixes : result[i] = "null" => i \notin OnList \/ owner[i] = generation
  /\ \A i \in Suffixes : result[i] = "call" /\ i <= sent => owner[i] = generation
  /\ phase = "ended" => sent = N

(* Only what is on the list is ever enabled. *)
OnlyListed == \A i \in Suffixes : i \notin OnList => owner[i] \in {Nobody, Other}

(* Nothing is sent before the calls are collected. *)
SentAfterMap == phase = "map" => sent = 0

Inv ==
  /\ SetTldsTypeOK /\ EachTakenOnce /\ ReturnedAtEnd /\ ResultsHold /\ OnlyListed
  /\ SentAfterMap /\ OrphanedByRerunsOnly

-----------------------------------------------------------------------------
(* When all workers have returned no suffix is left without a result: the  *)
(* promise of mapWithConcurrency.                                          *)
LEMMA AllAnswered ==
  ASSUME Inv, phase \in {"send", "ended"}
  PROVE  \A i \in Suffixes : result[i] # "unset"
<1>1. \A w \in Workers : step[w] = "returned"
  BY DEF Inv, ReturnedAtEnd
<1>2. next = N
  BY <1>1, TldsAssumption DEF Inv, ReturnedAtEnd
<1>3. \A w \in Workers : ~Asking(w)
  BY <1>1 DEF Asking
<1> QED
  BY <1>2, <1>3 DEF Inv, EachTakenOnce, Suffixes

(* So that what the run has ended with is the whole list. *)
LEMMA EndedMeansEnabled == Inv => FinishedIsEnabled
<1> SUFFICES ASSUME Inv, phase = "ended", NEW i \in OnList PROVE owner[i] = generation
  BY DEF FinishedIsEnabled
<1>1. i \in Suffixes /\ i <= N
  BY TldsAssumption DEF Suffixes
<1>2. result[i] # "unset"
  BY <1>1, AllAnswered
<1>3. result[i] \in {"null", "call"}
  BY <1>1, <1>2 DEF Inv, SetTldsTypeOK
<1> QED
  BY <1>1, <1>3 DEF Inv, ResultsHold

LEMMA InitInv == Init => Inv
<1> SUFFICES ASSUME Init PROVE Inv
  OBVIOUS
<1>1. \A i \in Suffixes : owner[i] \in {Nobody, Other}
  BY DEF Init
<1>2. owner \in [Suffixes -> Int] /\ \A i \in Suffixes : owner[i] \in -1..generation
  BY <1>1 DEF Init, Nobody, Other
<1>3. SetTldsTypeOK
  <2>1. item \in [Workers -> 0..N] /\ attempt \in [Workers -> Nat]
    BY TldsAssumption DEF Init
  <2>2. /\ step \in [Workers -> {"idle", "owner", "list", "returned"}]
        /\ result \in [Suffixes -> {"unset", "null", "call"}]
    BY DEF Init
  <2>3. generation \in Nat \ {0} /\ next \in 0..N /\ sent \in 0..N
    BY TldsAssumption DEF Init
  <2>4. unsafe \in BOOLEAN /\ broken \in BOOLEAN /\ phase = "map"
    BY DEF Init
  <2> QED
    BY <1>2, <2>1, <2>2, <2>3, <2>4 DEF SetTldsTypeOK
<1>4. EachTakenOnce
  BY TldsAssumption DEF EachTakenOnce, Asking, Init
<1>5. ReturnedAtEnd /\ ResultsHold
  BY TldsAssumption DEF ReturnedAtEnd, ResultsHold, Init
<1>6. OnlyListed /\ SentAfterMap /\ OrphanedByRerunsOnly
  BY <1>1 DEF OnlyListed, SentAfterMap, OrphanedByRerunsOnly, Init
<1> QED
  BY <1>3, <1>4, <1>5, <1>6 DEF Inv

-----------------------------------------------------------------------------
(* One lemma for each part of the invariant that the steps disturb. *)

LEMMA TypeStep == Inv /\ [Next]_vars => SetTldsTypeOK'
<1> SUFFICES ASSUME Inv, [Next]_vars PROVE SetTldsTypeOK'
  OBVIOUS
<1> USE TldsAssumption DEF Inv, SetTldsTypeOK, workers
<1>1. ASSUME NEW w \in Workers, Take(w) PROVE SetTldsTypeOK'
  <2>1. next + 1 \in 1..N /\ next + 1 \in Suffixes
    BY <1>1 DEF Take, Suffixes
  <2> QED
    BY <1>1, <2>1 DEF Take, Cursor
<1>2. ASSUME NEW w \in Workers, Leave(w) PROVE SetTldsTypeOK'
  BY <1>2 DEF Leave
<1>3. ASSUME NEW w \in Workers, ReadOwner(w) \/ ReadList(w) PROVE SetTldsTypeOK'
  BY <1>3 DEF ReadOwner, ReadList
<1>4. ASSUME NEW w \in Workers, RateLimited(w) PROVE SetTldsTypeOK'
  BY <1>4 DEF RateLimited, NextAttempt
<1>5. ASSUME NEW w \in Workers, RequestFails(w) PROVE SetTldsTypeOK'
  BY <1>5 DEF RequestFails
<1>6. CASE Collect \/ Finish \/ Interrupt
  BY <1>6 DEF Collect, Finish, Interrupt
<1>7. CASE SendBatch
  <2>1. PICK to \in (sent + 1)..N :
          \/ /\ owner' = [i \in Suffixes |-> IF i \in Calls(sent, to) THEN generation ELSE owner[i]]
             /\ sent' = to
          \/ UNCHANGED <<owner, sent>>
    BY <1>7 DEF SendBatch
  <2>2. owner' \in [Suffixes -> Int] /\ \A i \in Suffixes : owner'[i] \in -1..generation
    BY <2>1
  <2>3. sent' \in 0..N
    BY <2>1
  <2> QED
    BY <1>7, <2>2, <2>3 DEF SendBatch
<1>8. CASE Rerun
  <2>1. generation' \in Nat \ {0} /\ \A i \in Suffixes : owner'[i] \in -1..generation'
    BY <1>8 DEF Rerun
  <2> QED
    BY <1>8, <2>1 DEF Rerun
<1>9. ASSUME NEW i \in Suffixes, Enable(i) PROVE SetTldsTypeOK'
  <2>1. owner' \in [Suffixes -> Int] /\ \A j \in Suffixes : owner'[j] \in -1..generation
    BY <1>9 DEF Enable
  <2> QED
    BY <1>9, <2>1 DEF Enable
<1>10. CASE UNCHANGED vars
  BY <1>10 DEF vars
<1> QED
  BY <1>1, <1>2, <1>3, <1>4, <1>5, <1>6, <1>7, <1>8, <1>9, <1>10 DEF Next, Work

LEMMA TakenStep == Inv /\ [Next]_vars => EachTakenOnce'
<1> SUFFICES ASSUME Inv, [Next]_vars PROVE EachTakenOnce'
  OBVIOUS
<1> USE TldsAssumption DEF Inv, SetTldsTypeOK, EachTakenOnce, Asking, workers
<1>1. ASSUME NEW w \in Workers, Take(w) PROVE EachTakenOnce'
  <2> DEFINE i == next + 1
  <2>1. i \in 1..N /\ i \in Suffixes /\ next' = i /\ ~Asking(w) /\ result[i] = "unset"
    BY <1>1 DEF Take, Cursor, Suffixes, ReturnedAtEnd
  <2>2. \A v \in Workers : Asking(v) => item[v] # i
    BY <2>1
  <2>3. CASE i \in WellFormed /\ ~unsafe
    <3>1. /\ item' = [item EXCEPT ![w] = i] /\ step' = [step EXCEPT ![w] = "owner"]
          /\ result' = result
      BY <1>1, <2>3 DEF Take
    <3>2. \A v \in Workers : Asking(v)' => item'[v] \in 1..next' /\ result'[item'[v]] = "unset"
      BY <2>1, <3>1
    <3>3. \A u, v \in Workers : Asking(u)' /\ Asking(v)' /\ item'[u] = item'[v] => u = v
      BY <2>2, <3>1
    <3>4. \A j \in 1..next' : result'[j] = "unset" => \E v \in Workers : Asking(v)' /\ item'[v] = j
      BY <2>1, <3>1
    <3> QED
      BY <3>2, <3>3, <3>4
  <2>4. CASE ~(i \in WellFormed /\ ~unsafe)
    <3>1. /\ UNCHANGED <<item, step>>
          /\ result' = [result EXCEPT ![i] = "call"] \/ result' = [result EXCEPT ![i] = "null"]
      BY <1>1, <2>4 DEF Take
    <3>2. result'[i] # "unset" /\ \A j \in Suffixes : j # i => result'[j] = result[j]
      BY <2>1, <3>1
    <3>3. \A v \in Workers : Asking(v)' => item'[v] \in 1..next' /\ result'[item'[v]] = "unset"
      <4> SUFFICES ASSUME NEW v \in Workers, Asking(v)'
                   PROVE  item'[v] \in 1..next' /\ result'[item'[v]] = "unset"
        OBVIOUS
      <4>1. Asking(v) /\ item'[v] = item[v]
        BY <3>1
      <4>2. item[v] \in 1..next /\ result[item[v]] = "unset" /\ item[v] # i
        BY <2>2, <4>1
      <4> QED
        BY <2>1, <3>2, <4>1, <4>2 DEF Suffixes
    <3>4. \A j \in 1..next' : result'[j] = "unset" => \E v \in Workers : Asking(v)' /\ item'[v] = j
      <4> SUFFICES ASSUME NEW j \in 1..next', result'[j] = "unset"
                   PROVE  \E v \in Workers : Asking(v)' /\ item'[v] = j
        OBVIOUS
      <4>1. j \in 1..(next + 1)
        BY <2>1
      <4>2. j \in Suffixes /\ j # i
        BY <2>1, <3>2, <4>1 DEF Suffixes
      <4>3. j \in 1..next /\ result[j] = "unset"
        BY <3>2, <4>1, <4>2
      <4> QED
        BY <3>1, <4>3
    <3> QED
      BY <3>1, <3>3, <3>4
  <2> QED
    BY <2>3, <2>4
<1>2. ASSUME NEW w \in Workers, Leave(w) PROVE EachTakenOnce'
  BY <1>2 DEF Leave
<1>3. ASSUME NEW w \in Workers, ReadOwner(w) \/ ReadList(w) PROVE EachTakenOnce'
  <2>1. CASE step'[w] = "list"
    BY <1>3, <2>1 DEF ReadOwner, ReadList
  <2>2. CASE step'[w] # "list"
    <3>1. /\ step' = [step EXCEPT ![w] = "idle"] /\ UNCHANGED <<item, next>>
          /\ \E r \in {"null", "call"} : result' = [result EXCEPT ![item[w]] = r]
      BY <1>3, <2>2 DEF ReadOwner, ReadList
    <3>2. item[w] \in Suffixes /\ \A v \in Workers : Asking(v)' => v # w /\ Asking(v) /\ item[v] # item[w]
      BY <1>3, <3>1 DEF ReadOwner, ReadList, Suffixes
    <3>3. \A v \in Workers : Asking(v)' => item'[v] \in 1..next' /\ result'[item'[v]] = "unset"
      BY <3>1, <3>2
    <3>4. \A j \in 1..next' : result'[j] = "unset" => \E v \in Workers : Asking(v)' /\ item'[v] = j
      BY <3>1, <3>2 DEF Suffixes
    <3> QED
      BY <3>1, <3>2, <3>3, <3>4
  <2> QED
    BY <2>1, <2>2
<1>4. ASSUME NEW w \in Workers, RateLimited(w) \/ RequestFails(w) PROVE EachTakenOnce'
  BY <1>4 DEF RateLimited, RequestFails
<1>5. CASE Collect \/ SendBatch \/ Finish \/ Interrupt
  BY <1>5 DEF Collect, SendBatch, Finish, Interrupt
<1>6. CASE Rerun
  BY <1>6 DEF Rerun
<1>7. ASSUME NEW i \in Suffixes, Enable(i) PROVE EachTakenOnce'
  BY <1>7 DEF Enable
<1>8. CASE UNCHANGED vars
  BY <1>8 DEF vars
<1> QED
  BY <1>1, <1>2, <1>3, <1>4, <1>5, <1>6, <1>7, <1>8 DEF Next, Work

LEMMA ReturnedStep == Inv /\ [Next]_vars => ReturnedAtEnd'
<1> SUFFICES ASSUME Inv, [Next]_vars PROVE ReturnedAtEnd'
  OBVIOUS
<1> USE TldsAssumption DEF Inv, SetTldsTypeOK, ReturnedAtEnd, Asking, workers
<1>1. ASSUME NEW w \in Workers, Take(w) PROVE ReturnedAtEnd'
  <2>1. next + 1 \in Suffixes /\ next' = next + 1
    BY <1>1 DEF Take, Cursor, Suffixes
  <2>2. \A v \in Workers : step[v] # "returned" /\ step'[v] # "returned"
    BY <1>1 DEF Take
  <2>3. \A j \in Suffixes : j # next + 1 => result'[j] = result[j]
    BY <1>1, <2>1 DEF Take
  <2>4. \A j \in Suffixes : j > next' => result'[j] = "unset"
    BY <2>1, <2>3 DEF Suffixes
  <2> QED
    BY <1>1, <2>2, <2>4 DEF Take
<1>2. ASSUME NEW w \in Workers, Leave(w) PROVE ReturnedAtEnd'
  BY <1>2 DEF Leave
<1>3. ASSUME NEW w \in Workers, ReadOwner(w) \/ ReadList(w) PROVE ReturnedAtEnd'
  <2>1. item[w] \in 1..next /\ next' = next /\ phase' = "map"
    BY <1>3 DEF ReadOwner, ReadList, EachTakenOnce
  <2>2. \A j \in Suffixes : j # item[w] => result'[j] = result[j]
    BY <1>3 DEF ReadOwner, ReadList
  <2>3. \A v \in Workers : step'[v] = "returned" => step[v] = "returned"
    BY <1>3 DEF ReadOwner, ReadList
  <2>4. \A j \in Suffixes : j > next' => result'[j] = "unset"
    BY <2>1, <2>2 DEF Suffixes
  <2> QED
    BY <2>1, <2>3, <2>4
<1>4. ASSUME NEW w \in Workers, RateLimited(w) \/ RequestFails(w) PROVE ReturnedAtEnd'
  BY <1>4 DEF RateLimited, RequestFails
<1>5. CASE Collect \/ SendBatch \/ Finish \/ Interrupt
  BY <1>5 DEF Collect, SendBatch, Finish, Interrupt
<1>6. CASE Rerun
  BY <1>6 DEF Rerun
<1>7. ASSUME NEW i \in Suffixes, Enable(i) PROVE ReturnedAtEnd'
  BY <1>7 DEF Enable
<1>8. CASE UNCHANGED vars
  BY <1>8 DEF vars
<1> QED
  BY <1>1, <1>2, <1>3, <1>4, <1>5, <1>6, <1>7, <1>8 DEF Next, Work

(* A suffix changes hands in two ways only, and to the current registrar. *)
LEMMA OwnerStep ==
  ASSUME Inv, [Next]_vars, NEW i \in Suffixes
  PROVE  owner'[i] = owner[i] \/ (EnableAllowed(i) /\ owner'[i] = generation /\ generation' = generation)
<1> USE DEF Inv, SetTldsTypeOK, workers
<1>1. CASE SendBatch
  <2>1. PICK to \in (sent + 1)..N :
          \/ /\ \A j \in Calls(sent, to) : EnableAllowed(j)
             /\ owner' = [j \in Suffixes |-> IF j \in Calls(sent, to) THEN generation ELSE owner[j]]
          \/ UNCHANGED owner
    BY <1>1 DEF SendBatch
  <2>2. generation' = generation
    BY <1>1 DEF SendBatch
  <2> QED
    BY <2>1, <2>2
<1>2. ASSUME NEW j \in Suffixes, Enable(j)
      PROVE  owner'[i] = owner[i] \/ (EnableAllowed(i) /\ owner'[i] = generation /\ generation' = generation)
  BY <1>2 DEF Enable
<1>3. CASE \E w \in Workers : \/ Take(w) \/ Leave(w) \/ ReadOwner(w) \/ ReadList(w)
                              \/ RateLimited(w) \/ RequestFails(w)
  BY <1>3 DEF Take, Leave, ReadOwner, ReadList, RateLimited, RequestFails
<1>4. CASE Collect \/ Finish \/ Interrupt \/ Rerun
  BY <1>4 DEF Collect, Finish, Interrupt, Rerun
<1>5. CASE UNCHANGED vars
  BY <1>5 DEF vars
<1> QED
  BY <1>1, <1>2, <1>3, <1>4, <1>5 DEF Next, Work

LEMMA ListedStep == Inv /\ [Next]_vars => OnlyListed'
<1> SUFFICES ASSUME Inv, [Next]_vars, NEW i \in Suffixes, i \notin OnList
             PROVE  owner'[i] \in {Nobody, Other}
  BY DEF OnlyListed
<1> QED
  BY OwnerStep DEF Inv, OnlyListed, EnableAllowed

LEMMA SentStep == Inv /\ [Next]_vars => SentAfterMap'
  BY DEF Inv, SentAfterMap, Next, Work, vars, workers, Take, Leave, ReadOwner, ReadList, RateLimited,
     RequestFails, Collect, SendBatch, Finish, Interrupt, Rerun, Enable

(* What a result says stays true: the owner it was read from changes only *)
(* to the current registrar, and a batch that is sent makes it so.        *)
LEMMA ResultsStep == Inv /\ [Next]_vars => ResultsHold'
<1> SUFFICES ASSUME Inv, [Next]_vars PROVE ResultsHold'
  OBVIOUS
<1> USE TldsAssumption DEF Inv, SetTldsTypeOK, ResultsHold, workers
<1>a. ASSUME UNCHANGED <<generation, result, sent>>, phase' = "ended" => sent' = N
      PROVE  ResultsHold'
  BY <1>a, OwnerStep
<1>b. ASSUME NEW k \in Suffixes, NEW r \in {"null", "call"}, result' = [result EXCEPT ![k] = r],
             UNCHANGED <<generation, owner, sent>>, sent = 0, phase' # "ended",
             r = "null" => k \notin OnList \/ owner[k] = generation
      PROVE  ResultsHold'
  <2>1. result'[k] = r /\ k > 0 /\ \A i \in Suffixes : i # k => result'[i] = result[i]
    BY <1>b DEF Suffixes
  <2>2. \A i \in Suffixes : result'[i] = "null" => i \notin OnList \/ owner[i] = generation
    BY <1>b, <2>1
  <2>3. \A i \in Suffixes : result'[i] = "call" => ~(i <= sent) \/ owner[i] = generation
    BY <1>b, <2>1 DEF Suffixes
  <2> QED
    BY <1>b, <2>2, <2>3
<1>1. ASSUME NEW w \in Workers, Take(w) PROVE ResultsHold'
  <2>1. next + 1 \in Suffixes
    BY <1>1 DEF Take, Suffixes
  <2>2. UNCHANGED <<generation, owner, sent, phase>> /\ phase = "map" /\ sent = 0
    BY <1>1 DEF SentAfterMap, Take
  <2>3. CASE result' = result
    BY <1>a, <2>2, <2>3
  <2>4. CASE result' = [result EXCEPT ![next + 1] = "call"]
    BY <1>b, <2>1, <2>2, <2>4
  <2>5. CASE result' = [result EXCEPT ![next + 1] = "null"] /\ next + 1 \notin OnList
    BY <1>b, <2>1, <2>2, <2>5
  <2> QED
    BY <1>1, <2>3, <2>4, <2>5 DEF Take
<1>2. ASSUME NEW w \in Workers, Leave(w) \/ RateLimited(w) \/ RequestFails(w) PROVE ResultsHold'
  <2>1. UNCHANGED <<generation, result, sent>> /\ phase' # "ended"
    BY <1>2 DEF Leave, RateLimited, RequestFails
  <2> QED
    BY <1>a, <2>1
<1>3. ASSUME NEW w \in Workers, ReadOwner(w) PROVE ResultsHold'
  <2>1. item[w] \in Suffixes
    BY <1>3 DEF ReadOwner, EachTakenOnce, Asking, Suffixes
  <2>2. UNCHANGED <<generation, owner, sent, phase>> /\ phase = "map"
    BY <1>3 DEF ReadOwner
  <2>3. \A i \in Suffixes :
          result'[i] # result[i] => result'[i] = "null" /\ owner[i] = generation
    BY <1>3, <2>1 DEF ReadOwner, Answer
  <2> QED
    BY <2>2, <2>3
<1>4. ASSUME NEW w \in Workers, ReadList(w) PROVE ResultsHold'
  <2>1. item[w] \in Suffixes
    BY <1>4 DEF ReadList, EachTakenOnce, Asking, Suffixes
  <2>2. UNCHANGED <<generation, owner, sent, phase>> /\ phase = "map" /\ sent = 0
    BY <1>4 DEF SentAfterMap, ReadList
  <2>3. CASE item[w] \in OnList
    <3>1. result' = [result EXCEPT ![item[w]] = "call"]
      BY <1>4, <2>3 DEF ReadList
    <3> QED
      BY <1>b, <2>1, <2>2, <3>1
  <2>4. CASE item[w] \notin OnList
    <3>1. result' = [result EXCEPT ![item[w]] = "null"]
      BY <1>4, <2>4 DEF ReadList
    <3> QED
      BY <1>b, <2>1, <2>2, <2>4, <3>1
  <2> QED
    BY <2>3, <2>4
<1>5. CASE Collect \/ Finish \/ Interrupt
  <2>1. UNCHANGED <<generation, result, sent>> /\ (phase' = "ended" => sent' = N)
    BY <1>5 DEF Collect, Finish, Interrupt
  <2> QED
    BY <1>a, <2>1
<1>6. CASE SendBatch
  <2>1. UNCHANGED <<generation, result>> /\ phase' # "ended"
    BY <1>6 DEF SendBatch
  <2>2. PICK to \in (sent + 1)..N :
          \/ /\ owner' = [i \in Suffixes |-> IF i \in Calls(sent, to) THEN generation ELSE owner[i]]
             /\ sent' = to
          \/ UNCHANGED <<owner, sent>>
    BY <1>6 DEF SendBatch
  <2>3. \A i \in Suffixes : result[i] = "call" /\ i <= sent' => owner'[i] = generation
    BY <2>2 DEF Calls, Suffixes
  <2> QED
    BY <2>1, <2>3, OwnerStep
<1>7. CASE Rerun
  BY <1>7 DEF Rerun
<1>8. ASSUME NEW i \in Suffixes, Enable(i) PROVE ResultsHold'
  <2>1. UNCHANGED <<generation, result, sent, phase>>
    BY <1>8 DEF Enable
  <2> QED
    BY <1>a, <2>1
<1>9. CASE UNCHANGED vars
  BY <1>9 DEF vars
<1> QED
  BY <1>1, <1>2, <1>3, <1>4, <1>5, <1>6, <1>7, <1>8, <1>9 DEF Next, Work

(* A run after one that ended knows the registrar of every suffix.         *)
LEMMA OrphanedStep == Inv /\ [Next]_vars => OrphanedByRerunsOnly'
<1> SUFFICES ASSUME Inv, [Next]_vars, ~broken', NEW i \in Suffixes
             PROVE  owner'[i] \in {Other, Nobody, generation' - 1, generation'}
  BY DEF OrphanedByRerunsOnly
<1>1. CASE Rerun
  <2>1. ~broken /\ UNCHANGED owner /\ generation' = generation + 1
    BY <1>1 DEF Rerun
  <2>2. CASE i \notin OnList
    BY <2>1, <2>2 DEF Inv, OnlyListed
  <2>3. CASE phase = "ended" /\ i \in OnList
    BY <2>1, <2>3, EndedMeansEnabled DEF FinishedIsEnabled, Inv, SetTldsTypeOK
  <2>4. CASE generation = 1
    <3>1. owner[i] \in -1..1 /\ generation' - 1 = 1
      BY <2>1, <2>4 DEF Inv, SetTldsTypeOK
    <3> QED
      BY <2>1, <3>1 DEF Other, Nobody
  <2>5. phase = "ended" \/ ~(generation > 1)
    BY <1>1 DEF Rerun
  <2> QED
    BY <2>2, <2>3, <2>4, <2>5 DEF Inv, SetTldsTypeOK
<1>2. CASE ~Rerun
  <2>1. ~broken /\ generation' = generation
    BY <1>2 DEF Next, Work, vars, workers, Take, Leave, ReadOwner, ReadList, RateLimited,
       RequestFails, Collect, SendBatch, Finish, Interrupt, Enable
  <2> QED
    BY <2>1, OwnerStep DEF Inv, OrphanedByRerunsOnly
<1> QED
  BY <1>1, <1>2

-----------------------------------------------------------------------------
LEMMA InductiveInv == Spec => []Inv
<1>1. Inv /\ [Next]_vars => Inv'
  BY TypeStep, TakenStep, ReturnedStep, ResultsStep, ListedStep, SentStep, OrphanedStep DEF Inv
<1> QED
  BY InitInv, <1>1, PTL DEF Spec

(* The variables of the script have their types in every run.              *)
THEOREM SetTldsTypes == Spec => []SetTldsTypeOK
<1>1. Inv => SetTldsTypeOK
  BY DEF Inv
<1> QED
  BY <1>1, InductiveInv, PTL

(* mapWithConcurrency hands every suffix to one worker, loses none and     *)
(* gives none twice, for any number of workers and of suffixes.            *)
THEOREM NothingTakenTwice == Spec => []EachTakenOnce
<1>1. Inv => EachTakenOnce
  BY DEF Inv
<1> QED
  BY <1>1, InductiveInv, PTL

(* 20_set_tlds.ts returns with the whole list enabled, for any list, any   *)
(* batch size and any calls of enableNode by others.                       *)
THEOREM FinishedRunsEnable == Spec => []FinishedIsEnabled
<1> QED
  BY EndedMeansEnabled, InductiveInv, PTL

(* Only a rerun of 20_set_tlds.ts that was cut short leaves a suffix with  *)
(* a registrar that the next DNSRegistrar does not take over from.         *)
THEOREM OnlyRerunsOrphan == Spec => []OrphanedByRerunsOnly
<1>1. Inv => OrphanedByRerunsOnly
  BY DEF Inv
<1> QED
  BY <1>1, InductiveInv, PTL
=============================================================================
