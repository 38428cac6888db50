------------------------------- MODULE SetTlds -------------------------------
(***************************************************************************)
(* deploy/dnsregistrar/20_set_tlds.ts: the suffixes fetched from the       *)
(* public suffix list are shared out to concurrent workers, each of which  *)
(* asks the node about its suffix over a connection that is rate limited,  *)
(* and the calls they come back with are sent in batches.  Anybody may     *)
(* call enableNode in the meantime.  The script runs again with every      *)
(* deployment, for a DNSRegistrar that has been deployed again; Rollout    *)
(* has the script as one step.                                             *)
(*                                                                         *)
(* A suffix is its place in the list that was fetched.                     *)
(***************************************************************************)
EXTENDS Integers, FiniteSets

CONSTANTS
  N,              \* how many suffixes were fetched
  WellFormed,     \* those that match /^[a-z0-9]+$/
  OnList,         \* those that SimplePublicSuffixList was given
  Taken,          \* those that may belong to somebody else from the start
  Workers,        \* the concurrent calls of the mapping function
  MaxRetries,     \* how often a rate limited request is tried again
  BatchSize,      \* how many calls are sent together
  MaxGenerations  \* how many DNSRegistrars are deployed

Suffixes == 1..N

(* 05_deploy_public_suffix_list.ts adds well-formed suffixes only. *)
ASSUME TldsAssumption ==
  /\ N \in Nat /\ MaxRetries \in Nat /\ BatchSize \in Nat \ {0}
  /\ WellFormed \subseteq Suffixes /\ OnList \subseteq WellFormed
  /\ Workers # {}

VARIABLES
  generation,  \* which deployment of DNSRegistrar is the recorded one
  owner,       \* of a suffix's node: Nobody, Other, or a generation
  unsafe,      \* allowUnsafe of this network
  next,        \* the cursor the workers share
  item,        \* of a worker: its suffix
  step,        \* of a worker: idle, asking for the owner, for the list, returned
  attempt,     \* of a worker: the times its request was rate limited
  result,      \* of a suffix: unset, null or call
  sent,        \* up to which suffix the calls were sent
  phase,       \* map, send; ended, threw or interrupted
  broken       \* whether a run after the first did not end

vars == <<generation, owner, unsafe, next, item, step, attempt, result, sent, phase, broken>>
workers == <<item, step, attempt>>

Nobody == 0
Other  == -1

Running == phase \in {"map", "send"}
Asking(w) == step[w] \in {"owner", "list"}

(* DNSRegistrar.enableNode: a no-op on its own nodes, and a revert on      *)
(* those of anybody but the previous registrar.  The first registrar has   *)
(* nobody as its previous one.                                             *)
EnableAllowed(i) == i \in OnList /\ owner[i] \in {Nobody, generation - 1, generation}

-----------------------------------------------------------------------------
(* A run begins. *)

Init ==
  /\ generation = 1 /\ broken = FALSE
  /\ owner \in [Suffixes -> {Nobody, Other}] /\ \A i \in Suffixes \ Taken : owner[i] = Nobody
  /\ unsafe \in BOOLEAN
  /\ next = 0 /\ sent = 0 /\ phase = "map"
  /\ item = [w \in Workers |-> 0]
  /\ step = [w \in Workers |-> "idle"]
  /\ attempt = [w \in Workers |-> 0]
  /\ result = [i \in Suffixes |-> "unset"]

(* The pipeline again, with a DNSRegistrar whose previous one is the last. *)
Rerun ==
  /\ ~Running /\ generation < MaxGenerations
  /\ generation' = generation + 1
  /\ broken' = (broken \/ (phase # "ended" /\ generation > 1))
  /\ next' = 0 /\ sent' = 0 /\ phase' = "map"
  /\ item' = [w \in Workers |-> 0]
  /\ step' = [w \in Workers |-> "idle"]
  /\ attempt' = [w \in Workers |-> 0]
  /\ result' = [i \in Suffixes |-> "unset"]
  /\ UNCHANGED <<owner, unsafe>>

-----------------------------------------------------------------------------
(* mapWithConcurrency.  The code between two awaits is one step. *)

Cursor(i) == i

(* "const i = next++", and the function up to its first request. *)
Take(w) ==
  /\ phase = "map" /\ step[w] = "idle" /\ next < N
  /\ LET i == next + 1
     IN  \/ /\ i \in WellFormed /\ ~unsafe
            /\ item' = [item EXCEPT ![w] = i] /\ step' = [step EXCEPT ![w] = "owner"]
            /\ UNCHANGED result
         \/ /\ i \in WellFormed /\ unsafe
            /\ result' = [result EXCEPT ![i] = "call"]
            /\ UNCHANGED <<item, step>>
         \/ /\ i \notin WellFormed
            /\ result' = [result EXCEPT ![i] = "null"]
            /\ UNCHANGED <<item, step>>
  /\ next' = Cursor(next + 1)
  /\ UNCHANGED <<generation, owner, unsafe, attempt, sent, phase, broken>>

(* "if (i >= items.length) return" *)
Leave(w) ==
  /\ phase = "map" /\ step[w] = "idle" /\ next = N
  /\ step' = [step EXCEPT ![w] = "returned"]
  /\ UNCHANGED <<generation, owner, unsafe, next, item, attempt, result, sent, phase, broken>>

(* Plausible bug: a suffix with an owner is skipped, whoever it is. *)
Answer_AnyOwner(w) == owner[item[w]] # Nobody

(* The owner that was read says there is nothing to do. *)
Answer(w) == owner[item[w]] = generation

ReadOwner(w) ==
  /\ phase = "map" /\ step[w] = "owner"
  /\ IF Answer(w)
     THEN /\ result' = [result EXCEPT ![item[w]] = "null"]
          /\ step' = [step EXCEPT ![w] = "idle"]
     ELSE UNCHANGED result /\ step' = [step EXCEPT ![w] = "list"]
  /\ attempt' = [attempt EXCEPT ![w] = 0]
  /\ UNCHANGED <<generation, owner, unsafe, next, item, sent, phase, broken>>

ReadList(w) ==
  /\ phase = "map" /\ step[w] = "list"
  /\ result' = [result EXCEPT ![item[w]] = IF item[w] \in OnList THEN "call" ELSE "null"]
  /\ step' = [step EXCEPT ![w] = "idle"]
  /\ attempt' = [attempt EXCEPT ![w] = 0]
  /\ UNCHANGED <<generation, owner, unsafe, next, item, sent, phase, broken>>

(* Plausible bug: the count starts over when the delay has come to its cap. *)
NextAttempt_StartsOver(w) == [attempt EXCEPT ![w] = IF @ + 1 = MaxRetries THEN 0 ELSE @ + 1]

NextAttempt(w) == [attempt EXCEPT ![w] = @ + 1]

(* withRateLimitRetry: wait and ask again, so many times. *)
RateLimited(w) ==
  /\ phase = "map" /\ Asking(w)
  /\ IF attempt[w] < MaxRetries
     THEN attempt' = NextAttempt(w) /\ UNCHANGED phase
     ELSE phase' = "threw" /\ UNCHANGED attempt
  /\ UNCHANGED <<generation, owner, unsafe, next, item, step, result, sent, broken>>

(* Any other error is thrown, and Promise.all throws the first of them. *)
RequestFails(w) ==
  /\ phase = "map" /\ Asking(w)
  /\ phase' = "threw"
  /\ UNCHANGED <<generation, owner, unsafe, next, workers, result, sent, broken>>

Collect ==
  /\ phase = "map" /\ \A w \in Workers : step[w] = "returned"
  /\ phase' = "send"
  /\ UNCHANGED <<generation, owner, unsafe, next, workers, result, sent, broken>>

-----------------------------------------------------------------------------
(* The batches: aggregate of Multicall3 reverts as a whole. *)

(* Plausible bug: a slice that leaves out its last element. *)
Calls_Short(from, to) == {i \in Suffixes : from < i /\ i < to /\ result[i] = "call"}

Calls(from, to) == {i \in Suffixes : from < i /\ i <= to /\ result[i] = "call"}

(* The next BatchSize calls, or those that are left. *)
IsBatch(from, to) ==
  \/ to = N /\ Cardinality(Calls(from, to)) <= BatchSize
  \/ Cardinality(Calls(from, to)) = BatchSize

SendBatch ==
  /\ phase = "send"
  /\ \E to \in (sent + 1)..N :
       /\ IsBatch(sent, to)
       /\ IF \A i \in Calls(sent, to) : EnableAllowed(i)
          THEN /\ owner' = [i \in Suffixes |-> IF i \in Calls(sent, to) THEN generation ELSE owner[i]]
               /\ sent' = to /\ UNCHANGED phase
          ELSE phase' = "threw" /\ UNCHANGED <<owner, sent>>
  /\ UNCHANGED <<generation, unsafe, next, workers, result, broken>>

Finish ==
  /\ phase = "send" /\ sent = N
  /\ phase' = "ended"
  /\ UNCHANGED <<generation, owner, unsafe, next, workers, result, sent, broken>>

-----------------------------------------------------------------------------
(* The process dies. *)
Interrupt ==
  /\ Running
  /\ phase' = "interrupted"
  /\ UNCHANGED <<generation, owner, unsafe, next, workers, result, sent, broken>>

(* Anybody calls enableNode of the current registrar. *)
Enable(i) ==
  /\ EnableAllowed(i)
  /\ owner' = [owner EXCEPT ![i] = generation]
  /\ UNCHANGED <<generation, unsafe, next, workers, result, sent, phase, broken>>

Work ==
  \/ \E w \in Workers :
       \/ Take(w) \/ Leave(w) \/ ReadOwner(w) \/ ReadList(w) \/ RateLimited(w) \/ RequestFails(w)
  \/ Collect \/ SendBatch \/ Finish

Next == Work \/ Interrupt \/ Rerun \/ \E i \in Suffixes : Enable(i)

Spec == Init /\ [][Next]_vars

(* The event loop goes on with whatever promise is settled, and every      *)
(* request is settled by an answer, an error or its timeout.               *)
FairSpec == Spec /\ WF_vars(Work)

-----------------------------------------------------------------------------
(* Type correctness. *)
SetTldsTypeOK ==
  /\ generation \in Nat \ {0}
  /\ owner \in [Suffixes -> Int] /\ \A i \in Suffixes : owner[i] \in -1..generation
  /\ unsafe \in BOOLEAN /\ broken \in BOOLEAN
  /\ next \in 0..N /\ sent \in 0..N
  /\ item \in [Workers -> 0..N]
  /\ step \in [Workers -> {"idle", "owner", "list", "returned"}]
  /\ attempt \in [Workers -> Nat]
  /\ result \in [Suffixes -> {"unset", "null", "call"}]
  /\ phase \in {"map", "send", "ended", "threw", "interrupted"}

(* The cursor gives a suffix to one worker and to no second one, and what  *)
(* it has given is either answered or with a worker: no suffix is lost     *)
(* between the workers (mapWithConcurrency).                               *)
EachTakenOnce ==
  /\ \A w \in Workers : Asking(w) => item[w] \in 1..next /\ result[item[w]] = "unset"
  /\ \A v, w \in Workers : Asking(v) /\ Asking(w) /\ item[v] = item[w] => v = w
  /\ \A i \in 1..next : result[i] = "unset" => \E w \in Workers : Asking(w) /\ item[w] = i

(* When the script returns, every suffix of the list belongs to the        *)
(* current registrar, whatever anybody enabled between the time its owner  *)
(* was read and the time its batch was sent, and however often a request   *)
(* was tried.                                                              *)
FinishedIsEnabled ==
  phase = "ended" => \A i \in OnList : owner[i] = generation

(* A run that is not the first and does not end can leave a suffix with a  *)
(* registrar that the next one does not know, so that no later run ends;   *)
(* nothing else can: not the first run, however it is cut short.           *)
OrphanedByRerunsOnly ==
  ~broken => \A i \in Suffixes : owner[i] \in {Other, Nobody, generation - 1, generation}

(* A run comes to an end, by an error if need be. *)
RunEnds == Running ~> ~Running
=============================================================================
