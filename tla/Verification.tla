------------------------------ MODULE Verification ------------------------------
(***************************************************************************)
(* scripts/verify-deployment.ts with its writing phases: a registrant buys  *)
(* and renews a name of the live system and the owner doubles the oracle    *)
(* and puts it back, while everybody else goes on trading.  Each            *)
(* transaction and each reading that is used later is a step of the script; *)
(* a transaction that reverts throws, and the process may be killed between *)
(* any two.  The reading of the wiring (phase 1) is in SharedScripts.      *)
(*                                                                         *)
(* Left out: setAddr and the attempt to register twice, which nobody else   *)
(* can make come out differently, and gas.                                 *)
(***************************************************************************)
EXTENDS Market

CONSTANTS
    TESTER,         \* the registrant, the deployer's account unless TEST_KEY is set
    Labels,         \* verify<time>: the fresh name of the first, the second, ... run
    RESOLVER,       \* the PublicResolver
    NoName,         \* the empty reverse record
    OwnName         \* what the registrant had set as its own name

VARIABLES
    run,            \* the script's counter and local variables
    primary         \* the registrant's reverse record

verificationVars == <<run, primary>>

Request(id) ==
    [id |-> id, owner |-> TESTER, duration |-> MIN_REGISTRATION_DURATION,
     resolver |-> RESOLVER, data |-> FALSE]

VerificationAssumption ==
    /\ TESTER \in Senders
    /\ Labels \in Seq(Names)
    /\ \A i, j \in DOMAIN Labels : Labels[i] = Labels[j] => i = j
    /\ RESOLVER \in Resolvers \ {NoAddr}
    /\ \A i \in DOMAIN Labels : Request(Labels[i]) \in Registrations
    \* A label is the millisecond the run began: nobody else asks for it.
    /\ \A i \in DOMAIN Labels, r \in Registrations : r.id = Labels[i] => r = Request(Labels[i])
    /\ OWNER # CONTROLLER
ASSUME VerificationAssumption

\* `failed': some check has; `disturbed': others came between a reading, or a
\* transaction, and the check that relies on it (Disturbs).
Process(pc, count) ==
    [pc |-> pc, count |-> count, failed |-> FALSE, disturbed |-> FALSE,
     total |-> 0, balance |-> 0, expiry |-> 0, before |-> 0, base |-> 0]

VerificationInit ==
    /\ primary \in {NoName, OwnName}
    /\ run = Process("idle", 0)

label == Labels[run.count]

\* pc of a run that is over: it went through, threw, or was killed.
Running == run.pc \notin {"idle", "ended", "threw", "killed"}

Goto(pc) == run' = [run EXCEPT !.pc = pc]

Check(ok, pc) == run' = [run EXCEPT !.pc = pc, !.failed = @ \/ ~ok]

chainVars == <<marketStateVars, primary>>

(***************************************************************************)
(* Phase 2: a registration round trip                                      *)
(***************************************************************************)
\* The label comes from the clock: no run uses another's.
Start ==
    /\ ~Running /\ run.count < Len(Labels)
    /\ now + MinCommitmentAge <= MaxTime
    /\ LET id == Labels[run.count + 1]
       IN  /\ Commit(Request(id))
           /\ run' = [Process("price", run.count + 1) EXCEPT !.failed = ~Available(id)]
    /\ UNCHANGED <<marketVars, primary>>

\* After a sleep of the minimum age.
ReadPrice ==
    /\ run.pc = "price"
    /\ commitments[Request(label)] = 0
       \/ now >= commitments[Request(label)] + MinCommitmentAge
    /\ LET price == PriceOf(label, MIN_REGISTRATION_DURATION)
       IN  run' = [run EXCEPT !.pc = "register", !.total = price.base + price.premium,
                              !.balance = balances[TESTER]]
    /\ UNCHANGED chainVars

WithMargin == (run.total * 102) \div 100

\* The registration sets the reverse record too (reverseRecord: 1).
RegisterLabel ==
    /\ run.pc = "register"
    /\ Buy(TESTER, Request(label), WithMargin)
    /\ primary' = label
    /\ Goto("registered")

CheckRegistered ==
    /\ run.pc = "registered"
    /\ Check(/\ Owner(label) = TESTER
             /\ Unexpired(label) /\ tokenOwner[label] = TESTER
             /\ records[label].resolver = RESOLVER
             /\ ~Available(label)
             /\ run.balance - balances[TESTER] < WithMargin, "clear")
    /\ UNCHANGED chainVars

ClearReverse ==
    /\ run.pc = "clear"
    /\ Check(primary = label, "expiry")
    /\ primary' = NoName
    /\ UNCHANGED marketStateVars

ReadExpiry ==
    /\ run.pc = "expiry"
    /\ run' = [run EXCEPT !.pc = "renew", !.expiry = expiries[label]]
    /\ UNCHANGED chainVars

RenewLabel ==
    /\ run.pc = "renew"
    /\ PaidRenew(TESTER, label, MIN_REGISTRATION_DURATION, WithMargin)
    /\ Goto("renewed")
    /\ UNCHANGED primary

CheckRenewed ==
    /\ run.pc = "renewed"
    /\ Check(expiries[label] - run.expiry = MIN_REGISTRATION_DURATION, "drill")
    /\ UNCHANGED chainVars

(***************************************************************************)
(* Phase 3: drills of the owner                                            *)
(***************************************************************************)
ReadOracle ==
    /\ run.pc = "drill"
    /\ run' = [run EXCEPT !.pc = "double", !.before = answer,
                          !.base = PriceOf(label, MIN_REGISTRATION_DURATION).base]
    /\ UNCHANGED chainVars

DoubleAnswer ==
    /\ run.pc = "double"
    /\ SetAnswer(2 * run.before)
    /\ Goto("halved")
    /\ UNCHANGED primary

CheckHalved ==
    /\ run.pc = "halved"
    /\ LET base == PriceOf(label, MIN_REGISTRATION_DURATION).base
       IN  Check(base > (run.base * 49) \div 100 /\ base < (run.base * 51) \div 100, "restore")
    /\ UNCHANGED chainVars

\* Slip: what the oracle says by now is put back.
RestoreAnswer_Current ==
    /\ run.pc = "restore"
    /\ SetAnswer(answer)
    /\ Goto("restored")
    /\ UNCHANGED primary

RestoreAnswer ==
    /\ run.pc = "restore"
    /\ SetAnswer(run.before)
    /\ Goto("restored")
    /\ UNCHANGED primary

\* Slip: tries again until it is seen restored.
CheckRestored_Retries ==
    /\ run.pc = "restored"
    /\ Check(TRUE, IF answer # run.before THEN "restore"
                   ELSE IF balances[CONTROLLER] > 0 THEN "withdraw" ELSE "ended")
    /\ UNCHANGED chainVars

CheckRestored ==
    /\ run.pc = "restored"
    /\ Check(answer = run.before, IF balances[CONTROLLER] > 0 THEN "withdraw" ELSE "ended")
    /\ UNCHANGED chainVars

WithdrawFees ==
    /\ run.pc = "withdraw"
    /\ Withdraw(CONTROLLER)
    /\ Goto("withdrawn")
    /\ UNCHANGED primary

CheckWithdrawn ==
    /\ run.pc = "withdrawn"
    /\ Check(balances[CONTROLLER] = 0, "ended")
    /\ UNCHANGED chainVars

(***************************************************************************)
(* What can go wrong                                                       *)
(***************************************************************************)
\* A transaction that reverts: the sale is too late or too dear, or done already.
Throw ==
    /\ \/ run.pc = "register" /\ ~ENABLED Buy(TESTER, Request(label), WithMargin)
       \/ run.pc = "renew"
          /\ ~ENABLED PaidRenew(TESTER, label, MIN_REGISTRATION_DURATION, WithMargin)
    /\ run' = Process("threw", run.count)
    /\ UNCHANGED chainVars

Killed ==
    /\ Running
    /\ run' = Process("killed", run.count)
    /\ UNCHANGED chainVars

\* The acts that can make a check come out differently: the label is renewed between
\* the two readings of its expiry; the owner moves the oracle between the quote and
\* the sale, or between a setting of the drill and its check; or the controller is
\* paid between the withdrawal and its check.
Disturbs ==
    \/ run.pc \in {"renew", "renewed"} /\ expiries'[label] # expiries[label]
    \/ run.pc \in {"register", "halved", "restored"} /\ answer' # answer
    \/ run.pc = "withdrawn" /\ balances'[CONTROLLER] # balances[CONTROLLER]

\* Anybody else, the owner by hand included; time is nobody's doing.
Others ==
    /\ \/ \E sender \in Senders \ {TESTER}, value \in Values :
            \/ \E r \in Registrations : Buy(sender, r, value)
            \/ \E id \in Names, duration \in Durations : PaidRenew(sender, id, duration, value)
       \/ \E r \in Registrations \ {Request(Labels[i]) : i \in DOMAIN Labels} :
            Commit(r) /\ UNCHANGED marketVars
       \/ \E value \in Answers : SetAnswer(value)
       \/ Withdraw(CONTROLLER)
    /\ run' = [run EXCEPT !.disturbed = @ \/ Disturbs]
    /\ UNCHANGED primary

TimePasses ==
    /\ Tick
    /\ UNCHANGED <<controllerVars, marketVars, verificationVars>>

ScriptStep ==
    \/ ReadPrice \/ RegisterLabel \/ CheckRegistered \/ ClearReverse
    \/ ReadExpiry \/ RenewLabel \/ CheckRenewed
    \/ ReadOracle \/ DoubleAnswer \/ CheckHalved \/ RestoreAnswer \/ CheckRestored
    \/ WithdrawFees \/ CheckWithdrawn
    \/ Throw

VerificationNext == Start \/ ScriptStep \/ Killed \/ Others \/ TimePasses

verificationStateVars == <<marketStateVars, verificationVars>>

VerificationSpec ==
    MarketStart /\ VerificationInit /\ [][VerificationNext]_verificationStateVars

\* Nodes answer, and blocks come.
VerificationFairSpec ==
    /\ VerificationSpec
    /\ WF_verificationStateVars(ScriptStep)
    /\ WF_verificationStateVars(TimePasses)

(***************************************************************************)
(* Properties                                                              *)
(***************************************************************************)
\* No false alarm: a check fails only if somebody else renewed the label between the
\* two readings of its expiry, moved the oracle between the quote and the sale or
\* between a setting of the drill and its check, or paid the controller between the
\* withdrawal and its check.  Whatever others do otherwise, the same acts at any other
\* moment included, no check fails - also when an earlier run was cut and left the
\* oracle doubled, or a name half bought (verifyDeployment).
ChecksHold == run.failed => run.disturbed

\* The oracle drill is undone: once it is over, and until the next begins, the
\* oracle says what an owner made it say, whatever others do meanwhile - unless the
\* drill found it doubled by a run that was cut (verifyDeployment, phase 3).
DrillIsUndone ==
    /\ run.pc \in {"restored", "withdraw", "withdrawn", "ended"}
    /\ run.before \in Answers
    => answer \in Answers

\* A run comes to its end, or throws, or is killed: no check waits for what others
\* can keep from happening (verifyDeployment).
RunEnds == Running ~> ~Running
================================================================================
