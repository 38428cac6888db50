--------------------------------- MODULE Market ---------------------------------
(***************************************************************************)
(* Who pays what.  ETHRegistrarController.sol sells and renews at the       *)
(* oracle's price; StaticBulkRenewal.sol renews many names through it, and  *)
(* UniversalRegistrarRenewalWithReferrer.sol through the name wrapper, which *)
(* is a controller of the registrar.  Payments are native: a call carries a *)
(* value, of which the rest is sent back.                                  *)
(*                                                                         *)
(* Requests with records are not bought here, and names are not wrapped:    *)
(* the callbacks of resolvers are in ETHRegistrarController, with what      *)
(* accounts do with tokens and records for free, renewals of wrapped names  *)
(* in NameWrapper.                                                         *)
(***************************************************************************)
EXTENDS ETHRegistrarController, PriceOracle, FiniteSetsExt

CONSTANTS
    STATIC_RENEWAL, UNIVERSAL_RENEWAL,  \* the addresses of the two
    WRAPPER,                \* the NameWrapper, which the second renews through
    OWNER,                  \* owns the controller, the second and the USD oracle
    Answers,                \* what the owner sets the USD oracle to
    Values,                 \* what callers send along
    RenewalBatches,         \* the lists of names renewed together
    Purse                   \* what each account starts with

VARIABLES answer, balances

marketVars == <<answer, balances>>

MarketAssumption ==
    /\ {STATIC_RENEWAL, UNIVERSAL_RENEWAL, CONTROLLER, OWNER} \subseteq Addresses \ Senders
    /\ WRAPPER \in InitialControllers
    /\ RentPrices \in [Names -> Nat]
    /\ ORACLE_GRACE_PERIOD = GRACE_PERIOD
    /\ InitialPremium \in Nat /\ PremiumDecreaseRate \in Nat \ {0}
    /\ Answers \subseteq Nat \ {0} /\ Answers # {} /\ AnswerUnit \in Nat \ {0}
    /\ Values \subseteq Nat /\ Purse \in Nat
    /\ RenewalBatches \subseteq Seq(Names)
ASSUME MarketAssumption

Payers == Senders \union {CONTROLLER, STATIC_RENEWAL, UNIVERSAL_RENEWAL, OWNER}

MarketInit ==
    /\ answer \in Answers
    /\ balances = [a \in Payers |-> IF a \in Senders THEN Purse ELSE 0]

PriceOf(id, duration) == Price(id, expiries[id], duration, now, answer)

\* Slip: the rest is kept.
Pay_KeepsRest(sender, payee, value, due) ==
    /\ value \in due .. balances[sender]
    /\ balances' = [balances EXCEPT ![sender] = @ - value, ![payee] = @ + value]

\* The value must cover what is due; the rest goes back to the caller.
Pay(sender, payee, value, due) ==
    /\ value \in due .. balances[sender]
    /\ balances' = [balances EXCEPT ![sender] = @ - due, ![payee] = @ + due]

(***************************************************************************)
(* The controller                                                          *)
(***************************************************************************)
Buy(sender, r, value) ==
    LET price == PriceOf(r.id, r.duration)
    IN  /\ RegisterPlain(r)
        /\ Pay(sender, CONTROLLER, value, price.base + price.premium)
        /\ UNCHANGED answer

\* Only the base is charged.
PaidRenew(sender, id, duration, value) ==
    /\ ControllerRenew(id, duration)
    /\ Pay(sender, CONTROLLER, value, PriceOf(id, duration).base)
    /\ UNCHANGED answer

(***************************************************************************)
(* Several names at once, all or none.  A name that is listed twice is      *)
(* renewed twice.                                                          *)
(***************************************************************************)
Times(batch, id) == Cardinality({i \in DOMAIN batch : batch[i] = id})

AllRenewable(caller, batch, duration) ==
    \A i \in DOMAIN batch : CanRenew(caller, batch[i], duration * Times(batch, batch[i]))

ExtendAll(batch, duration) ==
    /\ expiries' = [id \in Names |-> expiries[id] + duration * Times(batch, id)]
    /\ UNCHANGED <<registryVars, now, tokenOwner, tokenApproved, tokenOperators, controllers,
                   controllerVars>>

BaseOfAll(batch, duration) ==
    MapThenSumSet(LAMBDA i : PriceOf(batch[i], duration).base, DOMAIN batch)

\* rentPrice of both: premiums are counted.
RentPriceOfAll(batch, duration) ==
    MapThenSumSet(LAMBDA i : PriceOf(batch[i], duration).base
                             + PriceOf(batch[i], duration).premium, DOMAIN batch)

\* Slip: the exact price is too little.
UniversalAccepts_More(batch, duration, value) ==
    /\ AllRenewable(WRAPPER, batch, duration)
    /\ value > BaseOfAll(batch, duration)

UniversalAccepts(batch, duration, value) ==
    /\ AllRenewable(WRAPPER, batch, duration)
    /\ value >= BaseOfAll(batch, duration)

\* Slip: the total is that of the first name.
UniversalRenewAll_ChargesOne(sender, batch, duration, value) ==
    /\ UniversalAccepts(batch, duration, value)
    /\ ExtendAll(batch, duration)
    /\ Pay(sender, UNIVERSAL_RENEWAL, value, PriceOf(batch[1], duration).base)
    /\ UNCHANGED answer

UniversalRenewAll(sender, batch, duration, value) ==
    /\ UniversalAccepts(batch, duration, value)
    /\ ExtendAll(batch, duration)
    /\ Pay(sender, UNIVERSAL_RENEWAL, value, BaseOfAll(batch, duration))
    /\ UNCHANGED answer

\* The controller sends a premium back to this contract, which cannot receive it.
StaticAccepts(batch, duration, value) ==
    /\ AllRenewable(CONTROLLER, batch, duration)
    /\ \A i \in DOMAIN batch : PriceOf(batch[i], duration).premium = 0
    /\ value + balances[STATIC_RENEWAL] >= BaseOfAll(batch, duration)

\* The rest, and whatever else is in the contract, goes to the caller.
StaticRenewAll(sender, batch, duration, value) ==
    LET due == BaseOfAll(batch, duration)
    IN  /\ value \in 0 .. balances[sender]
        /\ StaticAccepts(batch, duration, value)
        /\ ExtendAll(batch, duration)
        /\ balances' = [balances EXCEPT ![sender] = @ + balances[STATIC_RENEWAL] - due,
                                        ![CONTROLLER] = @ + due, ![STATIC_RENEWAL] = 0]
        /\ UNCHANGED answer

(***************************************************************************)
(* The owner                                                               *)
(***************************************************************************)
SetAnswer(value) ==
    /\ answer' = value
    /\ UNCHANGED <<registryVars, registrarVars, controllerVars, balances>>

\* Anybody may call withdraw(); the money goes to the owner.
Withdraw(contract) ==
    /\ balances' = [balances EXCEPT ![contract] = 0, ![OWNER] = @ + balances[contract]]
    /\ UNCHANGED <<registryVars, registrarVars, controllerVars, answer>>

RenewalStep ==
    \E sender \in Senders, value \in Values, duration \in Durations :
        \/ \E id \in Names : PaidRenew(sender, id, duration, value)
        \/ \E batch \in RenewalBatches :
            \/ UniversalRenewAll(sender, batch, duration, value)
            \/ StaticRenewAll(sender, batch, duration, value)

SaleStep ==
    \E sender \in Senders, r \in Registrations, value \in Values : Buy(sender, r, value)

MarketNext ==
    \/ SaleStep
    \/ RenewalStep
    \/ \E value \in Answers : SetAnswer(value)
    \/ \E contract \in {CONTROLLER, UNIVERSAL_RENEWAL} : Withdraw(contract)
    \/ (\E r \in Registrations : Commit(r)) /\ UNCHANGED marketVars
    \/ Tick /\ UNCHANGED <<controllerVars, marketVars>>

marketStateVars == <<controllerStateVars, marketVars>>

MarketStart == ControllerStart /\ MarketInit

MarketSpec == MarketStart /\ [][MarketNext]_marketStateVars

(***************************************************************************)
(* Properties                                                              *)
(***************************************************************************)
Takings == balances[CONTROLLER] + balances[UNIVERSAL_RENEWAL] + balances[OWNER]

\* What a step owes for a name: a sale its base and premium, a renewal its base.
Due(id) ==
    IF Available(id)
    THEN LET price == PriceOf(id, expiries'[id] - now) IN price.base + price.premium
    ELSE PriceOf(id, expiries'[id] - expiries[id]).base

DueInAll == MapThenSumSet(Due, {id \in Names : expiries'[id] # expiries[id]})

\* All the time that names gain in a step is paid for at the price of the moment,
\* by one account and no more than that: whichever contract it goes through, with
\* whatever value, for however many names, and the price may have moved since it
\* was asked (register, renew, renewAll).
TimeIsPaidFor ==
    [][/\ Takings' = Takings + DueInAll
       /\ \E payer \in Senders :
            /\ balances'[payer] = balances[payer] - DueInAll
            /\ \A a \in Senders \ {payer} : balances'[a] = balances[a]]_marketStateVars

\* Any names that can be renewed can be renewed together, with the total that
\* rentPrice quotes in the same block; through the bulk renewal contract too, but
\* for the last second of a grace period (rentPrice, renewAll).
QuotesSuffice ==
    \A batch \in RenewalBatches, duration \in Durations :
        (\A i \in DOMAIN batch : CanRenew(CONTROLLER, batch[i], duration * Times(batch, batch[i])))
        => /\ UniversalAccepts(batch, duration, RentPriceOfAll(batch, duration))
           /\ \/ StaticAccepts(batch, duration, RentPriceOfAll(batch, duration))
              \/ \E i \in DOMAIN batch : expiries[batch[i]] + GRACE_PERIOD = now

\* timeUntilPremium names the last second at which the premium is still as high as
\* the amount somebody is willing to pay (LinearPremiumPriceOracle).
PremiumFallsAsPromised ==
    \A id \in Names, amount \in 0 .. AttoUSDToWei(InitialPremium, answer) :
        LET wanted == WeiToAttoUSD(amount, answer)
            time   == TimeUntilPremium(expiries[id], amount, answer)
        IN  /\ PremiumUSD(expiries[id], time) >= wanted
            /\ PremiumUSD(expiries[id], time + 1) <= wanted
================================================================================
