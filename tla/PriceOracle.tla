------------------------------ MODULE PriceOracle ------------------------------
(***************************************************************************)
(* What a name costs: ethregistrar/StablePriceOracle.sol with the premium   *)
(* of LinearPremiumPriceOracle.sol.  Prices are in attoUSD; the answer of   *)
(* the USD oracle (OwnedUsdOracle.sol) turns them into wei.                *)
(***************************************************************************)
EXTENDS Integers

CONSTANTS
    RentPrices,             \* the price of a second of each name, by its length
    ORACLE_GRACE_PERIOD,
    InitialPremium, PremiumDecreaseRate,
    AnswerUnit              \* 1e8: the decimals of the USD oracle's answer

AttoUSDToWei(amount, answer) == (amount * AnswerUnit) \div answer
WeiToAttoUSD(amount, answer) == (amount * answer) \div AnswerUnit

\* _premium: from the end of the grace period it falls by the second.
PremiumUSD(expires, time) ==
    LET release  == expires + ORACLE_GRACE_PERIOD
        discount == PremiumDecreaseRate * (time - release)
    IN  IF release > time \/ discount > InitialPremium THEN 0 ELSE InitialPremium - discount

Price(name, expires, duration, time, answer) ==
    [base    |-> AttoUSDToWei(RentPrices[name] * duration, answer),
     premium |-> AttoUSDToWei(PremiumUSD(expires, time), answer)]

\* Slip: rounded up.
TimeUntilPremium_Up(expires, amount, answer) ==
    LET discount == InitialPremium - WeiToAttoUSD(amount, answer)
    IN  expires + ORACLE_GRACE_PERIOD + (discount \div PremiumDecreaseRate) + 1

TimeUntilPremium(expires, amount, answer) ==
    LET discount == InitialPremium - WeiToAttoUSD(amount, answer)
    IN  expires + ORACLE_GRACE_PERIOD + (discount \div PremiumDecreaseRate)
================================================================================
