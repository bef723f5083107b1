------------------------------- MODULE Sizing -------------------------------
(***************************************************************************)
(* The arithmetic that turns a wallet into an order quantity:              *)
(* portfolio/sizing.py with the conversions of money/currency.py.  The     *)
(* code computes with Decimal, exactly; here an amount of quote currency   *)
(* is counted in Parts of a unit and a percentage in hundredths of a       *)
(* percent, so that every product below is an exact integer.  A price is   *)
(* the price of one quantity step.                                         *)
(***************************************************************************)
EXTENDS Integers

Parts == 100000

\* amount * pct / 100, in parts.
Share(amount, pct) == amount * pct * 10

\* convert, for the two units the entry uses: ten Rial to a Toman.
Convert(parts, from, to) ==
  IF from = to THEN parts
  ELSE IF to = "RIAL" THEN parts * 10 ELSE parts \div 10

Least(a, b) == IF a < b THEN a ELSE b

\* What _bot_config and BotConfig fix of a sizing.
LimitsType == [usage     : 1..10000,    \* capital_usage_pct
               position  : 1..10000,    \* max_position_pct
               exposure  : 1..10000,    \* max_total_exposure_pct
               feeBuffer : 0..999,      \* fee_buffer_pct
               minNotional : Nat \ {0}, maxNotional : Nat \ {0}]

\* The three caps of calculate_position_size: balance, position, exposure.
MaxByBalance(limits, funds)  == Share(funds, 10000 - limits.feeBuffer)
MaxByPosition(limits, funds) == Share(funds, limits.position)
MaxByExposure(limits, funds, exposure) ==
  Share(funds, limits.exposure) - exposure * Parts

\* Mutant: the notional is not capped.
Approved_NoCeiling(limits, funds, exposure, requested) ==
  Least(Least(Convert(requested, "TOMAN", "RIAL"),
              MaxByBalance(limits, funds)),
        Least(MaxByPosition(limits, funds),
              MaxByExposure(limits, funds, exposure)))

\* The least of the request and the caps, and not above max_notional_quote.
Approved(limits, funds, exposure, requested) ==
  Least(Least(Least(Convert(requested, "TOMAN", "RIAL"),
                    MaxByBalance(limits, funds)),
              Least(MaxByPosition(limits, funds),
                    MaxByExposure(limits, funds, exposure))),
        limits.maxNotional * Parts)

\* calculate_position_size: the quantity in steps; 0 stands for ValueError.
PositionSize(limits, price, funds, exposure, requested) ==
  LET approved == Approved(limits, funds, exposure, requested)
  IN  IF price > 0 /\ funds > 0 /\ requested > 0
         /\ approved >= limits.minNotional * Parts
      THEN approved \div (price * Parts)
      ELSE 0

\* The request TradingBot.calculate_position_size makes when none is given,
\* in Toman: a share of what the exposure leaves of the balance.
CapitalRequest(limits, funds, exposure) ==
  LET available == IF funds > exposure THEN funds - exposure ELSE 0
  IN  Convert(Share(available, limits.usage), "RIAL", "TOMAN")
=============================================================================
