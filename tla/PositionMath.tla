---------------------------- MODULE PositionMath ----------------------------
(***************************************************************************)
(* Pure signed-position accounting shared by the paper portfolio and the   *)
(* settlement of resolved markets (framework/position_transition.py).      *)
(*                                                                         *)
(* Prices are whole ticks, One ticks being the payout of a winning share;  *)
(* shares are integers and a short position is negative.  The average      *)
(* basis is a quotient, kept as a reduced rational: the 28 digits of the   *)
(* code's Decimal are taken as exact.                                      *)
(***************************************************************************)
EXTENDS Integers, FiniteSetsExt

CONSTANT One

ASSUME OneAssumption == One \in Nat \ {0}

Sides == {"BUY", "SELL"}

Magnitude(n) == IF n < 0 THEN -n ELSE n

-----------------------------------------------------------------------------
(* Rationals [num, den] with den > 0 *)

Ratio(n, d) ==
  LET common == Max({k \in 1..d : d % k = 0 /\ n % k = 0})
  IN [num |-> n \div common, den |-> d \div common]

Plus(a, b) == Ratio(a.num * b.den + b.num * a.den, a.den * b.den)

Minus(a, b) == Ratio(a.num * b.den - b.num * a.den, a.den * b.den)

Times(n, a) == Ratio(n * a.num, a.den)

-----------------------------------------------------------------------------
(* transition_signed_position *)

Flat == [shares |-> 0, basis |-> Ratio(0, 1)]

Signed(side, size) == IF side = "BUY" THEN size ELSE -size

\* Mutant: a fill that flips the position keeps the basis of the closed side.
NextBasis_FlipKeepsBasis(held, fill, price) ==
  LET next == held.shares + fill
  IN CASE next = 0 -> Flat.basis
       [] held.shares = 0 -> price
       [] held.shares * fill > 0 ->
            Ratio(Magnitude(held.shares) * held.basis.num * price.den
                    + Magnitude(fill) * price.num * held.basis.den,
                  held.basis.den * price.den * Magnitude(next))
       [] OTHER -> held.basis

\* The basis of what is held after a fill of `size` shares at `price` each.
NextBasis(held, fill, price) ==
  LET next == held.shares + fill
      increases == held.shares * fill > 0
      flips == held.shares * next < 0
  IN CASE next = 0 -> Flat.basis
       [] held.shares = 0 \/ flips -> price
       [] increases -> Ratio(Magnitude(held.shares) * held.basis.num * price.den
                               + Magnitude(fill) * price.num * held.basis.den,
                             held.basis.den * price.den * Magnitude(next))
       [] OTHER -> held.basis

AfterFill(held, side, size, price) ==
  [shares |-> held.shares + Signed(side, size),
   basis |-> NextBasis(held, Signed(side, size), price)]

\* Profit of one share bought at `basis` and valued at `price`, for the side held.
UnitProfit(held, price) ==
  IF held.shares > 0 THEN Minus(price, held.basis) ELSE Minus(held.basis, price)

\* realized_pnl_delta: only the shares the fill closes realize anything.
RealizedBy(held, side, size, price) ==
  IF held.shares * Signed(side, size) >= 0 THEN Ratio(0, 1)
  ELSE Times(Min({Magnitude(held.shares), size}), UnitProfit(held, price))

-----------------------------------------------------------------------------
(* A resolved market pays One for a winning share and nothing for the other *)

PayoutFor(token, winner) == IF token = winner THEN One ELSE 0

RealizedByResolution(held, payout) ==
  Times(Magnitude(held.shares), UnitProfit(held, Ratio(payout, 1)))

=============================================================================
