---------------------------- MODULE BundlePricing ----------------------------
(***************************************************************************)
(* The lines of one bundle item of a sale order: _build_order_lines of     *)
(* src/odoo/client.py spreads the item's price over the components, rounds *)
(* every price to the currency's unit and gives the last component what    *)
(* remains, in two groups of units if one price would miss it by too much. *)
(* Amounts are integers and Unit of them are one unit of the currency, so  *)
(* that a platform's price may have a fraction of it.                      *)
(***************************************************************************)
EXTENDS Integers, Sequences

CONSTANTS Unit,           \* CURRENCY_ROUNDING
          MaxPrice,       \* bound: discounted_price
          MaxQuantity,    \* bound: quantity of the item
          MaxComponents,  \* bound: components of a bundle
          MaxPerBundle    \* bound: units of a component in one bundle

ASSUME BundlePricingAssumption ==
    /\ Unit \in Nat \ {0}
    /\ {MaxPrice, MaxQuantity} \subseteq Nat
    /\ {MaxComponents, MaxPerBundle} \subseteq Nat \ {0}

VARIABLES price,      \* item.discounted_price
          quantity,   \* item.quantity
          comps,      \* units of each component in one bundle
          perBundle,  \* total_units, as far as they are counted
          phase,      \* "counting", "spreading", "built", or "missing": Odoo lacks a component
          idx,        \* the component that is next
          remaining,  \* remaining_subtotal
          total,      \* amount of the lines built so far
          ordered,    \* units of each component on them
          lowest      \* the lowest price on them, 0 if none is negative

itemVars == <<price, quantity, comps>>
lineVars == <<total, ordered, lowest>>
vars == <<itemVars, perBundle, phase, idx, remaining, lineVars>>

Abs(n) == IF n < 0 THEN -n ELSE n

(* The type of every variable; a bundle has a component and each component *)
(* at least one unit, whatever the mapping's form held.                    *)
TypeOK ==
    /\ price \in Nat
    /\ quantity \in Nat
    /\ comps \in Seq(Nat \ {0})
    /\ perBundle \in Nat
    /\ phase \in {"counting", "spreading", "built", "missing"}
    /\ idx \in 1 .. Len(comps)
    /\ remaining \in Int
    /\ total \in Int
    /\ ordered \in [1 .. Len(comps) -> Nat]
    /\ lowest \in Int
    /\ phase # "counting" => perBundle > 0

(***************************************************************************)
(* The arithmetic.                                                         *)
(***************************************************************************)

(* A bug: fractions are rounded up. *)
RoundUp(n, d) == -((-n) \div d)

(* n / d to the nearest integer, halves away from zero (ROUND_HALF_UP). *)
HalfUp(n, d) == IF n >= 0 THEN (2 * n + d) \div (2 * d) ELSE -((d - 2 * n) \div (2 * d))

(* n / d to the nearest multiple of the currency's unit. *)
Quantized(n, d) == Unit * HalfUp(n, d * Unit)

Subtotal == price * quantity
Units    == comps[idx] * quantity
IsLast   == idx = Len(comps)

(* The price of every unit but the last component's. *)
Base == Quantized(price, perBundle)

(* The price of the last component's units, and by how much it misses. *)
LastPrice == Quantized(remaining, Units)
Drift     == Abs(LastPrice * Units - remaining)

LowPrice ==
    IF LastPrice * Units > remaining THEN LastPrice - Unit ELSE LastPrice

(* Units of the last component that cost Unit more than LowPrice. *)
HighUnits ==
    LET n == HalfUp(remaining - LowPrice * Units, Unit)
    IN  IF n > Units THEN Units ELSE IF n < 0 THEN 0 ELSE n

(* A bug: the higher group is added to all the units. *)
LowUnitsAll == Units

LowUnits == Units - HighUnits

(***************************************************************************)
(* The loops.                                                              *)
(***************************************************************************)

(* A bundle without components is sold as one unit of its own SKU. *)
Components(rows) == IF rows = <<>> THEN <<1>> ELSE rows

Init ==
    /\ price \in 0 .. MaxPrice
    /\ quantity \in 0 .. MaxQuantity
    /\ \E n \in 0 .. MaxComponents : \E rows \in [1 .. n -> 1 .. MaxPerBundle] :
           comps = Components(rows)
    /\ perBundle = 0
    /\ phase = "counting"
    /\ idx = 1
    /\ remaining = Subtotal
    /\ total = 0
    /\ ordered = [i \in 1 .. Len(comps) |-> 0]
    /\ lowest = 0

(* total_units *)
Count ==
    /\ phase = "counting"
    /\ perBundle' = perBundle + comps[idx]
    /\ IF IsLast THEN idx' = 1 /\ phase' = "spreading"
                 ELSE idx' = idx + 1 /\ UNCHANGED phase
    /\ UNCHANGED <<itemVars, remaining, lineVars>>

(* A line of n units at price p; a group without units is left out. *)
Lowest(n, p) == IF n > 0 /\ p < 0 THEN p ELSE 0

Advance == IF IsLast THEN phase' = "built" /\ UNCHANGED idx
                     ELSE idx' = idx + 1 /\ UNCHANGED phase

(* The component's units on one line. *)
AddLine(p) ==
    /\ total' = total + Units * p
    /\ ordered' = [ordered EXCEPT ![idx] = @ + Units]
    /\ lowest' = IF Lowest(Units, p) < lowest THEN Lowest(Units, p) ELSE lowest
    /\ Advance
    /\ UNCHANGED <<itemVars, perBundle>>

(* A bug: what a component costs is not taken from what remains. *)
RemainingKept == remaining

RemainingAfter == remaining - Base * Units

(* A component that is not the last, or an item of no units. *)
Spread ==
    /\ phase = "spreading"
    /\ ~IsLast \/ Units = 0
    /\ remaining' = RemainingAfter
    /\ AddLine(Base)

(* A bug: the last component's units all have one price. *)
OnePriceAlways == TRUE

OnePrice == Drift <= Unit \/ Units <= 1

(* The last component takes what remains. *)
SpreadLast ==
    /\ phase = "spreading"
    /\ IsLast /\ Units > 0
    /\ OnePrice
    /\ AddLine(LastPrice)
    /\ UNCHANGED remaining

(* The units of a group that becomes a line. *)
Sold(n) == IF n > 0 THEN n ELSE 0

(* The last component on two lines, whose prices are a unit apart. *)
SpreadLastTwice ==
    /\ phase = "spreading"
    /\ IsLast /\ Units > 0
    /\ ~OnePrice
    /\ total' = total + Sold(LowUnits) * LowPrice + Sold(HighUnits) * (LowPrice + Unit)
    /\ ordered' = [ordered EXCEPT ![idx] = @ + Sold(LowUnits) + Sold(HighUnits)]
    /\ lowest' = IF Lowest(LowUnits, LowPrice) < lowest THEN Lowest(LowUnits, LowPrice) ELSE lowest
    /\ Advance
    /\ UNCHANGED <<itemVars, perBundle, remaining>>

(* Odoo has no product for the component: ProductNotFoundError. *)
Missing ==
    /\ phase = "spreading"
    /\ phase' = "missing"
    /\ UNCHANGED <<itemVars, perBundle, idx, remaining, lineVars>>

Next == Count \/ Spread \/ SpreadLast \/ SpreadLastTwice \/ Missing

Spec == Init /\ [][Next]_vars

(***************************************************************************)
(* Properties.                                                             *)
(***************************************************************************)

(* The lines of a bundle add up to what the platform charged for it,       *)
(* within one unit of the currency, whatever was rounded on the way: well  *)
(* within the tolerance of the reconciliation that compares the totals.    *)
TotalKept == phase = "built" => Abs(total - Subtotal) <= Unit

(* Every component is ordered in the number of units of the bundle, also   *)
(* when its units are split over two lines or a line would have none.      *)
UnitsKept == phase = "built" => \A i \in 1 .. Len(comps) : ordered[i] = comps[i] * quantity

(* No line has a negative price, unless the bundle is so cheap that the    *)
(* base price rounded up uses up the price before the last component.      *)
PricesNonNegative ==
    (phase = "built" /\ 2 * price >= Unit * perBundle * (perBundle - 1)) => lowest = 0
=============================================================================
