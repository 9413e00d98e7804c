--------------------------- MODULE OdooClientProofs ---------------------------
(* Proofs about the calls to Odoo: about BundlePricing, which builds the    *)
(* lines of a sale order, and about CircuitBreaker, which every call goes  *)
(* through.  The breaker's variables are declared here and its definitions *)
(* instantiated, so that its names are those of CircuitBreaker.tla after   *)
(* "Breaker!", and its assumption about its constants is a hypothesis.     *)
EXTENDS BundlePricing, SequenceTheorems, TLAPS

CONSTANTS Callers, FailureThreshold, Window, OpenTimeout, PassesRequired, MaxFailures

VARIABLES state, failures, openFor, passes, call, up, wins

Breaker == INSTANCE CircuitBreaker

(***************************************************************************)
(* Arithmetic.                                                             *)
(***************************************************************************)

(* What integer division returns. *)
LEMMA DivBounds ==
    ASSUME NEW n \in Int, NEW d \in Nat \ {0}
    PROVE  /\ n \div d \in Int
           /\ d * (n \div d) <= n
           /\ n < d * (n \div d) + d
BY Z3

(* Rounding misses by at most half a unit. *)
LEMMA HalfUpNearest ==
    ASSUME NEW n \in Int, NEW d \in Nat \ {0}
    PROVE  /\ HalfUp(n, d) \in Int
           /\ 2 * (d * HalfUp(n, d)) <= 2 * n + d
           /\ 2 * n - d <= 2 * (d * HalfUp(n, d))
<1> DEFINE k == (2 * n + d) \div (2 * d)
           m == (d - 2 * n) \div (2 * d)
<1>0. 2 * d \in Nat \ {0} /\ 2 * n + d \in Int /\ d - 2 * n \in Int
  OBVIOUS
<1>1. CASE n >= 0
  <2>1. k \in Int /\ (2 * d) * k <= 2 * n + d /\ 2 * n + d < (2 * d) * k + 2 * d
    BY <1>0, DivBounds
  <2>2. (2 * d) * k = 2 * (d * k)
    BY <2>1
  <2>3. HalfUp(n, d) = k
    BY <1>1 DEF HalfUp
  <2> HIDE DEF k
  <2> QED BY <2>1, <2>2, <2>3
<1>2. CASE ~(n >= 0)
  <2>1. m \in Int /\ (2 * d) * m <= d - 2 * n /\ d - 2 * n < (2 * d) * m + 2 * d
    BY <1>0, DivBounds
  <2>2. (2 * d) * m = 2 * (d * m) /\ d * (-m) = -(d * m)
    BY <2>1
  <2>3. HalfUp(n, d) = -m
    BY <1>2 DEF HalfUp
  <2> HIDE DEF m
  <2> QED BY <2>1, <2>2, <2>3
<1> QED BY <1>1, <1>2

(* A rounded price of u units misses the amount by at most half a unit of   *)
(* the currency for each of them.                                          *)
LEMMA QuantizedNearest ==
    ASSUME NEW n \in Int, NEW u \in Nat \ {0}, Unit \in Nat \ {0}
    PROVE  /\ Quantized(n, u) \in Int
           /\ 2 * (Quantized(n, u) * u) <= 2 * n + u * Unit
           /\ 2 * n - u * Unit <= 2 * (Quantized(n, u) * u)
<1> DEFINE k == HalfUp(n, u * Unit)
<1>1. u * Unit \in Nat \ {0}
  OBVIOUS
<1>2. /\ k \in Int
      /\ 2 * ((u * Unit) * k) <= 2 * n + u * Unit
      /\ 2 * n - u * Unit <= 2 * ((u * Unit) * k)
  BY <1>1, HalfUpNearest
<1>3. Quantized(n, u) = Unit * k
  BY DEF Quantized
<1> HIDE DEF k
<1>4. (Unit * k) * u = (u * Unit) * k
  BY <1>2
<1> QED BY <1>2, <1>3, <1>4

(***************************************************************************)
(* The last component.                                                     *)
(***************************************************************************)

(* A single price is used only when it misses by a unit of the currency or  *)
(* less: one unit of a product cannot miss by more than half of it.        *)
LEMMA OnePriceClose ==
    ASSUME Unit \in Nat \ {0}, remaining \in Int, Units \in Nat \ {0}, OnePrice
    PROVE  LastPrice \in Int /\ Abs(LastPrice * Units - remaining) <= Unit
<1> DEFINE p == LastPrice
           u == Units
<1>1. /\ p \in Int
      /\ 2 * (p * u) <= 2 * remaining + u * Unit
      /\ 2 * remaining - u * Unit <= 2 * (p * u)
  BY QuantizedNearest DEF LastPrice
<1>2. Abs(p * u - remaining) <= Unit \/ u = 1
  BY DEF OnePrice, Drift
<1>3. u \in Nat
  OBVIOUS
<1> HIDE DEF p, u
<1>4. ASSUME u = 1 PROVE Abs(p * u - remaining) <= Unit
  <2>1. p * u = p /\ u * Unit = Unit
    BY <1>1, <1>4
  <2>2. 2 * p <= 2 * remaining + Unit /\ 2 * remaining - Unit <= 2 * p
    BY <1>1, <2>1
  <2>3. Abs(p - remaining) <= Unit
    BY <1>1, <2>2 DEF Abs
  <2> QED BY <2>1, <2>3
<1> QED BY <1>1, <1>2, <1>4 DEF p, u

(* Two prices a unit apart: every unit is on one of the lines, and the      *)
(* lines miss what remained by at most a unit of the currency.             *)
LEMMA TwoPricesClose ==
    ASSUME Unit \in Nat \ {0}, remaining \in Int, Units \in Nat \ {0}
    PROVE  /\ LowPrice \in Int
           /\ HighUnits \in 0 .. Units
           /\ LowUnits \in 0 .. Units
           /\ Abs(LowUnits * LowPrice + HighUnits * (LowPrice + Unit) - remaining) <= Unit
<1> DEFINE p == LastPrice
           l == LowPrice
           u == Units
           h == HalfUp(remaining - l * u, Unit)
<1>1. /\ p \in Int
      /\ 2 * (p * u) <= 2 * remaining + u * Unit
      /\ 2 * remaining - u * Unit <= 2 * (p * u)
  BY QuantizedNearest DEF LastPrice
<1>2. l = IF p * u > remaining THEN p - Unit ELSE p
  BY DEF LowPrice
<1>3. u \in Nat \ {0}
  OBVIOUS
<1>4. HighUnits = IF h > u THEN u ELSE IF h < 0 THEN 0 ELSE h
  BY DEF HighUnits
<1>5. LowUnits = u - HighUnits
  BY DEF LowUnits
<1> HIDE DEF p, l, u
<1>6. l \in Int
  BY <1>1, <1>2
<1>7. (p - Unit) * u = p * u - u * Unit
  BY <1>1, <1>3
<1>8. l * u <= remaining /\ remaining - l * u <= u * Unit
  BY <1>1, <1>2, <1>3, <1>7
<1>9. /\ h \in Int
      /\ 2 * (Unit * h) <= 2 * (remaining - l * u) + Unit
      /\ 2 * (remaining - l * u) - Unit <= 2 * (Unit * h)
  <2>1. remaining - l * u \in Int
    BY <1>3, <1>6
  <2> QED BY <2>1, HalfUpNearest
<1> HIDE DEF h
<1>10. h >= 0
  <2> SUFFICES ASSUME h <= -1 PROVE FALSE
    BY <1>9
  <2>1. Unit * h <= -Unit
    BY <1>9
  <2> QED BY <2>1, <1>3, <1>6, <1>8, <1>9
<1>11. h <= u
  <2> SUFFICES ASSUME h >= u + 1 PROVE FALSE
    BY <1>3, <1>9
  <2>1. Unit * h >= u * Unit + Unit
    BY <1>3, <1>9
  <2> QED BY <2>1, <1>3, <1>6, <1>8, <1>9
<1>12. HighUnits = h /\ LowUnits = u - h
  BY <1>3, <1>4, <1>5, <1>9, <1>10, <1>11
<1>13. (u - h) * l + h * (l + Unit) = l * u + Unit * h
  BY <1>3, <1>6, <1>9
<1>14. Abs(l * u + Unit * h - remaining) <= Unit
  BY <1>3, <1>6, <1>9 DEF Abs
<1>15. HighUnits \in 0 .. u /\ LowUnits \in 0 .. u
  BY <1>3, <1>9, <1>10, <1>11, <1>12
<1>16. Abs(LowUnits * l + HighUnits * (l + Unit) - remaining) <= Unit
  <2>1. LowUnits * l + HighUnits * (l + Unit) = l * u + Unit * h
    BY <1>12, <1>13
  <2> QED BY <2>1, <1>3, <1>6, <1>9, <1>14, <1>15 DEF Abs
<1> QED BY <1>6, <1>15, <1>16 DEF l, u

(***************************************************************************)
(* Types.                                                                  *)
(***************************************************************************)

LEMMA CurrentUnits ==
    ASSUME TypeOK
    PROVE  comps[idx] \in Nat \ {0} /\ Units \in Nat /\ Len(comps) \in Nat
BY DEF TypeOK, Units

LEMMA BaseIsInt ==
    ASSUME TypeOK, phase # "counting"
    PROVE  Base \in Int
<1>1. price \in Int /\ perBundle \in Nat \ {0} /\ Unit \in Nat \ {0}
  BY BundlePricingAssumption DEF TypeOK
<1> QED BY <1>1, QuantizedNearest DEF Base

LEMMA LastPriceIsInt ==
    ASSUME TypeOK, Units > 0
    PROVE  LastPrice \in Int
<1>1. remaining \in Int /\ Units \in Nat \ {0} /\ Unit \in Nat \ {0}
  BY BundlePricingAssumption, CurrentUnits DEF TypeOK
<1> QED BY <1>1, QuantizedNearest DEF LastPrice

LEMMA InitTypes == Init => TypeOK
<1> SUFFICES ASSUME Init PROVE TypeOK
  OBVIOUS
<1>0. PICK n \in 0 .. MaxComponents :
          \E rows \in [1 .. n -> 1 .. MaxPerBundle] : comps = Components(rows)
  BY DEF Init
<1>1. PICK rows \in [1 .. n -> 1 .. MaxPerBundle] : comps = Components(rows)
  BY <1>0
<1>2. rows \in Seq(Nat \ {0})
  BY <1>1, BundlePricingAssumption
<1>3. comps \in Seq(Nat \ {0}) /\ Len(comps) >= 1
  <2>1. CASE rows = <<>>
    BY <1>1, <2>1 DEF Components
  <2>2. CASE rows # <<>>
    <3>1. comps = rows
      BY <1>1, <2>2 DEF Components
    <3>2. Len(rows) # 0 /\ Len(rows) \in Nat
      BY <1>2, <2>2, EmptySeq
    <3> QED BY <1>2, <3>1, <3>2
  <2> QED BY <2>1, <2>2
<1>4. price \in Nat /\ quantity \in Nat /\ Subtotal \in Int
  BY BundlePricingAssumption DEF Init, Subtotal
<1>5. 1 \in 1 .. Len(comps)
  BY <1>3
<1> QED BY <1>3, <1>4, <1>5 DEF Init, TypeOK

(* A line with an integer price keeps the types. *)
LEMMA AddLineTypes ==
    ASSUME TypeOK, NEW p \in Int, AddLine(p), phase = "spreading", remaining' \in Int
    PROVE  TypeOK'
<1>1. Units \in Nat /\ Len(comps) \in Nat /\ idx \in 1 .. Len(comps)
  BY CurrentUnits DEF TypeOK
<1>2. total' \in Int /\ lowest' \in Int
  <2>1. Units * p \in Int /\ Lowest(Units, p) \in Int
    BY <1>1 DEF Lowest
  <2> QED BY <2>1 DEF AddLine, TypeOK
<1>3. ordered' \in [1 .. Len(comps) -> Nat]
  <2>0. ordered \in [1 .. Len(comps) -> Nat]
    BY DEF TypeOK
  <2>1. ordered[idx] \in Nat /\ ordered[idx] + Units \in Nat
    BY <1>1, <2>0
  <2>2. ordered' = [ordered EXCEPT ![idx] = ordered[idx] + Units]
    BY DEF AddLine
  <2> QED BY <2>0, <2>1, <2>2
<1>4. idx' \in 1 .. Len(comps) /\ phase' \in {"spreading", "built"}
  BY <1>1 DEF AddLine, Advance, IsLast
<1> QED BY <1>2, <1>3, <1>4 DEF AddLine, itemVars, TypeOK

LEMMA StepTypes == TypeOK /\ [Next]_vars => TypeOK'
<1> SUFFICES ASSUME TypeOK, [Next]_vars PROVE TypeOK'
  OBVIOUS
<1>0. /\ comps[idx] \in Nat \ {0} /\ Units \in Nat
      /\ Len(comps) \in Nat /\ idx \in 1 .. Len(comps)
  BY CurrentUnits DEF TypeOK
<1>1. CASE Count
  <2>1. perBundle' \in Nat /\ perBundle' > 0
    BY <1>0, <1>1 DEF Count, TypeOK
  <2>2. idx' \in 1 .. Len(comps) /\ phase' \in {"counting", "spreading"}
    BY <1>0, <1>1 DEF Count, IsLast
  <2> QED BY <1>1, <2>1, <2>2 DEF Count, itemVars, lineVars, TypeOK
<1>2. CASE Spread
  <2>1. Base \in Int
    BY <1>2, BaseIsInt DEF Spread
  <2>2. remaining' \in Int
    BY <1>0, <1>2, <2>1 DEF Spread, RemainingAfter, TypeOK
  <2> QED BY <1>2, <2>1, <2>2, AddLineTypes DEF Spread
<1>3. CASE SpreadLast
  <2>1. LastPrice \in Int
    BY <1>3, LastPriceIsInt DEF SpreadLast
  <2>2. remaining' \in Int
    BY <1>3 DEF SpreadLast, TypeOK
  <2> QED BY <1>3, <2>1, <2>2, AddLineTypes DEF SpreadLast
<1>4. CASE SpreadLastTwice
  <2>1. LowPrice \in Int /\ HighUnits \in Nat /\ LowUnits \in Nat /\ Unit \in Nat
    BY <1>0, <1>4, TwoPricesClose, BundlePricingAssumption DEF SpreadLastTwice, TypeOK
  <2>0. Sold(LowUnits) \in Nat /\ Sold(HighUnits) \in Nat
    BY <2>1 DEF Sold
  <2>2. total' \in Int
    BY <1>4, <2>1, <2>0 DEF SpreadLastTwice, TypeOK
  <2>3. lowest' \in Int
    BY <1>4, <2>1 DEF SpreadLastTwice, Lowest, TypeOK
  <2>4. ordered' \in [1 .. Len(comps) -> Nat]
    BY <1>0, <1>4, <2>0 DEF SpreadLastTwice, TypeOK
  <2>5. idx' \in 1 .. Len(comps) /\ phase' \in {"spreading", "built"}
    BY <1>0, <1>4 DEF SpreadLastTwice, Advance, IsLast
  <2> QED BY <1>4, <2>2, <2>3, <2>4, <2>5 DEF SpreadLastTwice, itemVars, TypeOK
<1>5. CASE Missing
  BY <1>5 DEF Missing, itemVars, lineVars, TypeOK
<1>6. CASE UNCHANGED vars
  BY <1>6 DEF vars, itemVars, lineVars, TypeOK
<1> QED BY <1>1, <1>2, <1>3, <1>4, <1>5, <1>6 DEF Next

(* Every variable of BundlePricing keeps its type, for prices, quantities  *)
(* and bundles of any size (_build_order_lines).                           *)
THEOREM TypeCorrect == Spec => []TypeOK
BY InitTypes, StepTypes, PTL DEF Spec

(***************************************************************************)
(* The lines and what remains always make up the price of the item, and    *)
(* the components before idx are ordered: the invariant of the loop.       *)
(***************************************************************************)
Expected(i) == IF i < idx THEN comps[i] * quantity ELSE 0

LoopInv ==
    /\ phase = "counting" =>
         /\ total = 0
         /\ remaining = Subtotal
         /\ ordered = [i \in 1 .. Len(comps) |-> 0]
    /\ phase = "spreading" =>
         /\ total + remaining = Subtotal
         /\ quantity = 0 => total = 0
         /\ \A i \in 1 .. Len(comps) : ordered[i] = Expected(i)

IInv == TypeOK /\ LoopInv /\ TotalKept /\ UnitsKept

LEMMA InitInv == Init => IInv
<1> SUFFICES ASSUME Init PROVE IInv
  OBVIOUS
<1>1. TypeOK
  BY InitTypes
<1>2. LoopInv /\ TotalKept /\ UnitsKept
  BY DEF Init, LoopInv, TotalKept, UnitsKept
<1> QED BY <1>1, <1>2 DEF IInv

(* After the component's units are on a line, the units ordered are those   *)
(* of the components up to it.                                             *)
LEMMA OrderedAfter ==
    ASSUME TypeOK, LoopInv, phase = "spreading", UNCHANGED itemVars, Advance,
           ordered' = [ordered EXCEPT ![idx] = @ + Units]
    PROVE  /\ phase' = "spreading" => \A i \in 1 .. Len(comps)' : ordered'[i] = Expected(i)'
           /\ UnitsKept'
<1>0. /\ Len(comps) \in Nat /\ idx \in 1 .. Len(comps) /\ quantity \in Nat
      /\ \A i \in 1 .. Len(comps) : comps[i] \in Nat
      /\ comps' = comps /\ quantity' = quantity
      /\ ordered \in [1 .. Len(comps) -> Nat]
  BY DEF TypeOK, itemVars
<1>1. \A i \in 1 .. Len(comps) : ordered[i] = Expected(i)
  BY DEF LoopInv
<1>2. \A i \in 1 .. Len(comps) :
        ordered'[i] = IF i <= idx THEN comps[i] * quantity ELSE 0
  <2> TAKE i \in 1 .. Len(comps)
  <2>1. CASE i = idx
    <3>1. ordered'[i] = ordered[i] + comps[i] * quantity
      BY <1>0, <2>1 DEF Units
    <3>2. ordered[i] = 0
      BY <1>0, <1>1, <2>1 DEF Expected
    <3>3. comps[i] * quantity \in Nat
      BY <1>0
    <3> QED BY <1>0, <2>1, <3>1, <3>2, <3>3
  <2>2. CASE i # idx
    <3>1. ordered'[i] = ordered[i]
      BY <1>0, <2>2
    <3>2. ordered[i] = Expected(i)
      BY <1>1
    <3> QED BY <1>0, <2>2, <3>1, <3>2 DEF Expected
  <2> QED BY <2>1, <2>2
<1>3. CASE IsLast
  <2>1. idx = Len(comps) /\ phase' = "built"
    BY <1>3 DEF Advance, IsLast
  <2>2. \A i \in 1 .. Len(comps) : ordered'[i] = comps[i] * quantity
    BY <1>0, <1>2, <2>1
  <2> QED BY <1>0, <2>1, <2>2 DEF UnitsKept
<1>4. CASE ~IsLast
  <2>1. idx' = idx + 1 /\ phase' = "spreading"
    BY <1>4 DEF Advance
  <2>2. \A i \in 1 .. Len(comps) : Expected(i)' = IF i <= idx THEN comps[i] * quantity ELSE 0
    BY <1>0, <2>1 DEF Expected
  <2> QED BY <1>0, <1>2, <2>1, <2>2 DEF UnitsKept
<1> QED BY <1>3, <1>4

(* An item of no units has lines of no amount.                              *)
LEMMA NoUnits ==
    ASSUME TypeOK
    PROVE  /\ Units = 0 <=> quantity = 0
           /\ quantity = 0 => Subtotal = 0
<1>1. /\ comps[idx] \in Nat \ {0} /\ quantity \in Nat /\ price \in Nat
  BY CurrentUnits DEF TypeOK
<1> QED BY <1>1 DEF Units, Subtotal

LEMMA SpreadKeeps ==
    ASSUME IInv, Spread
    PROVE  LoopInv' /\ TotalKept' /\ UnitsKept'
<1>1. Base \in Int /\ Units \in Nat /\ remaining \in Int /\ total \in Int /\ quantity \in Nat
  BY BaseIsInt, CurrentUnits DEF IInv, Spread, TypeOK
<1>2. /\ total' = total + Units * Base /\ remaining' = remaining - Base * Units
      /\ quantity' = quantity /\ Subtotal' = Subtotal
  BY DEF Spread, AddLine, RemainingAfter, itemVars, Subtotal
<1>3. total + remaining = Subtotal /\ (quantity = 0 => total = 0)
  BY DEF IInv, LoopInv, Spread
<1>4. Units * Base = Base * Units
  BY <1>1
<1>5. Units * Base \in Int
  BY <1>1
<1>6. total' + remaining' = Subtotal'
  BY <1>1, <1>2, <1>3, <1>4, <1>5
<1>7. quantity = 0 => total' = 0
  BY <1>1, <1>2, <1>3, NoUnits DEF IInv
<1>8. phase' \in {"spreading", "built"}
  BY DEF Spread, AddLine, Advance
<1>9. /\ phase' = "spreading" => \A i \in 1 .. Len(comps)' : ordered'[i] = Expected(i)'
      /\ UnitsKept'
  BY OrderedAfter DEF IInv, Spread, AddLine
<1>10. TotalKept'
  <2>1. phase' = "built" => quantity = 0
    BY NoUnits DEF IInv, Spread, AddLine, Advance
  <2>2. phase' = "built" => total' = 0 /\ Subtotal' = 0
    BY <1>2, <1>7, <2>1, NoUnits DEF IInv
  <2>3. Unit \in Nat
    BY BundlePricingAssumption
  <2> QED BY <2>2, <2>3 DEF TotalKept, Abs
<1>11. LoopInv'
  BY <1>2, <1>6, <1>7, <1>8, <1>9 DEF LoopInv
<1> QED BY <1>9, <1>10, <1>11

(* What the last component's lines add up to misses what remained by a      *)
(* unit of the currency, so all the lines miss the price by as much.       *)
LEMMA LastKeeps ==
    ASSUME IInv, phase = "spreading", IsLast, Advance, UNCHANGED itemVars,
           NEW amount \in Int, total' = total + amount, Abs(amount - remaining) <= Unit,
           ordered' = [ordered EXCEPT ![idx] = @ + Units]
    PROVE  LoopInv' /\ TotalKept' /\ UnitsKept'
<1>1. remaining \in Int /\ total \in Int /\ Unit \in Nat /\ Subtotal' = Subtotal
  BY BundlePricingAssumption DEF IInv, TypeOK, itemVars, Subtotal
<1>2. total + remaining = Subtotal
  BY DEF IInv, LoopInv
<1>3. Abs(total' - Subtotal') <= Unit
  <2>1. total' - Subtotal' = amount - remaining
    BY <1>1, <1>2
  <2> QED BY <1>1, <1>2, <2>1 DEF Abs
<1>4. phase' = "built"
  BY DEF Advance
<1>5. UnitsKept'
  BY OrderedAfter DEF IInv
<1> QED BY <1>3, <1>4, <1>5 DEF LoopInv, TotalKept

LEMMA StepInv == IInv /\ [Next]_vars => IInv'
<1> SUFFICES ASSUME IInv, [Next]_vars PROVE LoopInv' /\ TotalKept' /\ UnitsKept'
  BY StepTypes DEF IInv
<1>0. /\ Units \in Nat /\ Unit \in Nat \ {0} /\ remaining \in Int
      /\ Len(comps) \in Nat /\ idx \in 1 .. Len(comps)
  BY CurrentUnits, BundlePricingAssumption DEF IInv, TypeOK
<1>1. CASE Count
  <2>1. /\ total' = 0 /\ remaining' = Subtotal' /\ Subtotal' \in Int /\ comps' = comps
        /\ ordered' = [i \in 1 .. Len(comps) |-> 0] /\ phase' \in {"counting", "spreading"}
    BY <1>1 DEF Count, IInv, LoopInv, TypeOK, itemVars, lineVars, Subtotal
  <2>2. phase' = "spreading" => idx' = 1
    BY <1>1 DEF Count
  <2>3. phase' = "spreading" => \A i \in 1 .. Len(comps) : Expected(i)' = 0
    BY <2>2 DEF Expected
  <2>4. total' + remaining' = Subtotal'
    BY <2>1 DEF Subtotal
  <2>5. phase' = "spreading" => \A i \in 1 .. Len(comps)' : ordered'[i] = Expected(i)'
    BY <2>1, <2>3
  <2> QED BY <2>1, <2>4, <2>5 DEF LoopInv, TotalKept, UnitsKept
<1>2. CASE Spread
  BY <1>2, SpreadKeeps
<1>3. CASE SpreadLast
  <2>1. LastPrice \in Int /\ Abs(LastPrice * Units - remaining) <= Unit
    BY <1>0, <1>3, OnePriceClose DEF SpreadLast
  <2>2. Units * LastPrice = LastPrice * Units /\ Units * LastPrice \in Int
    BY <1>0, <2>1
  <2>3. Abs(Units * LastPrice - remaining) <= Unit
    BY <2>1, <2>2
  <2> QED BY <1>3, <2>2, <2>3, LastKeeps DEF SpreadLast, AddLine
<1>4. CASE SpreadLastTwice
  <2> DEFINE amount == LowUnits * LowPrice + HighUnits * (LowPrice + Unit)
  <2>1. /\ LowPrice \in Int /\ HighUnits \in Nat /\ LowUnits \in Nat
        /\ Abs(amount - remaining) <= Unit
    BY <1>0, <1>4, TwoPricesClose DEF SpreadLastTwice
  <2>0. Sold(LowUnits) = LowUnits /\ Sold(HighUnits) = HighUnits
    BY <2>1 DEF Sold
  <2>2. amount \in Int /\ total' = total + amount
    BY <1>0, <1>4, <2>1, <2>0 DEF SpreadLastTwice, IInv, TypeOK
  <2>3. ordered' = [ordered EXCEPT ![idx] = @ + Units]
    <3>1. ordered[idx] + LowUnits + HighUnits = ordered[idx] + Units
      BY <1>0, <2>1 DEF LowUnits, IInv, TypeOK
    <3> QED BY <1>4, <2>0, <3>1 DEF SpreadLastTwice
  <2> HIDE DEF amount
  <2> QED BY <1>4, <2>1, <2>2, <2>3, LastKeeps DEF SpreadLastTwice, itemVars
<1>5. CASE Missing
  BY <1>5 DEF Missing, LoopInv, TotalKept, UnitsKept
<1>6. CASE UNCHANGED vars
  BY <1>6 DEF vars, itemVars, lineVars, IInv, LoopInv, TotalKept, UnitsKept, Expected, Subtotal
<1> QED BY <1>1, <1>2, <1>3, <1>4, <1>5, <1>6 DEF Next

(* The lines of a bundle add up to its price within a unit of the currency, *)
(* for every price, quantity and bundle (_build_order_lines).              *)
THEOREM TotalAlwaysKept == Spec => []TotalKept
<1>1. IInv => TotalKept
  BY DEF IInv
<1> QED BY <1>1, InitInv, StepInv, PTL DEF Spec

(* Every component is ordered in the units of the bundle times those of the *)
(* item, on one line or two (_build_order_lines).                          *)
THEOREM UnitsAlwaysKept == Spec => []UnitsKept
<1>1. IInv => UnitsKept
  BY DEF IInv
<1> QED BY <1>1, InitInv, StepInv, PTL DEF Spec

(***************************************************************************)
(* No price is negative while what remains is not, and what remains is not *)
(* while the base price, rounded up, has not used it up.  That takes the   *)
(* units before a component, so their sums: no operator adds them up in    *)
(* the model, so the invariant says that such sums exist, and counting     *)
(* extends them by one component at a time.                                *)
(***************************************************************************)
DearEnough == 2 * price >= Unit * perBundle * (perBundle - 1)

AddsUp(sum, i) == sum[i] = sum[i - 1] + comps[i]

Sums(sum) ==
    /\ sum[0] = 0
    /\ phase = "counting" =>
         /\ perBundle = sum[idx - 1]
         /\ \A i \in 1 .. Len(comps) : i < idx => AddsUp(sum, i)
    /\ phase = "spreading" =>
         /\ perBundle = sum[Len(comps)]
         /\ \A i \in 1 .. Len(comps) : AddsUp(sum, i)
         /\ remaining = Subtotal - (Base * sum[idx - 1]) * quantity

PriceInv ==
    /\ \E sum \in [0 .. Len(comps) -> Nat] : Sums(sum)
    /\ phase = "counting" => lowest = 0
    /\ phase \in {"spreading", "built"} /\ DearEnough => lowest = 0

(* Rounding keeps the sign. *)
LEMMA QuantizedNonNegative ==
    ASSUME NEW n \in Nat, NEW u \in Nat \ {0}, Unit \in Nat \ {0}
    PROVE  Quantized(n, u) \in Nat
<1> DEFINE d == u * Unit
           k == HalfUp(n, d)
<1>1. d \in Nat \ {0}
  OBVIOUS
<1> HIDE DEF d
<1>2. k \in Int /\ 2 * n - d <= 2 * (d * k)
  BY <1>1, HalfUpNearest
<1> HIDE DEF k
<1>3. k >= 0
  <2> SUFFICES ASSUME k <= -1 PROVE FALSE
    BY <1>2
  <2>1. d * k <= -d
    BY <1>1, <1>2
  <2> QED BY <1>1, <1>2, <2>1
<1>4. Quantized(n, u) = Unit * k
  BY DEF Quantized, d, k
<1> QED BY <1>2, <1>3, <1>4

(* A price that is rounded up leaves something for the last k of n units,   *)
(* if the price of all of them is not too small for the currency's unit.   *)
LEMMA SomethingRemains ==
    ASSUME NEW p \in Nat, NEW b \in Nat, NEW u \in Nat \ {0}, NEW m \in Nat, NEW k \in Nat \ {0},
           2 * (b * (m + k)) <= 2 * p + (m + k) * u,
           2 * p >= u * (m + k) * (m + k - 1)
    PROVE  b * m <= p
<1> DEFINE n == m + k
<1>1. n \in Nat \ {0} /\ m = n - k /\ n - 1 \in Nat
  OBVIOUS
<1>2. (2 * (b * n)) * m <= (2 * p + n * u) * m
  <2>1. 2 * (b * n) \in Nat /\ 2 * p + n * u \in Nat /\ 2 * (b * n) <= 2 * p + n * u
    BY <1>1
  <2> HIDE DEF n
  <2> QED BY <2>1
<1> HIDE DEF n
<1>3. (2 * p + n * u) * m = (2 * p) * n - (2 * p) * k + (n * u) * m
  BY <1>1
<1>4. (2 * p) * k >= (n * u) * m
  <2>1. (2 * p) * k >= (u * n * (n - 1)) * k
    <3>1. 2 * p >= u * n * (n - 1) /\ u * n * (n - 1) \in Nat /\ 2 * p \in Nat
      BY <1>1 DEF n
    <3> QED BY <3>1
  <2>2. (n - 1) * k >= m
    <3>1. (n - 1) * k = n * k - k /\ n * k >= n
      BY <1>1
    <3> QED BY <1>1, <3>1
  <2>3. (u * n) * ((n - 1) * k) >= (u * n) * m
    <3>1. u * n \in Nat /\ (n - 1) * k \in Nat
      BY <1>1
    <3> QED BY <2>2, <3>1
  <2>4. (u * n * (n - 1)) * k = (u * n) * ((n - 1) * k) /\ (n * u) * m = (u * n) * m
    BY <1>1
  <2>5. (2 * p) * k \in Nat /\ (u * n) * m \in Nat /\ (u * n) * ((n - 1) * k) \in Nat
    BY <1>1
  <2> DEFINE x == (2 * p) * k
             y == (u * n) * ((n - 1) * k)
             z == (u * n) * m
  <2>6. x >= y
    BY <2>1, <2>4
  <2>7. y >= z /\ (n * u) * m = z
    BY <2>3, <2>4
  <2>8. x \in Nat /\ y \in Nat /\ z \in Nat
    BY <2>5
  <2> HIDE DEF x, y, z
  <2>9. x >= z
    BY <2>6, <2>7, <2>8
  <2> QED BY <2>7, <2>9 DEF x
<1>5. (2 * n) * (b * m) <= (2 * n) * p
  <2>1. (2 * n) * (b * m) = (2 * (b * n)) * m /\ (2 * n) * p = (2 * p) * n
    BY <1>1
  <2>2. /\ (2 * n) * (b * m) \in Nat /\ (2 * p) * n \in Nat /\ (2 * p) * k \in Nat
        /\ (n * u) * m \in Nat
    BY <1>1
  <2> QED BY <1>2, <1>3, <1>4, <2>1, <2>2
<1>6. ASSUME b * m >= p + 1 PROVE FALSE
  <2>1. (2 * n) * (b * m) >= (2 * n) * (p + 1)
    BY <1>1, <1>6
  <2>2. (2 * n) * (p + 1) = (2 * n) * p + 2 * n /\ (2 * n) * p \in Nat /\ (2 * n) * (b * m) \in Nat
    BY <1>1
  <2> QED BY <1>1, <1>5, <2>1, <2>2
<1> QED BY <1>6

(* The base price of a bundle is no less than zero. *)
LEMMA BaseNonNegative ==
    ASSUME TypeOK, phase # "counting"
    PROVE  Base \in Nat
<1>1. price \in Nat /\ perBundle \in Nat \ {0} /\ Unit \in Nat \ {0}
  BY BundlePricingAssumption DEF TypeOK
<1> QED BY <1>1, QuantizedNonNegative DEF Base

(* What remains for the last component is no less than zero. *)
LEMMA RemainsNonNegative ==
    ASSUME TypeOK, PriceInv, phase = "spreading", IsLast, DearEnough
    PROVE  remaining \in Nat
<1>1. PICK sum \in [0 .. Len(comps) -> Nat] : Sums(sum)
  BY DEF PriceInv
<1> DEFINE m == sum[idx - 1]
           k == comps[idx]
<1>2. /\ idx = Len(comps) /\ idx \in 1 .. Len(comps) /\ k \in Nat \ {0}
      /\ Len(comps) \in Nat
  BY CurrentUnits DEF TypeOK, IsLast
<1>3. m \in Nat /\ perBundle = m + k /\ remaining = Subtotal - (Base * m) * quantity
  BY <1>1, <1>2 DEF Sums, AddsUp
<1> HIDE DEF m, k
<1>4. Base \in Nat /\ price \in Nat /\ quantity \in Nat /\ Unit \in Nat \ {0}
  BY BaseNonNegative, BundlePricingAssumption DEF TypeOK
<1>5. 2 * (Base * (m + k)) <= 2 * price + (m + k) * Unit
  <2>1. price \in Int /\ perBundle \in Nat \ {0}
    BY <1>2, <1>3, <1>4
  <2>2. 2 * (Base * perBundle) <= 2 * price + perBundle * Unit
    BY <1>4, <2>1, QuantizedNearest DEF Base
  <2> QED BY <1>3, <2>2
<1>6. 2 * price >= Unit * (m + k) * (m + k - 1)
  BY <1>3 DEF DearEnough
<1>7. Base * m <= price
  BY <1>2, <1>3, <1>4, <1>5, <1>6, SomethingRemains
<1> DEFINE bm == Base * m
<1>8. bm \in Nat
  BY <1>3, <1>4
<1> HIDE DEF bm
<1>9. bm * quantity <= price * quantity
  BY <1>4, <1>7, <1>8 DEF bm
<1>10. bm * quantity \in Nat /\ price * quantity \in Nat
  BY <1>4, <1>8
<1>11. remaining = price * quantity - bm * quantity
  BY <1>3 DEF Subtotal, bm
<1> QED BY <1>9, <1>10, <1>11

(* So neither of its prices is. *)
LEMMA LastPricesNonNegative ==
    ASSUME Unit \in Nat \ {0}, remaining \in Nat, Units \in Nat \ {0}
    PROVE  LastPrice \in Nat /\ LowPrice \in Nat
<1>1. LastPrice \in Nat
  BY QuantizedNonNegative DEF LastPrice
<1> DEFINE k == HalfUp(remaining, Units * Unit)
<1>2. LastPrice = Unit * k /\ k \in Int
  <2>1. Units * Unit \in Nat \ {0}
    OBVIOUS
  <2> QED BY <2>1, HalfUpNearest DEF LastPrice, Quantized
<1> HIDE DEF k
<1>3. ASSUME LastPrice * Units > remaining PROVE LastPrice - Unit \in Nat
  <2>1. LastPrice # 0
    BY <1>3
  <2>2. k >= 1
    BY <1>1, <1>2, <2>1
  <2>3. Unit * k >= Unit
    BY <1>2, <2>2
  <2> QED BY <1>1, <1>2, <2>3
<1> QED BY <1>1, <1>3 DEF LowPrice

LEMMA InitPrices == Init => PriceInv
<1> SUFFICES ASSUME Init PROVE PriceInv
  OBVIOUS
<1>1. Sums([i \in 0 .. Len(comps) |-> 0])
  <2>1. Len(comps) \in Nat
    BY InitTypes, CurrentUnits
  <2> QED BY <2>1 DEF Init, Sums
<1>2. [i \in 0 .. Len(comps) |-> 0] \in [0 .. Len(comps) -> Nat]
  OBVIOUS
<1>3. \E sum \in [0 .. Len(comps) -> Nat] : Sums(sum)
  BY <1>1, <1>2
<1> QED BY <1>3 DEF Init, PriceInv

LEMMA StepPrices == TypeOK /\ LoopInv /\ PriceInv /\ [Next]_vars => PriceInv'
<1> SUFFICES ASSUME TypeOK, LoopInv, PriceInv, [Next]_vars PROVE PriceInv'
  OBVIOUS
<1>0. /\ Units \in Nat /\ Unit \in Nat \ {0} /\ remaining \in Int /\ quantity \in Nat
      /\ Len(comps) \in Nat /\ idx \in 1 .. Len(comps) /\ comps[idx] \in Nat \ {0}
  BY CurrentUnits, BundlePricingAssumption DEF TypeOK
<1>1. PICK sum \in [0 .. Len(comps) -> Nat] : Sums(sum)
  BY DEF PriceInv
<1>2. CASE Count
  <2>1. PICK next \in [0 .. Len(comps) -> Nat] :
            next = [sum EXCEPT ![idx] = sum[idx - 1] + comps[idx]]
    <3>1. [sum EXCEPT ![idx] = sum[idx - 1] + comps[idx]] \in [0 .. Len(comps) -> Nat]
      BY <1>0
    <3> QED BY <3>1
  <2>2. /\ comps' = comps /\ lowest' = 0 /\ remaining' = Subtotal' /\ Subtotal' \in Int
        /\ quantity' = quantity /\ perBundle' = perBundle + comps[idx]
        /\ IF IsLast THEN idx' = 1 /\ phase' = "spreading"
                     ELSE idx' = idx + 1 /\ phase' = "counting"
    BY <1>2 DEF Count, PriceInv, LoopInv, TypeOK, itemVars, lineVars, Subtotal
  <2>3. next[0] = 0 /\ next[idx] = perBundle' /\ perBundle' = sum[idx - 1] + comps[idx]
    BY <1>0, <1>1, <1>2, <2>1, <2>2 DEF Sums, Count
  <2>4. \A i \in 1 .. Len(comps) : i <= idx => next[i] = next[i - 1] + comps[i]
    <3> SUFFICES ASSUME NEW i \in 1 .. Len(comps), i <= idx
                 PROVE  next[i] = next[i - 1] + comps[i]
      OBVIOUS
    <3>1. next[i - 1] = sum[i - 1]
      BY <1>0, <2>1
    <3>2. CASE i = idx
      BY <1>0, <2>1, <3>1, <3>2
    <3>3. CASE i < idx
      BY <1>0, <1>1, <1>2, <2>1, <3>1, <3>3 DEF Sums, AddsUp, Count
    <3> QED BY <1>0, <3>2, <3>3
  <2>5. CASE IsLast
    <3>1. idx = Len(comps) /\ idx' = 1 /\ phase' = "spreading"
      BY <2>2, <2>5 DEF IsLast
    <3>2. Base' \in Int
      BY <3>1, StepTypes, BaseIsInt
    <3>3. (Base' * next[0]) * quantity = 0
      <4>1. \A b \in Int : (b * 0) * quantity = 0
        BY <1>0
      <4> QED BY <2>3, <3>2, <4>1
    <3>4. Sums(next)'
      BY <1>0, <2>2, <2>3, <2>4, <3>1, <3>3 DEF Sums, AddsUp
    <3> QED BY <2>1, <2>2, <3>1, <3>4 DEF PriceInv
  <2>6. CASE ~IsLast
    <3>1. idx' = idx + 1 /\ phase' = "counting"
      BY <2>2, <2>6
    <3>2. Sums(next)'
      BY <1>0, <2>2, <2>3, <2>4, <3>1 DEF Sums, AddsUp
    <3> QED BY <2>1, <2>2, <3>1, <3>2 DEF PriceInv
  <2> QED BY <2>5, <2>6
<1>3. CASE Spread
  <2>1. Base \in Nat
    BY <1>3, BaseNonNegative DEF Spread
  <2>2. UNCHANGED <<comps, price, quantity, perBundle>> /\ Base' = Base
    BY <1>3 DEF Spread, AddLine, itemVars, Base
  <2>3. lowest' = lowest \/ lowest' = 0
    BY <1>0, <1>3, <2>1 DEF Spread, AddLine, Lowest
  <2>4. phase' \in {"spreading", "built"} /\ (DearEnough' => lowest' = 0)
    BY <1>3, <2>2, <2>3 DEF Spread, AddLine, Advance, PriceInv, DearEnough
  <2>5. Sums(sum)'
    <3>1. ASSUME phase' = "spreading"
          PROVE  remaining' = Subtotal' - (Base' * sum[idx' - 1]) * quantity'
      <4>1. idx' = idx + 1 /\ idx < Len(comps)
        BY <1>0, <1>3, <3>1 DEF Spread, AddLine, Advance, IsLast
      <4>2. /\ sum[idx] = sum[idx - 1] + comps[idx] /\ sum[idx - 1] \in Nat
            /\ remaining = Subtotal - (Base * sum[idx - 1]) * quantity
        BY <1>0, <1>1, <1>3 DEF Sums, AddsUp, Spread
      <4>3. remaining' = remaining - Base * (comps[idx] * quantity)
        BY <1>3 DEF Spread, RemainingAfter, Units
      <4>4. (Base * sum[idx]) * quantity
              = (Base * sum[idx - 1]) * quantity + Base * (comps[idx] * quantity)
        BY <1>0, <2>1, <4>2
      <4>5. Subtotal' = Subtotal /\ Subtotal \in Int
        BY <2>2 DEF Subtotal, TypeOK
      <4>6. (Base * sum[idx - 1]) * quantity \in Nat /\ Base * (comps[idx] * quantity) \in Nat
        BY <1>0, <2>1, <4>2
      <4>7. (Base' * sum[idx' - 1]) * quantity' = (Base * sum[idx]) * quantity
        BY <1>0, <2>2, <4>1
      <4> QED BY <4>2, <4>3, <4>4, <4>5, <4>6, <4>7
    <3> QED BY <1>1, <1>3, <2>2, <2>4, <3>1 DEF Sums, AddsUp, Spread
  <2> QED BY <2>2, <2>4, <2>5 DEF PriceInv
<1>4. ASSUME phase = "spreading", UNCHANGED <<itemVars, perBundle>>, phase' = "built",
             DearEnough => lowest' = 0
      PROVE  PriceInv'
  <2>1. Sums(sum)'
    BY <1>1, <1>4 DEF Sums, itemVars
  <2> QED BY <1>4, <2>1 DEF PriceInv, DearEnough, itemVars
<1>5. ASSUME phase = "spreading", IsLast, Units > 0, DearEnough
      PROVE  LastPrice \in Nat /\ LowPrice \in Nat /\ lowest = 0
  BY <1>0, <1>5, RemainsNonNegative, LastPricesNonNegative DEF PriceInv
<1>6. CASE SpreadLast
  <2>1. DearEnough => lowest' = 0
    BY <1>5, <1>6 DEF SpreadLast, AddLine, Lowest
  <2> QED BY <1>4, <1>6, <2>1 DEF SpreadLast, AddLine, Advance
<1>7. CASE SpreadLastTwice
  <2>1. DearEnough => lowest' = 0
    BY <1>5, <1>7 DEF SpreadLastTwice, Lowest
  <2> QED BY <1>4, <1>7, <2>1 DEF SpreadLastTwice, Advance
<1>8. CASE Missing
  <2>1. Sums(sum)'
    BY <1>1, <1>8 DEF Missing, Sums
  <2> QED BY <1>8, <2>1 DEF Missing, PriceInv, itemVars
<1>9. CASE UNCHANGED vars
  <2>1. Sums(sum)'
    BY <1>1, <1>9 DEF vars, itemVars, Sums, AddsUp, Base, Subtotal
  <2> QED BY <1>9, <2>1 DEF vars, itemVars, lineVars, PriceInv, DearEnough
<1> QED BY <1>2, <1>3, <1>6, <1>7, <1>8, <1>9 DEF Next

(* No line of a bundle has a negative price, unless the bundle is so cheap *)
(* that rounding alone may use it up (_build_order_lines).                 *)
THEOREM PricesNeverNegative == Spec => []PricesNonNegative
<1>1. PriceInv => PricesNonNegative
  BY DEF PriceInv, PricesNonNegative, DearEnough
<1>2. IInv => LoopInv /\ TypeOK
  BY DEF IInv
<1> QED BY <1>1, <1>2, InitPrices, StepPrices, InitInv, StepInv, PTL DEF Spec

(***************************************************************************)
(* The circuit breaker.                                                    *)
(***************************************************************************)

(* A list of failures stays one when failures that are too old are left    *)
(* out and a new one is added in a free slot.                              *)
LEMMA RecordedTypes ==
    ASSUME Breaker!CircuitBreakerAssumption, Breaker!TypeOK, NEW c, Breaker!Fail(c)
    PROVE  /\ failures' \in SUBSET Breaker!Entries
           /\ \A f, g \in failures' : f.slot = g.slot => f = g
<1> DEFINE free == Breaker!Slots \ {f.slot : f \in Breaker!Recent}
           n == CHOOSE n \in free : TRUE
<1>1. free # {} /\ failures' = Breaker!Recent \union {[slot |-> n, age |-> 0]}
  BY DEF Breaker!Fail
<1>2. n \in free
  BY <1>1
<1>3. n \in Breaker!Slots /\ \A f \in Breaker!Recent : f.slot # n
  BY <1>2
<1> HIDE DEF n, free
<1>4. Window \in Nat
  BY DEF Breaker!CircuitBreakerAssumption
<1>5. [slot |-> n, age |-> 0] \in Breaker!Entries
  BY <1>3, <1>4 DEF Breaker!Entries
<1> QED
  BY <1>1, <1>3, <1>5 DEF Breaker!TypeOK, Breaker!Recent

(* What a success leaves of the breaker is well typed. *)
LEMMA SuccessTypes ==
    ASSUME Breaker!CircuitBreakerAssumption, Breaker!TypeOK, Breaker!RecordSuccess
    PROVE  /\ state' \in Breaker!States /\ failures' \in SUBSET failures
           /\ openFor' \in 0 .. OpenTimeout /\ passes' \in 0 .. PassesRequired - 1
  BY DEF Breaker!CircuitBreakerAssumption, Breaker!TypeOK, Breaker!RecordSuccess, Breaker!Close,
         Breaker!States

(* Every step of the breaker keeps its types. *)
LEMMA BreakerTypes ==
    ASSUME Breaker!CircuitBreakerAssumption, Breaker!TypeOK, [Breaker!Next]_(Breaker!vars)
    PROVE  Breaker!TypeOK'
<1>0. /\ OpenTimeout \in Nat /\ Window \in Nat /\ PassesRequired \in Nat \ {0}
      /\ 0 \in 0 .. OpenTimeout /\ 0 \in 0 .. PassesRequired - 1
  BY DEF Breaker!CircuitBreakerAssumption
<1>1. ASSUME NEW c \in Callers, Breaker!Admit(c) PROVE Breaker!TypeOK'
  BY <1>0, <1>1 DEF Breaker!TypeOK, Breaker!Admit, Breaker!States, Breaker!TimedOut
<1>2. ASSUME NEW c \in Callers, Breaker!Fail(c) PROVE Breaker!TypeOK'
  <2>1. state' \in Breaker!States /\ openFor' \in 0 .. OpenTimeout
    BY <1>0, <1>2 DEF Breaker!TypeOK, Breaker!Fail, Breaker!Open, Breaker!States
  <2>2. call' \in [Callers -> {"none", "closed", "half_open"}]
    BY <1>2 DEF Breaker!TypeOK, Breaker!Fail
  <2> QED
    BY <1>2, <2>1, <2>2, RecordedTypes DEF Breaker!TypeOK, Breaker!Fail
<1>3. ASSUME NEW c \in Callers, Breaker!Succeed(c) PROVE Breaker!TypeOK'
  <2>1. /\ state' \in Breaker!States /\ failures' \in SUBSET failures
        /\ openFor' \in 0 .. OpenTimeout /\ passes' \in 0 .. PassesRequired - 1
    BY <1>3, SuccessTypes DEF Breaker!Succeed
  <2> QED
    BY <1>3, <2>1 DEF Breaker!TypeOK, Breaker!Succeed
<1>4. ASSUME NEW c \in Callers, Breaker!Cancel(c) PROVE Breaker!TypeOK'
  BY <1>4 DEF Breaker!TypeOK, Breaker!Cancel
<1>5. CASE Breaker!Tick
  <2> DEFINE Older(f) == [f EXCEPT !.age = IF @ < Window THEN @ + 1 ELSE Window]
  <2>1. failures' = {Older(f) : f \in failures}
    BY <1>5 DEF Breaker!Tick
  <2>2. ASSUME NEW f \in failures PROVE Older(f) \in Breaker!Entries /\ Older(f).slot = f.slot
    BY <1>0, <2>2 DEF Breaker!TypeOK, Breaker!Entries
  <2> HIDE DEF Older
  <2>3. /\ failures' \in SUBSET Breaker!Entries
        /\ \A f, g \in failures' : f.slot = g.slot => f = g
    BY <2>1, <2>2 DEF Breaker!TypeOK
  <2>4. openFor' \in 0 .. OpenTimeout
    BY <1>0, <1>5 DEF Breaker!TypeOK, Breaker!Tick
  <2> QED
    BY <1>5, <2>3, <2>4 DEF Breaker!TypeOK, Breaker!Tick
<1>6. CASE Breaker!Recover
  BY <1>6 DEF Breaker!TypeOK, Breaker!Recover
<1>7. CASE UNCHANGED Breaker!vars
  BY <1>7 DEF Breaker!TypeOK, Breaker!vars
<1> QED
  BY <1>1, <1>2, <1>3, <1>4, <1>5, <1>6, <1>7 DEF Breaker!Next

(* Every behaviour of the breaker is well typed, and its list has one      *)
(* entry for each failure.                                                 *)
THEOREM BreakerTypeCorrect ==
    ASSUME Breaker!CircuitBreakerAssumption PROVE Breaker!Spec => []Breaker!TypeOK
<1>1. Breaker!Init => Breaker!TypeOK
  <2> SUFFICES ASSUME Breaker!Init PROVE Breaker!TypeOK
    OBVIOUS
  <2>1. 0 \in 0 .. OpenTimeout /\ 0 \in 0 .. PassesRequired - 1
    BY DEF Breaker!CircuitBreakerAssumption
  <2>2. /\ failures \in SUBSET Breaker!Entries
        /\ \A f, g \in failures : f.slot = g.slot => f = g
    BY DEF Breaker!Init
  <2>3. call \in [Callers -> {"none", "closed", "half_open"}]
    BY DEF Breaker!Init
  <2> QED
    BY <2>1, <2>2, <2>3 DEF Breaker!Init, Breaker!TypeOK, Breaker!States
<1>2. Breaker!TypeOK /\ [Breaker!Next]_(Breaker!vars) => Breaker!TypeOK'
  BY BreakerTypes
<1> QED
  BY <1>1, <1>2, PTL DEF Breaker!Spec

(* A closed breaker opens only for a threshold of failures that all lie in *)
(* the rolling window (_record_failure).                                   *)
THEOREM TripsAreRecent ==
    ASSUME Breaker!CircuitBreakerAssumption PROVE Breaker!Spec => Breaker!TripIsRecent
<1>1. ASSUME [Breaker!Next]_(Breaker!vars), state = "closed", state' = "open"
      PROVE  Breaker!Cardinality({f \in failures' : f.age < Window}) >= FailureThreshold
  <2>1. PICK c \in Callers : Breaker!Fail(c)
    BY <1>1 DEF Breaker!Next, Breaker!vars, Breaker!Admit, Breaker!TimedOut, Breaker!Succeed,
                Breaker!RecordSuccess, Breaker!Close, Breaker!Cancel, Breaker!Tick,
                Breaker!Recover
  <2>2. Breaker!Cardinality(failures') >= FailureThreshold
    BY <1>1, <2>1 DEF Breaker!Fail, Breaker!Trips
  <2>3. PICK n : failures' = Breaker!Recent \union {[slot |-> n, age |-> 0]}
    BY <2>1 DEF Breaker!Fail
  <2>4. 0 < Window
    BY DEF Breaker!CircuitBreakerAssumption
  <2>5. {f \in failures' : f.age < Window} = failures'
    BY <2>3, <2>4 DEF Breaker!Recent
  <2> QED
    BY <2>2, <2>5
<1>2. [Breaker!Next]_(Breaker!vars) =>
          [state = "closed" /\ state' = "open" =>
               Breaker!Cardinality({f \in failures' : f.age < Window}) >= FailureThreshold]_(Breaker!vars)
  BY <1>1
<1> QED
  BY <1>2, PTL DEF Breaker!Spec, Breaker!TripIsRecent

(* CloseIsEarned is not inductive: what the half-open breaker has counted  *)
(* so far must be calls that returned since it became half-open.           *)
PassesEarned == state = "half_open" => passes <= wins

(* Every step of the breaker keeps PassesEarned. *)
LEMMA PassesStep ==
    ASSUME Breaker!TypeOK, PassesEarned, [Breaker!Next]_(Breaker!vars)
    PROVE  PassesEarned'
<1>1. ASSUME NEW c \in Callers, Breaker!Admit(c) PROVE PassesEarned'
  BY <1>1 DEF Breaker!TypeOK, Breaker!Admit, Breaker!TimedOut, PassesEarned
<1>2. ASSUME NEW c \in Callers, Breaker!Succeed(c) PROVE PassesEarned'
  BY <1>2 DEF Breaker!TypeOK, Breaker!Succeed, Breaker!RecordSuccess, Breaker!Close, PassesEarned
<1>3. ASSUME NEW c \in Callers, Breaker!Fail(c) \/ Breaker!Cancel(c) PROVE PassesEarned'
  BY <1>3 DEF Breaker!Fail, Breaker!Open, Breaker!Cancel, PassesEarned
<1>4. ASSUME Breaker!Tick \/ Breaker!Recover \/ UNCHANGED Breaker!vars PROVE PassesEarned'
  BY <1>4 DEF Breaker!Tick, Breaker!Recover, Breaker!vars, PassesEarned
<1> QED
  BY <1>1, <1>2, <1>3, <1>4 DEF Breaker!Next

(* The breaker closes only after the required number of calls returned     *)
(* since it last became half-open, whatever calls of earlier times end in  *)
(* between (_record_success, _maybe_transition_to_half_open).              *)
THEOREM ClosesAreEarned ==
    ASSUME Breaker!CircuitBreakerAssumption PROVE Breaker!Spec => Breaker!CloseIsEarned
<1>1. Breaker!Init => PassesEarned
  BY DEF Breaker!Init, PassesEarned
<1>2. Breaker!TypeOK /\ PassesEarned /\ [Breaker!Next]_(Breaker!vars) => PassesEarned'
  BY PassesStep
<1>3. ASSUME Breaker!TypeOK, PassesEarned, [Breaker!Next]_(Breaker!vars),
             state = "half_open", state' = "closed"
      PROVE  wins' >= PassesRequired
  <2>1. PICK c \in Callers : Breaker!Succeed(c)
    BY <1>3 DEF Breaker!Next, Breaker!vars, Breaker!Admit, Breaker!TimedOut, Breaker!Fail,
                Breaker!Open, Breaker!Cancel, Breaker!Tick, Breaker!Recover
  <2>2. passes + 1 >= PassesRequired /\ wins' = wins + 1
    BY <1>3, <2>1 DEF Breaker!Succeed, Breaker!RecordSuccess
  <2>3. passes <= wins /\ passes \in Nat /\ wins \in Nat /\ PassesRequired \in Nat
    BY <1>3 DEF Breaker!CircuitBreakerAssumption, Breaker!TypeOK, PassesEarned
  <2> QED
    BY <2>2, <2>3
<1>4. Breaker!TypeOK /\ PassesEarned /\ [Breaker!Next]_(Breaker!vars) =>
          [state = "half_open" /\ state' = "closed" => wins' >= PassesRequired]_(Breaker!vars)
  BY <1>3
<1> QED
  BY <1>1, <1>2, <1>4, BreakerTypeCorrect, PTL DEF Breaker!Spec, Breaker!CloseIsEarned
=============================================================================
