--------------------------- MODULE StockSyncProofs ---------------------------
(***************************************************************************)
(* TLAPS proofs about StockSync, for any products, listings and settings,  *)
(* any workers and any value of the bounds.                                *)
(***************************************************************************)
EXTENDS StockSync, WellFoundedInduction, TLAPS

(* A whole division is the largest multiple that fits.                     *)
LEMMA Division ==
    ASSUME NEW a \in Nat, NEW h \in Nat, h > 0
    PROVE  /\ a \div h \in Nat
           /\ h * (a \div h) <= a
           /\ a < h * (a \div h) + h
  OBVIOUS

(* A share of a whole is no more than the whole. *)
LEMMA ShareOfWhole ==
    ASSUME NEW n \in Nat, NEW pct \in Nat, NEW h \in Nat, h > 0, pct <= h
    PROVE  n * pct \in Nat /\ (n * pct) \div h \in Nat /\ (n * pct) \div h <= n
<1>1. n * pct \in Nat
  OBVIOUS
<1>2. n * pct <= n * h
  OBVIOUS
<1> DEFINE q == (n * pct) \div h
<1>3. q \in Nat /\ h * q <= n * pct
  BY <1>1, Division
<1> HIDE DEF q
<1>4. h * q <= h * n
  BY <1>1, <1>2, <1>3
<1>5. q <= n
  <2>1. SUFFICES ASSUME q >= n + 1 PROVE FALSE
    BY <1>3
  <2>2. h * q >= h * (n + 1)
    BY <2>1, <1>3
  <2>3. h * (n + 1) = h * n + h
    OBVIOUS
  <2> QED
    BY <1>3, <1>4, <2>2, <2>3
<1> QED
  BY <1>1, <1>3, <1>5 DEF q

(* A cut number is a whole number.                                         *)
LEMMA CutType ==
    ASSUME NEW kind, NEW n \in Int, NEW pct \in Int
    PROVE  Cut(kind, n, pct) \in Int
<1> DEFINE m == n * pct
<1>1. m \in Int
  OBVIOUS
<1> HIDE DEF m
<1>2. Hundred \in Nat /\ Hundred > 0
  BY StockSyncAssumption
<1>3. m \div Hundred \in Int /\ (-m) \div Hundred \in Int
  BY <1>1, <1>2
<1> QED
  BY <1>1, <1>3 DEF Cut, m

(* A percentage of a stock is not negative and not above it; of a negative *)
(* stock it is not positive.  A float product that falls short is at least *)
(* 1 before it does.                                                       *)
LEMMA CutBound ==
    ASSUME NEW kind, NEW n \in Int, NEW pct \in Percents
    PROVE  /\ Cut(kind, n, pct) \in Int
           /\ n >= 0 => 0 <= Cut(kind, n, pct) /\ Cut(kind, n, pct) <= n
           /\ n < 0 => Cut(kind, n, pct) <= 0
<1>1. Hundred \in Nat /\ Hundred > 0 /\ pct \in Nat /\ pct <= Hundred /\ pct \in Int
  BY StockSyncAssumption DEF Percents
<1>2. Cut(kind, n, pct) \in Int
  BY <1>1, CutType
<1>3. ASSUME n >= 0 PROVE 0 <= Cut(kind, n, pct) /\ Cut(kind, n, pct) <= n
  <2> DEFINE m == n * pct
  <2>1. m \in Nat /\ m \div Hundred \in Nat /\ m \div Hundred <= n
    BY <1>1, <1>3, ShareOfWhole
  <2>2. <<kind, n, pct>> \in FallsShort => m > 0 /\ m % Hundred = 0
    <3>1. \A x \in FallsShort : x[2] * x[3] > 0 /\ (x[2] * x[3]) % Hundred = 0
      BY StockSyncAssumption
    <3>2. ASSUME <<kind, n, pct>> \in FallsShort
          PROVE  /\ <<kind, n, pct>>[2] * <<kind, n, pct>>[3] > 0
                 /\ (<<kind, n, pct>>[2] * <<kind, n, pct>>[3]) % Hundred = 0
      BY <3>1, <3>2
    <3> QED
      BY <3>2
  <2>3. Cut(kind, n, pct) = IF <<kind, n, pct>> \in FallsShort THEN m \div Hundred - 1
                            ELSE m \div Hundred
    BY <2>1 DEF Cut
  <2> HIDE DEF m
  <2>4. m > 0 /\ m % Hundred = 0 => m \div Hundred >= 1
    BY <1>1, <2>1
  <2> QED
    BY <1>3, <2>1, <2>2, <2>3, <2>4
<1>4. ASSUME n < 0 PROVE Cut(kind, n, pct) <= 0
  <2> DEFINE k == -n
  <2>1. k \in Nat /\ n * pct = -(k * pct)
    BY <1>1, <1>4
  <2>2. k * pct \in Nat /\ (k * pct) \div Hundred \in Nat
    BY <1>1, <2>1, ShareOfWhole
  <2>3. <<kind, n, pct>> \notin FallsShort
    BY <1>4, StockSyncAssumption
  <2>4. Cut(kind, n, pct) = IF n * pct >= 0 THEN (n * pct) \div Hundred
                            ELSE -((-(n * pct)) \div Hundred)
    BY <2>3 DEF Cut
  <2> HIDE DEF k
  <2>5. CASE k * pct = 0
    <3>1. n * pct = 0
      BY <2>1, <2>5
    <3>2. 0 \div Hundred = 0
      BY <1>1
    <3> QED
      BY <2>4, <3>1, <3>2
  <2>6. CASE k * pct > 0
    <3>1. ~(n * pct >= 0) /\ -(n * pct) = k * pct
      BY <2>1, <2>2, <2>6
    <3> QED
      BY <2>2, <2>4, <3>1
  <2> QED
    BY <2>2, <2>5, <2>6
<1> QED
  BY <1>2, <1>3, <1>4

ProductType == [stock : Int, blocked : BOOLEAN, buffer : Int \union {NoBuffer}]
ConfigType  == [buffer : Percents, allocation : Percents]

(* What may be said of a product and of an allocation.                     *)
LEMMA RecordTypes ==
    /\ \A p \in Products : p \in ProductType
    /\ \A c \in Configs : c \in ConfigType /\ c # NoConfig
    /\ Defaults \in ConfigType
  BY StockSyncAssumption DEF ProductType, ConfigType

(* The two percentages that apply to a product.  The buffer of the product *)
(* is any number.                                                          *)
LEMMA PctTypes ==
    ASSUME NEW p \in Products, NEW c \in Configs \union {NoConfig}
    PROVE  /\ AllocationPct(c) \in Percents
           /\ Hundred - BufferPct(p, c) \in Int
           /\ p.buffer \in Percents \union {NoBuffer} => Hundred - BufferPct(p, c) \in Percents
<1>1. Hundred \in Nat /\ NoBuffer \notin Int /\ Percents \subseteq Int
  BY StockSyncAssumption DEF Percents
<1>2. p.buffer \in Int \union {NoBuffer}
  BY RecordTypes DEF ProductType
<1>3. /\ Defaults.buffer \in Percents /\ Defaults.allocation \in Percents
      /\ c # NoConfig => c.buffer \in Percents /\ c.allocation \in Percents
  BY RecordTypes DEF ConfigType
<1>4. /\ BufferPct(p, c) \in Int
      /\ p.buffer \in Percents \union {NoBuffer} => BufferPct(p, c) \in Percents
  BY <1>1, <1>2, <1>3 DEF BufferPct
<1>5. \A b \in Percents : Hundred - b \in Percents
  BY <1>1 DEF Percents
<1> QED
  BY <1>1, <1>3, <1>4, <1>5 DEF AllocationPct

(* What is allocated of a product is not negative, and not above its stock *)
(* if its buffer is a percentage; of a blocked one nothing is allocated.   *)
LEMMA AllocatedBound ==
    ASSUME NEW p \in Products, NEW c \in Configs \union {NoConfig}
    PROVE  /\ Allocated(p, c) \in Nat
           /\ Allocated(p, c) # 0 =>
                 /\ ~p.blocked
                 /\ p.buffer \in Percents \union {NoBuffer} => Allocated(p, c) <= p.stock
<1> DEFINE kept   == Cut("kept", p.stock, Hundred - BufferPct(p, c))
           shared == Cut("shared", kept, AllocationPct(c))
<1>1. p.stock \in Int
  BY RecordTypes DEF ProductType
<1>2. kept \in Int
  BY <1>1, PctTypes, CutType
<1>3. shared \in Int /\ (kept >= 0 => shared <= kept) /\ (kept < 0 => shared <= 0)
  BY <1>2, PctTypes, CutBound
<1>4. p.buffer \in Percents \union {NoBuffer} =>
         (p.stock >= 0 => kept <= p.stock) /\ (p.stock < 0 => kept <= 0)
  BY <1>1, PctTypes, CutBound
<1>5. Allocated(p, c) = IF p.blocked \/ shared < 0 THEN 0 ELSE shared
  BY DEF Allocated
<1> HIDE DEF kept, shared
<1> QED
  BY <1>1, <1>2, <1>3, <1>4, <1>5

(* The only product in a set of at most one. *)
FoundIn(x) == CHOOSE p \in x.product.found : TRUE

(* What is enough of a component is a natural number, and the units of as  *)
(* many bundles are in stock.                                              *)
LEMMA EnoughBound ==
    ASSUME NEW x \in Reads
    PROVE  /\ Enough(x) \in Nat
           /\ Enough(x) # 0 => \E p \in x.product.found :
                 /\ ~p.blocked
                 /\ p.buffer \in Percents \union {NoBuffer} => Enough(x) * Units(x) <= p.stock
<1>1. CASE x.product.found = {}
  BY <1>1 DEF Enough
<1>2. CASE x.product.found # {}
  <2> DEFINE p == FoundIn(x)
             u == Units(x)
             a == Allocated(p, x.config)
  <2>1. p \in x.product.found /\ p \in Products /\ x.config \in Configs \union {NoConfig}
    BY <1>2 DEF FoundIn, Reads, Versions
  <2>2. u \in Nat /\ u > 0
    BY DEF Units, Reads
  <2>3. a \in Nat /\ (a # 0 => ~p.blocked /\
           (p.buffer \in Percents \union {NoBuffer} => a <= p.stock))
    BY <2>1, AllocatedBound
  <2>4. Enough(x) = a \div u
    BY <1>2 DEF Enough, FoundIn
  <2>5. p.stock \in Int
    BY <2>1, RecordTypes DEF ProductType
  <2> HIDE DEF p, u, a
  <2>6. a \div u \in Nat /\ u * (a \div u) <= a
    BY <2>2, <2>3, Division
  <2>7. a = 0 => a \div u = 0
    BY <2>2
  <2>8. (a \div u) * u = u * (a \div u)
    BY <2>2, <2>6
  <2>9. ASSUME Enough(x) # 0
        PROVE  ~p.blocked /\ (p.buffer \in Percents \union {NoBuffer} => Enough(x) * u <= p.stock)
    <3>1. a # 0
      BY <2>4, <2>7, <2>9
    <3>2. Enough(x) * u <= a /\ Enough(x) * u \in Int
      BY <2>2, <2>4, <2>6, <2>8
    <3> QED
      BY <2>3, <2>5, <3>1, <3>2
  <2>10. u = Units(x)
    BY DEF u
  <2> QED
    BY <2>1, <2>4, <2>6, <2>9, <2>10
<1> QED
  BY <1>1, <1>2

(* Some naturals have a least one. *)
LEMMA LeastNat ==
    ASSUME NEW S \in SUBSET Nat, S # {}
    PROVE  \E n \in S : \A m \in S : n <= m
<1> DEFINE R == OpToRel(<, Nat)
<1>1. IsWellFoundedOn(R, Nat)
  BY NatLessThanWellFounded
<1>2. \A m, n \in Nat : m < n => <<m, n>> \in R
  BY DEF OpToRel
<1> HIDE DEF R
<1>3. PICK n \in S : \A m \in S : ~(<<m, n>> \in R)
  BY <1>1, WFMin
<1>4. ASSUME NEW m \in S PROVE n <= m
  <2>1. m \in Nat /\ n \in Nat /\ ~(m < n)
    BY <1>2, <1>3
  <2> QED
    BY <2>1
<1> QED
  BY <1>4

(* The offer of a listing is what all of its components are enough for.    *)
LEMMA QuantityBound ==
    ASSUME NEW B \in SUBSET Reads
    PROVE  /\ Quantity(B) \in Nat
           /\ Quantity(B) # 0 => \A x \in B : Quantity(B) <= Enough(x) /\ Enough(x) # 0
           /\ B = {} => Quantity(B) = 0
<1>1. CASE B = {}
  BY <1>1 DEF Quantity
<1>2. CASE B # {}
  <2> DEFINE S == {Enough(x) : x \in B}
  <2>1. S \in SUBSET Nat /\ S # {}
    BY <1>2, EnoughBound
  <2>2. \E n \in S : \A m \in S : n <= m
    BY <2>1, LeastNat
  <2>3. \E n \in S : \A x \in B : n <= Enough(x)
    BY <2>2
  <2>4. Quantity(B) = CHOOSE n \in S : \A x \in B : n <= Enough(x)
    BY <1>2 DEF Quantity
  <2>5. Quantity(B) \in S /\ \A x \in B : Quantity(B) <= Enough(x)
    BY <2>3, <2>4
  <2> QED
    BY <1>2, <2>1, <2>5, EnoughBound
<1> QED
  BY <1>1, <1>2

(* The offer of some reads is covered by the stock they have seen.         *)
LEMMA OfferCovered ==
    ASSUME NEW B \in SUBSET Reads, Quantity(B) # 0, NEW x \in B
    PROVE  \E p \in x.product.found :
              /\ ~p.blocked
              /\ p.buffer \in Percents \union {NoBuffer} => Quantity(B) * Units(x) <= p.stock
<1> DEFINE q == Quantity(B)
           u == Units(x)
<1>1. q \in Nat /\ Enough(x) \in Nat /\ q <= Enough(x) /\ Enough(x) # 0
  BY QuantityBound, EnoughBound
<1>2. u \in Nat /\ u > 0
  BY DEF Units, Reads
<1>3. PICK p \in x.product.found :
         ~p.blocked /\ (p.buffer \in Percents \union {NoBuffer} => Enough(x) * u <= p.stock)
  BY <1>1, EnoughBound
<1>4. p.stock \in Int
  BY RecordTypes DEF ProductType, Reads, Versions
<1> HIDE DEF q, u
<1>5. q * u <= Enough(x) * u /\ q * u \in Int /\ Enough(x) * u \in Int
  BY <1>1, <1>2
<1>6. p.buffer \in Percents \union {NoBuffer} => q * u <= p.stock
  BY <1>3, <1>4, <1>5
<1> QED
  BY <1>3, <1>6 DEF q, u

----------------------------------------------------------------------------
(* The shape of a coroutine: what it computes while it does, and whose     *)
(* task it is while it is busy.                                            *)
ShapeOf(w) ==
    /\ pc[w] \in {"idle", "listing"} => current[w] = {} /\ basis[w] = {} /\ rest[w] = <<>>
    /\ pc[w] \in {"product", "config"} => rest[w] # <<>>
    /\ pc[w] = "push" => rest[w] = <<>>
    /\ pc[w] = "idle" => job[w] = {} /\ todo[w] = {}
    /\ pc[w] # "idle" => \E s \in Skus : job[w] = {s} /\ todo[w] \subseteq Touched(s)
    /\ current[w] \subseteq todo[w]

Shape == \A w \in Workers : ShapeOf(w)

TInv == TypeOK /\ Shape

(* The part of the types that is about the coroutines. *)
WorkerTypes ==
    /\ pc \in [Workers -> {"idle", "listing", "product", "config", "push"}]
    /\ job \in [Workers -> SUBSET Skus]
    /\ todo \in [Workers -> SUBSET Listings]
    /\ current \in [Workers -> SUBSET Listings]
    /\ rest \in [Workers -> Seq(Row)]
    /\ read \in [Workers -> SUBSET Versions]
    /\ basis \in [Workers -> SUBSET Reads]
    /\ beside \in [Workers -> SUBSET Listings]

LEMMA TypeInit == Init => TInv
<1> SUFFICES ASSUME Init PROVE TInv
  OBVIOUS
<1>1. <<>> \in Seq(Row)
  OBVIOUS
<1>2. product \in [Skus -> Versions]
  BY StockSyncAssumption DEF Init, Versions
<1>3. shown \in [Listings -> Offers]
  BY DEF Init, Offers
<1> QED
  BY <1>1, <1>2, <1>3, StockSyncAssumption DEF Init, TInv, TypeOK, Shape, ShapeOf

(* The listings a task works on are listings. *)
LEMMA TouchedListings == \A s \in Skus : Touched(s) \subseteq Listings
  BY DEF Touched, Direct

LEMMA ForgetType ==
    ASSUME TInv, NEW w \in Workers, Forget(w)
    PROVE  WorkerTypes' /\ Shape'
<1>1. <<>> \in Seq(Row)
  OBVIOUS
<1>2. WorkerTypes'
  BY <1>1 DEF Forget, TInv, TypeOK, WorkerTypes
<1>3. ASSUME NEW v \in Workers PROVE ShapeOf(v)'
  <2>1. CASE v = w
    BY <2>1 DEF Forget, TInv, TypeOK, Shape, ShapeOf
  <2>2. CASE v # w
    BY <2>2 DEF Forget, TInv, TypeOK, Shape, ShapeOf
  <2> QED
    BY <2>1, <2>2
<1> QED
  BY <1>2, <1>3 DEF Shape

LEMMA NextListingType ==
    ASSUME TInv, NEW w \in Workers, pc[w] = "push", NextListing(w)
    PROVE  WorkerTypes' /\ Shape'
<1>1. CASE Forget(w)
  BY <1>1, ForgetType
<1>2. CASE todo[w] \ current[w] # {} /\ ~Forget(w)
  <2>1. /\ todo' = [todo EXCEPT ![w] = todo[w] \ current[w]]
        /\ current' = [current EXCEPT ![w] = {}]
        /\ basis' = [basis EXCEPT ![w] = {}]
        /\ pc' = [pc EXCEPT ![w] = "listing"]
        /\ UNCHANGED <<job, rest, read, beside>>
    BY <1>2 DEF NextListing
  <2>2. WorkerTypes'
    BY <2>1 DEF TInv, TypeOK, WorkerTypes
  <2>3. ASSUME NEW v \in Workers PROVE ShapeOf(v)'
    <3>1. CASE v = w
      BY <2>1, <3>1 DEF TInv, TypeOK, Shape, ShapeOf
    <3>2. CASE v # w
      BY <2>1, <3>2 DEF TInv, TypeOK, Shape, ShapeOf
    <3> QED
      BY <3>1, <3>2
  <2> QED
    BY <2>2, <2>3 DEF Shape
<1> QED
  BY <1>1, <1>2 DEF NextListing

(* What a coroutine has read of a component is well typed. *)
LEMMA KnownType ==
    ASSUME TInv, NEW w \in Workers, rest[w] # <<>>,
           NEW p \in Versions, NEW c \in Configs \union {NoConfig}
    PROVE  /\ Known(w, p, c) \in Reads
           /\ Head(rest[w]) \in Row /\ Tail(rest[w]) \in Seq(Row)
           /\ Head(rest[w]).sku \in Skus
<1>1. rest[w] \in Seq(Row)
  BY DEF TInv, TypeOK
<1>2. Head(rest[w]) \in Row /\ Tail(rest[w]) \in Seq(Row)
  BY <1>1
<1> QED
  BY <1>2 DEF Known, Reads, Row

LEMMA NextRowType ==
    ASSUME TInv, NEW w \in Workers, pc[w] \in {"product", "config"},
           NEW p \in Versions, NEW c \in Configs \union {NoConfig},
           NextRow(w, p, c), UNCHANGED <<job, todo, current, beside>>
    PROVE  WorkerTypes' /\ Shape'
<1>1. rest[w] # <<>>
  BY DEF TInv, Shape, ShapeOf
<1>2. Known(w, p, c) \in Reads /\ Tail(rest[w]) \in Seq(Row)
  BY <1>1, KnownType
<1>3. /\ basis' = [basis EXCEPT ![w] = @ \union {Known(w, p, c)}]
      /\ rest' = [rest EXCEPT ![w] = Tail(rest[w])]
      /\ read' = [read EXCEPT ![w] = {}]
      /\ pc' = [pc EXCEPT ![w] = IF Tail(rest[w]) = <<>> THEN "push" ELSE "product"]
  BY DEF NextRow, TInv, TypeOK
<1>4. WorkerTypes'
  BY <1>2, <1>3 DEF TInv, TypeOK, WorkerTypes
<1>5. ASSUME NEW v \in Workers PROVE ShapeOf(v)'
  <2>1. CASE v = w
    BY <1>3, <2>1 DEF TInv, TypeOK, Shape, ShapeOf
  <2>2. CASE v # w
    BY <1>3, <2>2 DEF TInv, TypeOK, Shape, ShapeOf
  <2> QED
    BY <2>1, <2>2
<1> QED
  BY <1>4, <1>5 DEF Shape

LEMMA TakeType ==
    ASSUME TInv, NEW w \in Workers, NEW s \in Skus, Take(w, s)
    PROVE  WorkerTypes' /\ Shape' /\ queue' \in [Skus -> Nat]
<1>1. queue' \in [Skus -> Nat]
  BY DEF Take, TInv, TypeOK
<1>2. CASE UNCHANGED workerVars
  BY <1>1, <1>2 DEF workerVars, TInv, TypeOK, WorkerTypes, Shape, ShapeOf
<1>3. CASE ~UNCHANGED workerVars
  <2> DEFINE found == Touched(s) \intersect active
  <2>1. /\ pc[w] = "idle"
        /\ pc' = [pc EXCEPT ![w] = "listing"]
        /\ job' = [job EXCEPT ![w] = {s}]
        /\ todo' = [todo EXCEPT ![w] = found]
        /\ beside' = [v \in Workers |-> IF v = w THEN UNION {Meets(u, s) : u \in Workers}
                                        ELSE beside[v] \union Meets(v, s)]
        /\ UNCHANGED <<current, rest, read, basis>>
    BY <1>3 DEF Take
  <2>2. \A v \in Workers : Meets(v, s) \subseteq Listings
    BY TouchedListings DEF Meets
  <2>3. beside' \in [Workers -> SUBSET Listings]
    BY <2>1, <2>2 DEF TInv, TypeOK
  <2>4. found \subseteq Listings /\ found \subseteq Touched(s)
    BY TouchedListings
  <2> HIDE DEF found
  <2>5. WorkerTypes'
    BY <2>1, <2>3, <2>4 DEF TInv, TypeOK, WorkerTypes
  <2>6. ASSUME NEW v \in Workers PROVE ShapeOf(v)'
    <3>1. CASE v = w
      BY <2>1, <2>4, <3>1 DEF TInv, TypeOK, Shape, ShapeOf
    <3>2. CASE v # w
      BY <2>1, <3>2 DEF TInv, TypeOK, Shape, ShapeOf
    <3> QED
      BY <3>1, <3>2
  <2> QED
    BY <1>1, <2>5, <2>6 DEF Shape
<1> QED
  BY <1>2, <1>3

LEMMA OpenType ==
    ASSUME TInv, NEW w \in Workers, NEW l \in Listings, Open(w, l)
    PROVE  WorkerTypes' /\ Shape'
<1> DEFINE rows == IF l \in Bundles \ active THEN <<>> ELSE RowsOf(l)
<1>1. rows \in Seq(Row)
  <2>1. OdooSku[l] \in Skus /\ Components[l] \in Seq(Row)
    BY StockSyncAssumption
  <2>2. [sku |-> OdooSku[l], quantity |-> 1] \in Row
    BY <2>1 DEF Row
  <2>3. \A r \in Row : <<r>> \in Seq(Row)
    OBVIOUS
  <2>4. <<>> \in Seq(Row)
    OBVIOUS
  <2> QED
    BY <2>1, <2>2, <2>3, <2>4 DEF RowsOf
<1>2. /\ pc[w] = "listing"
      /\ l \in todo[w]
      /\ current' = [current EXCEPT ![w] = {l}]
      /\ rest' = [rest EXCEPT ![w] = rows]
      /\ pc' = [pc EXCEPT ![w] = IF rows = <<>> THEN "push" ELSE "product"]
      /\ UNCHANGED <<job, todo, read, basis, beside>>
  BY DEF Open, Nexts
<1> HIDE DEF rows
<1>3. WorkerTypes'
  BY <1>1, <1>2 DEF TInv, TypeOK, WorkerTypes
<1>4. ASSUME NEW v \in Workers PROVE ShapeOf(v)'
  <2>1. CASE v = w
    BY <1>2, <2>1 DEF TInv, TypeOK, Shape, ShapeOf
  <2>2. CASE v # w
    BY <1>2, <2>2 DEF TInv, TypeOK, Shape, ShapeOf
  <2> QED
    BY <2>1, <2>2
<1> QED
  BY <1>3, <1>4 DEF Shape

LEMMA ReadType ==
    ASSUME TInv, NEW w \in Workers, ReadProduct(w) \/ ReadConfig(w)
    PROVE  WorkerTypes' /\ Shape'
<1>1. pc[w] \in {"product", "config"} /\ rest[w] # <<>>
      /\ UNCHANGED <<job, todo, current, beside>>
  BY DEF ReadProduct, ReadConfig, TInv, Shape, ShapeOf
<1>2. Head(rest[w]).sku \in Skus
  <2>1. rest[w] \in Seq(Row)
    BY DEF TInv, TypeOK
  <2>2. Head(rest[w]) \in Row
    BY <1>1, <2>1
  <2> QED
    BY <2>2 DEF Row
<1> DEFINE s == Head(rest[w]).sku
<1>3. product[s] \in Versions /\ config[s] \in Configs \union {NoConfig}
  BY <1>2 DEF TInv, TypeOK
<1>4. CASE ReadConfig(w)
  <2>1. PICK p \in read[w] : NextRow(w, p, config[s])
    BY <1>4 DEF ReadConfig, Setting
  <2>2. p \in Versions
    BY <2>1 DEF TInv, TypeOK
  <2> QED
    BY <1>1, <1>3, <2>1, <2>2, NextRowType
<1>5. CASE NextRow(w, product[s], NoConfig)
  BY <1>1, <1>3, <1>5, NextRowType
<1>6. CASE /\ read' = [read EXCEPT ![w] = {product[s]}]
           /\ pc' = [pc EXCEPT ![w] = "config"]
           /\ UNCHANGED <<basis, rest>>
  <2>1. WorkerTypes'
    BY <1>1, <1>3, <1>6 DEF TInv, TypeOK, WorkerTypes
  <2>2. ASSUME NEW v \in Workers PROVE ShapeOf(v)'
    <3>1. CASE v = w
      BY <1>1, <1>6, <3>1 DEF TInv, TypeOK, Shape, ShapeOf
    <3>2. CASE v # w
      BY <1>1, <1>6, <3>2 DEF TInv, TypeOK, Shape, ShapeOf
    <3> QED
      BY <3>1, <3>2
  <2> QED
    BY <2>1, <2>2 DEF Shape
<1> QED
  BY <1>4, <1>5, <1>6 DEF ReadProduct, Lookup

(* What a coroutine offers is an offer. *)
LEMMA OfferType ==
    ASSUME TInv, NEW w \in Workers
    PROVE  Offer(w) \in Offers
<1>1. basis[w] \in SUBSET Reads
  BY DEF TInv, TypeOK
<1> QED
  BY <1>1, QuantityBound DEF Offer, Offers

LEMMA StillType ==
    ASSUME TInv, UNCHANGED workerVars
    PROVE  WorkerTypes' /\ Shape'
  BY DEF workerVars, TInv, TypeOK, WorkerTypes, Shape, ShapeOf

(* Every step keeps the types and the shape. *)
LEMMA TypeStep == TInv /\ [Next]_vars => TInv'
<1> SUFFICES ASSUME TInv, [Next]_vars
             PROVE  TInv'
  OBVIOUS
<1> USE DEF configVars, marketVars, boundVars
<1>1. ASSUME NEW s \in Skus, OdooChange(s) PROVE TInv'
  <2>1. PICK f \in ({{p} : p \in Products} \union {{}}) \ {product[s].found} :
           product' = [product EXCEPT ![s] = [ver |-> @.ver + 1, found |-> f]]
    BY <1>1 DEF OdooChange
  <2>2. product[s] \in Versions /\ f \in SUBSET Products
    BY DEF TInv, TypeOK
  <2>3. [ver |-> product[s].ver + 1, found |-> f] \in Versions
    BY <2>2 DEF Versions
  <2>4. product' \in [Skus -> Versions] /\ edits' \in 0 .. MaxEdits
    BY <1>1, <2>1, <2>3, StockSyncAssumption DEF TInv, TypeOK, OdooChange
  <2> QED
    BY <1>1, <2>4 DEF TInv, TypeOK, Shape, ShapeOf, OdooChange, workerVars
<1>2. ASSUME NEW s \in Skus, NEW t \in Skus, ConfigSave(s, t) \/ ConfigDelete(s) PROVE TInv'
  <2>1. config' \in [Skus -> Configs \union {NoConfig}]
    <3>1. CASE ConfigSave(s, t)
      BY <3>1 DEF TInv, TypeOK, ConfigSave
    <3>2. CASE ConfigDelete(s)
      BY <3>2 DEF TInv, TypeOK, ConfigDelete
    <3> QED
      BY <1>2, <3>1, <3>2
  <2>2. /\ edits < MaxEdits /\ edits' = edits + 1
        /\ UNCHANGED <<product, active, marketVars, queue, workerVars, faults>>
    BY <1>2 DEF ConfigSave, ConfigDelete
  <2>3. edits' \in 0 .. MaxEdits
    BY <2>2, StockSyncAssumption DEF TInv, TypeOK
  <2> QED
    BY <2>1, <2>2, <2>3, StillType DEF TInv, TypeOK, WorkerTypes
<1>3. ASSUME NEW l \in Listings, MappingToggle(l) \/ FlashStart(l) \/ FlashEnd(l) PROVE TInv'
  <2>1. active' \subseteq Listings /\ flash' \subseteq Listings
    BY <1>3 DEF TInv, TypeOK, MappingToggle, FlashStart, FlashEnd
  <2>2. /\ edits' = edits \/ (edits < MaxEdits /\ edits' = edits + 1)
        /\ UNCHANGED <<product, config, shown, late, queue, workerVars, faults>>
    <3>1. CASE MappingToggle(l)
      BY <3>1 DEF MappingToggle
    <3>2. CASE FlashStart(l)
      BY <3>2 DEF FlashStart
    <3>3. CASE FlashEnd(l)
      BY <3>3 DEF FlashEnd
    <3> QED
      BY <1>3, <3>1, <3>2, <3>3
  <2>3. edits' \in 0 .. MaxEdits
    BY <2>2, StockSyncAssumption DEF TInv, TypeOK
  <2> QED
    BY <2>1, <2>2, <2>3, StillType DEF TInv, TypeOK, WorkerTypes
<1>4. ASSUME NEW u \in late, LateArrives(u) PROVE TInv'
  <2>1. late' \subseteq Listings \X Offers /\ shown' \in [Listings -> Offers]
    BY <1>4 DEF TInv, TypeOK, LateArrives
  <2> QED
    BY <1>4, <2>1 DEF TInv, TypeOK, Shape, ShapeOf, LateArrives, workerVars
<1>5. CASE SafetyNet
  <2>1. queue' \in [Skus -> Nat] /\ faults' \in 0 .. MaxFaults
    BY <1>5, StockSyncAssumption DEF TInv, TypeOK, SafetyNet
  <2> QED
    BY <1>5, <2>1 DEF TInv, TypeOK, Shape, ShapeOf, SafetyNet, workerVars
<1>6. ASSUME NEW w \in Workers, NEW s \in Skus, Take(w, s) PROVE TInv'
  <2>1. UNCHANGED <<product, configVars, marketVars, boundVars>>
    BY <1>6 DEF Take
  <2> QED
    BY <1>6, <2>1, TakeType DEF TInv, TypeOK, WorkerTypes
<1>7. ASSUME NEW w \in Workers, NEW l \in Listings, Open(w, l) PROVE TInv'
  <2>1. UNCHANGED <<product, configVars, marketVars, queue, boundVars>>
    BY <1>7 DEF Open
  <2> QED
    BY <1>7, <2>1, OpenType DEF TInv, TypeOK, WorkerTypes
<1>8. ASSUME NEW w \in Workers, ReadProduct(w) \/ ReadConfig(w) PROVE TInv'
  <2>1. UNCHANGED <<product, configVars, marketVars, queue, boundVars>>
    BY <1>8 DEF ReadProduct, ReadConfig
  <2> QED
    BY <1>8, <2>1, ReadType DEF TInv, TypeOK, WorkerTypes
<1>9. ASSUME NEW w \in Workers, Push(w) \/ PushSkipped(w) \/ PushRefused(w) PROVE TInv'
  <2>1. shown' \in [Listings -> Offers]
    <3>1. CASE UNCHANGED shown
      BY <3>1 DEF TInv, TypeOK
    <3>2. ASSUME NEW l \in current[w], shown' = [shown EXCEPT ![l] = Offer(w)]
          PROVE  shown' \in [Listings -> Offers]
      BY <3>2, OfferType DEF TInv, TypeOK
    <3> QED
      BY <1>9, <3>1, <3>2 DEF Push, PushSkipped, PushRefused
  <2>2. WorkerTypes' /\ Shape'
    BY <1>9, NextListingType, ForgetType DEF Push, PushSkipped, PushRefused
  <2> QED
    BY <1>9, <2>1, <2>2 DEF TInv, TypeOK, WorkerTypes, Push, PushSkipped, PushRefused
<1>10. ASSUME NEW w \in Workers, Fail(w) \/ Retry(w) \/ Crash(w) PROVE TInv'
  <2>1. WorkerTypes' /\ Shape'
    BY <1>10, ForgetType DEF Fail, Retry, Crash
  <2>2. late' \subseteq Listings \X Offers
    BY <1>10, OfferType DEF TInv, TypeOK, Fail, Retry, Crash, MayArrive
  <2>3. queue' \in [Skus -> Nat] /\ faults' \in 0 .. MaxFaults
    <3>1. queue \in [Skus -> Nat] /\ faults \in 0 .. MaxFaults /\ MaxFaults \in Nat
      BY StockSyncAssumption DEF TInv, TypeOK
    <3>2. faults < MaxFaults /\ faults' = faults + 1
      BY <1>10 DEF Fail, Retry, Crash, Faulty
    <3>3. Requeue(w) \/ UNCHANGED queue
      BY <1>10 DEF Fail, Retry, Crash
    <3>4. queue' \in [Skus -> Nat]
      BY <3>1, <3>3 DEF Requeue
    <3> QED
      BY <3>1, <3>2, <3>4
  <2>4. UNCHANGED <<product, configVars, flash, shown, edits>>
    BY <1>10 DEF Fail, Retry, Crash
  <2> QED
    BY <2>1, <2>2, <2>3, <2>4 DEF TInv, TypeOK, WorkerTypes
<1>11. CASE UNCHANGED vars
  BY <1>11 DEF vars, workerVars, TInv, TypeOK, Shape, ShapeOf
<1> QED
  BY <1>1, <1>2, <1>3, <1>4, <1>5, <1>6, <1>7, <1>8, <1>9, <1>10, <1>11 DEF Next, World, Work

LEMMA TypeInvariant == Spec => []TInv
  BY TypeInit, TypeStep, PTL DEF Spec

(* Every variable keeps its type, whatever products, listings and settings *)
(* there are.                                                              *)
THEOREM TypeCorrect == Spec => []TypeOK
<1>1. TInv => TypeOK
  BY DEF TInv
<1> QED
  BY TypeInvariant, <1>1, PTL

----------------------------------------------------------------------------
(* A coroutine loses no component of its listing between its reads: each   *)
(* is still to be read or has been read, or the listing has nothing to     *)
(* read.                                                                   *)
ProgressOf(w) ==
    \A l \in current[w] :
        \/ basis[w] = {} /\ rest[w] = <<>>
        \/ \A i \in DOMAIN RowsOf(l) :
              \/ \E j \in DOMAIN rest[w] : rest[w][j] = RowsOf(l)[i]
              \/ \E x \in basis[w] :
                    x.sku = RowsOf(l)[i].sku /\ x.quantity = RowsOf(l)[i].quantity

Progress == \A w \in Workers : ProgressOf(w)

LateCovered == \A u \in late : CoveredOffer(u[1], u[2])

CInv == Progress /\ Covered /\ LateCovered

LEMMA CoveredInit == Init => CInv
  BY DEF Init, CInv, Progress, ProgressOf, Covered, LateCovered, CoveredOffer

(* When everything is read the offer is covered. *)
LEMMA OfferOK ==
    ASSUME TInv, CInv, NEW w \in Workers, pc[w] = "push", NEW l \in current[w]
    PROVE  CoveredOffer(l, Offer(w))
<1>1. rest[w] = <<>> /\ basis[w] \in SUBSET Reads
  BY DEF TInv, TypeOK, Shape, ShapeOf
<1>2. ASSUME Quantity(basis[w]) # 0
      PROVE  \A i \in DOMAIN RowsOf(l) : \E x \in basis[w] :
                x.sku = RowsOf(l)[i].sku /\ x.quantity = RowsOf(l)[i].quantity
  <2>1. basis[w] # {}
    BY <1>1, <1>2, QuantityBound
  <2>2. DOMAIN rest[w] = {}
    BY <1>1
  <2> QED
    BY <2>1, <2>2 DEF CInv, Progress, ProgressOf
<1>3. ASSUME Quantity(basis[w]) # 0, NEW x \in basis[w]
      PROVE  \E p \in x.product.found :
                /\ ~p.blocked
                /\ p.buffer \in Percents \union {NoBuffer} =>
                      Quantity(basis[w]) * Units(x) <= p.stock
  BY <1>1, <1>3, OfferCovered
<1>4. Offer(w).quantity = Quantity(basis[w]) /\ Offer(w).basis = basis[w]
  BY DEF Offer
<1> QED
  BY <1>2, <1>3, <1>4 DEF CoveredOffer

(* A coroutine that does not move loses nothing. *)
LEMMA StillProgress ==
    ASSUME CInv, NEW v \in Workers, current'[v] = current[v], rest'[v] = rest[v],
           basis'[v] = basis[v]
    PROVE  ProgressOf(v)'
<1>1. ProgressOf(v)
  BY DEF CInv, Progress
<1> QED
  BY <1>1 DEF ProgressOf

(* A coroutine that stops has nothing to lose. *)
LEMMA ForgetProgress ==
    ASSUME TInv, CInv, NEW w \in Workers, Forget(w)
    PROVE  Progress'
<1> SUFFICES ASSUME NEW v \in Workers PROVE ProgressOf(v)'
  BY DEF Progress
<1>1. CASE v = w
  BY <1>1 DEF Forget, TInv, TypeOK, ProgressOf
<1>2. CASE v # w
  <2>1. current'[v] = current[v] /\ rest'[v] = rest[v] /\ basis'[v] = basis[v]
    BY <1>2 DEF Forget, TInv, TypeOK
  <2> QED
    BY <2>1, StillProgress
<1> QED
  BY <1>1, <1>2

LEMMA NextListingProgress ==
    ASSUME TInv, CInv, NEW w \in Workers, NextListing(w)
    PROVE  Progress'
<1>1. CASE Forget(w)
  BY <1>1, ForgetProgress
<1>2. CASE ~Forget(w)
  <2>1. /\ current' = [current EXCEPT ![w] = {}]
        /\ basis' = [basis EXCEPT ![w] = {}]
        /\ UNCHANGED rest
    BY <1>2 DEF NextListing
  <2> SUFFICES ASSUME NEW v \in Workers PROVE ProgressOf(v)'
    BY DEF Progress
  <2>2. CASE v = w
    BY <2>1, <2>2 DEF TInv, TypeOK, ProgressOf
  <2>3. CASE v # w
    <3>1. current'[v] = current[v] /\ rest'[v] = rest[v] /\ basis'[v] = basis[v]
      BY <2>1, <2>3 DEF TInv, TypeOK
    <3> QED
      BY <3>1, StillProgress
  <2> QED
    BY <2>2, <2>3
<1> QED
  BY <1>1, <1>2

LEMMA NextRowProgress ==
    ASSUME TInv, CInv, NEW w \in Workers, rest[w] # <<>>, NEW p \in Versions,
           NEW c \in Configs \union {NoConfig}, NextRow(w, p, c), UNCHANGED current
    PROVE  Progress'
<1>1. /\ basis' = [basis EXCEPT ![w] = basis[w] \union {Known(w, p, c)}]
      /\ rest' = [rest EXCEPT ![w] = Tail(rest[w])]
  BY DEF NextRow, TInv, TypeOK
<1>2. basis \in [Workers -> SUBSET Reads] /\ rest \in [Workers -> Seq(Row)]
  BY DEF TInv, TypeOK
<1>3. ASSUME NEW v \in Workers, v # w PROVE ProgressOf(v)'
  BY <1>1, <1>2, <1>3 DEF CInv, Progress, ProgressOf
<1>4. ProgressOf(w)'
  <2> SUFFICES ASSUME NEW l \in current[w], NEW i \in DOMAIN RowsOf(l)
               PROVE  \/ \E j \in DOMAIN rest'[w] : rest'[w][j] = RowsOf(l)[i]
                      \/ \E x \in basis'[w] :
                            x.sku = RowsOf(l)[i].sku /\ x.quantity = RowsOf(l)[i].quantity
    BY DEF ProgressOf
  <2>1. rest'[w] = Tail(rest[w]) /\ basis'[w] = basis[w] \union {Known(w, p, c)}
    BY <1>1, <1>2
  <2>2. CASE \E x \in basis[w] : x.sku = RowsOf(l)[i].sku /\ x.quantity = RowsOf(l)[i].quantity
    BY <2>1, <2>2
  <2>3. CASE \E j \in DOMAIN rest[w] : rest[w][j] = RowsOf(l)[i]
    <3>1. PICK j \in DOMAIN rest[w] : rest[w][j] = RowsOf(l)[i]
      BY <2>3
    <3>2. rest[w] \in Seq(Row)
      BY <1>2
    <3>3. CASE j = 1
      <4>1. Head(rest[w]) = RowsOf(l)[i]
        BY <3>1, <3>2, <3>3
      <4>2. QED
        <5>1. Known(w, p, c).sku = RowsOf(l)[i].sku
              /\ Known(w, p, c).quantity = RowsOf(l)[i].quantity
          BY <4>1 DEF Known
        <5>2. Known(w, p, c) \in basis'[w]
          BY <2>1
        <5> QED
          BY <5>1, <5>2
    <3>4. CASE j # 1
      <4>1. j - 1 \in DOMAIN Tail(rest[w]) /\ Tail(rest[w])[j - 1] = rest[w][j]
        BY <3>1, <3>2, <3>4
      <4> QED
        BY <2>1, <3>1, <4>1
    <3> QED
      BY <3>3, <3>4
  <2> QED
    BY <2>2, <2>3 DEF CInv, Progress, ProgressOf
<1> QED
  BY <1>3, <1>4 DEF Progress

LEMMA ReadProgress ==
    ASSUME TInv, CInv, NEW w \in Workers, ReadProduct(w) \/ ReadConfig(w)
    PROVE  Progress'
<1>1. pc[w] \in {"product", "config"} /\ rest[w] # <<>> /\ UNCHANGED current
  BY DEF ReadProduct, ReadConfig, TInv, Shape, ShapeOf
<1> DEFINE s == Head(rest[w]).sku
<1>2. s \in Skus
  <2>1. rest[w] \in Seq(Row)
    BY DEF TInv, TypeOK
  <2>2. Head(rest[w]) \in Row
    BY <1>1, <2>1
  <2> QED
    BY <2>2 DEF Row
<1>3. product[s] \in Versions /\ config[s] \in Configs \union {NoConfig}
  BY <1>2 DEF TInv, TypeOK
<1>4. CASE ReadConfig(w)
  <2>1. PICK p \in read[w] : NextRow(w, p, config[s])
    BY <1>4 DEF ReadConfig, Setting
  <2>2. p \in Versions
    BY <2>1 DEF TInv, TypeOK
  <2> QED
    BY <1>1, <1>3, <2>1, <2>2, NextRowProgress
<1>5. CASE NextRow(w, product[s], NoConfig)
  BY <1>1, <1>3, <1>5, NextRowProgress
<1>6. CASE UNCHANGED <<basis, rest>>
  BY <1>1, <1>6 DEF CInv, Progress, ProgressOf
<1> QED
  BY <1>4, <1>5, <1>6 DEF ReadProduct, Lookup

LEMMA OpenProgress ==
    ASSUME TInv, CInv, NEW w \in Workers, NEW l \in Listings, Open(w, l)
    PROVE  Progress'
<1>1. basis[w] = {}
  BY DEF Open, TInv, Shape, ShapeOf
<1>2. /\ current' = [current EXCEPT ![w] = {l}]
      /\ \/ rest' = [rest EXCEPT ![w] = <<>>]
         \/ rest' = [rest EXCEPT ![w] = RowsOf(l)]
      /\ UNCHANGED basis
  BY DEF Open
<1>3. basis \in [Workers -> SUBSET Reads] /\ rest \in [Workers -> Seq(Row)]
      /\ current \in [Workers -> SUBSET Listings]
  BY DEF TInv, TypeOK
<1>4. ASSUME NEW v \in Workers, v # w PROVE ProgressOf(v)'
  BY <1>2, <1>3, <1>4 DEF CInv, Progress, ProgressOf
<1>5. ProgressOf(w)'
  BY <1>1, <1>2, <1>3 DEF ProgressOf
<1> QED
  BY <1>4, <1>5 DEF Progress

(* Every step keeps what is offered, and what may still arrive, covered.   *)
LEMMA CoveredStep == TInv /\ CInv /\ [Next]_vars => CInv'
<1> SUFFICES ASSUME TInv, CInv, [Next]_vars
             PROVE  CInv'
  OBVIOUS
<1> USE DEF configVars, marketVars, boundVars
<1>1. ASSUME UNCHANGED <<shown, late>> PROVE (Covered /\ LateCovered)'
  BY <1>1 DEF CInv, Covered, LateCovered, CoveredOffer
<1>2. ASSUME UNCHANGED workerVars PROVE Progress'
  BY <1>2 DEF workerVars, CInv, Progress, ProgressOf
<1>3. ASSUME NEW s \in Skus, NEW t \in Skus, OdooChange(s) \/ ConfigSave(s, t) \/ ConfigDelete(s)
      PROVE  CInv'
  <2>1. UNCHANGED <<shown, late, workerVars>>
    BY <1>3 DEF OdooChange, ConfigSave, ConfigDelete
  <2> QED
    BY <1>1, <1>2, <2>1 DEF CInv
<1>4. ASSUME NEW l \in Listings, MappingToggle(l) \/ FlashStart(l) \/ FlashEnd(l) PROVE CInv'
  <2>1. UNCHANGED <<shown, late, workerVars>>
    BY <1>4 DEF MappingToggle, FlashStart, FlashEnd
  <2> QED
    BY <1>1, <1>2, <2>1 DEF CInv
<1>5. ASSUME NEW u \in late, LateArrives(u) PROVE CInv'
  <2>1. u[1] \in Listings /\ shown \in [Listings -> Offers]
    BY DEF TInv, TypeOK
  <2>2. late' \subseteq late /\ UNCHANGED workerVars
        /\ \A l \in Listings : shown'[l] = shown[l] \/ (l = u[1] /\ shown'[l] = u[2])
    BY <1>5, <2>1 DEF LateArrives
  <2>3. CoveredOffer(u[1], u[2]) /\ \A l \in Listings : CoveredOffer(l, shown[l])
    BY DEF CInv, LateCovered, Covered
  <2>4. \A l \in Listings : CoveredOffer(l, shown'[l])
    BY <2>2, <2>3
  <2>5. (Covered /\ LateCovered)'
    BY <2>2, <2>4 DEF CInv, Covered, LateCovered, CoveredOffer
  <2> QED
    BY <1>2, <2>2, <2>5 DEF CInv
<1>6. CASE SafetyNet
  BY <1>1, <1>2, <1>6 DEF CInv, SafetyNet
<1>7. ASSUME NEW w \in Workers, NEW s \in Skus, Take(w, s) PROVE CInv'
  <2>1. UNCHANGED <<shown, late, current, rest, basis>>
    BY <1>7 DEF Take, workerVars
  <2> QED
    BY <1>1, <2>1 DEF CInv, Progress, ProgressOf
<1>8. ASSUME NEW w \in Workers, NEW l \in Listings, Open(w, l) PROVE CInv'
  BY <1>1, <1>8, OpenProgress DEF CInv, Open
<1>9. ASSUME NEW w \in Workers, ReadProduct(w) \/ ReadConfig(w) PROVE CInv'
  BY <1>1, <1>9, ReadProgress DEF CInv, ReadProduct, ReadConfig
<1>10. ASSUME NEW w \in Workers, Push(w) PROVE CInv'
  <2>1. Progress' /\ UNCHANGED late
    BY <1>10, NextListingProgress DEF Push
  <2>2. \A l \in Listings : CoveredOffer(l, shown'[l])
    <3>1. PICK l \in current[w] : shown' = [shown EXCEPT ![l] = Offer(w)]
      BY <1>10 DEF Push
    <3>2. CoveredOffer(l, Offer(w))
      BY <1>10, OfferOK DEF Push
    <3> QED
      BY <3>1, <3>2 DEF TInv, TypeOK, CInv, Covered
  <2> QED
    BY <2>1, <2>2 DEF CInv, Covered, LateCovered, CoveredOffer
<1>11. ASSUME NEW w \in Workers, PushSkipped(w) \/ PushRefused(w) PROVE CInv'
  <2>1. Progress' /\ UNCHANGED <<shown, late>>
    BY <1>11, NextListingProgress, ForgetProgress DEF PushSkipped, PushRefused
  <2> QED
    BY <1>1, <2>1 DEF CInv
<1>12. ASSUME NEW w \in Workers, Fail(w) \/ Retry(w) \/ Crash(w) PROVE CInv'
  <2>1. Progress' /\ UNCHANGED shown
    BY <1>12, ForgetProgress DEF Fail, Retry, Crash
  <2>2. \A u \in late' : CoveredOffer(u[1], u[2])
    <3>1. CASE UNCHANGED late
      BY <3>1 DEF CInv, LateCovered
    <3>2. ASSUME pc[w] = "push", NEW l \in current[w], late' = late \union {<<l, Offer(w)>>}
          PROVE  \A u \in late' : CoveredOffer(u[1], u[2])
      BY <3>2, OfferOK DEF CInv, LateCovered
    <3> QED
      BY <1>12, <3>1, <3>2 DEF Fail, Retry, Crash, MayArrive
  <2> QED
    BY <2>1, <2>2 DEF CInv, Covered, LateCovered, CoveredOffer
<1>13. CASE UNCHANGED vars
  BY <1>1, <1>2, <1>13 DEF vars, CInv
<1> QED
  BY <1>3, <1>4, <1>5, <1>6, <1>7, <1>8, <1>9, <1>10, <1>11, <1>12, <1>13
     DEF Next, World, Work

(* Whatever Shopee offers of a listing was covered by every one of its     *)
(* components, for any stock, percentages, rounding of floats and bundles, *)
(* any failures and any order of the tasks.                                *)
THEOREM CoveredAlways == Spec => []Covered
<1>1. Init => CInv
  BY CoveredInit
<1>2. TInv /\ TInv' /\ CInv /\ [Next]_vars => CInv'
  BY CoveredStep
<1>3. CInv => Covered
  BY DEF CInv
<1> QED
  BY TypeInvariant, <1>1, <1>2, <1>3, PTL DEF Spec

----------------------------------------------------------------------------
(* Everything Shopee has been told of a listing, or may still be told by a *)
(* late update.                                                            *)
Told(l) == shown[l].basis \union UNION {u[2].basis : u \in {v \in late : v[1] = l}}

(* Two tasks on one listing know that they are not alone. *)
Apart ==
    \A v, w \in Workers : v # w =>
        \A s \in job[v], t \in job[w] : Touched(s) \intersect Touched(t) \subseteq beside[v]

(* Nothing is known of a version that is not there yet. *)
ToldVersions == \A l \in Listings : \A x \in Told(l) : x.product.ver <= product[x.sku].ver

(* What a coroutine has read of a listing it is alone with is not older    *)
(* than what Shopee has been told.                                         *)
VersionsOf(w) ==
    /\ pc[w] # "config" => read[w] = {}
    /\ \A x \in basis[w] : x.product.ver <= product[x.sku].ver
    /\ \A p \in read[w] : p.ver <= product[Head(rest[w]).sku].ver
    /\ \A l \in current[w] \ beside[w] : \A x \in Told(l) :
          /\ \A y \in basis[w] : x.sku = y.sku => x.product.ver <= y.product.ver
          /\ \A p \in read[w] : x.sku = Head(rest[w]).sku => x.product.ver <= p.ver

RInv == Apart /\ ToldVersions /\ \A w \in Workers : VersionsOf(w)

LEMMA RollbackInit == Init => RInv
<1> SUFFICES ASSUME Init PROVE RInv
  OBVIOUS
<1>1. \A l \in Listings : Told(l) = {}
  BY DEF Init, Told
<1> QED
  BY <1>1 DEF Init, RInv, Apart, ToldVersions, VersionsOf

(* What is told are reads, and versions are numbers. *)
LEMMA ToldType ==
    ASSUME TInv
    PROVE  /\ \A l \in Listings : Told(l) \subseteq Reads
           /\ \A x \in Reads : x.product.ver \in Nat /\ x.sku \in Skus
           /\ \A s \in Skus : product[s].ver \in Nat
<1>1. \A l \in Listings : shown[l].basis \subseteq Reads
  BY DEF TInv, TypeOK, Offers
<1>2. \A u \in late : u[2].basis \subseteq Reads
  BY DEF TInv, TypeOK, Offers
<1>3. \A x \in Reads : x.product.ver \in Nat /\ x.sku \in Skus
  BY DEF Reads, Versions
<1>4. \A s \in Skus : product[s].ver \in Nat
  BY DEF TInv, TypeOK, Versions
<1> QED
  BY <1>1, <1>2, <1>3, <1>4 DEF Told

LEMMA NextVersionType ==
    ASSUME TInv'
    PROVE  \A s \in Skus : product'[s].ver \in Nat
  BY DEF TInv, TypeOK, Versions

(* A version is never taken back. *)
Mono == \A s \in Skus : product[s].ver <= product'[s].ver

LEMMA StillMono == TInv /\ UNCHANGED product => Mono
  BY ToldType DEF Mono

(* Versions that are known stay known. *)
LEMMA StillTold ==
    ASSUME TInv, TInv', RInv, Mono, \A l \in Listings : Told(l)' \subseteq Told(l)
    PROVE  ToldVersions'
<1> SUFFICES ASSUME NEW l \in Listings, NEW x \in Told(l)'
             PROVE  x.product.ver <= product'[x.sku].ver
  BY DEF ToldVersions
<1>1. x \in Told(l) /\ x \in Reads
  BY ToldType
<1>2. x.product.ver \in Nat /\ x.sku \in Skus /\ product[x.sku].ver \in Nat
      /\ product'[x.sku].ver \in Nat
  BY <1>1, ToldType, NextVersionType
<1>3. x.product.ver <= product[x.sku].ver /\ product[x.sku].ver <= product'[x.sku].ver
  BY <1>1, <1>2 DEF RInv, ToldVersions, Mono
<1> QED
  BY <1>2, <1>3

(* The types behind what a coroutine has read. *)
LEMMA ReadTypes ==
    ASSUME TInv, NEW v \in Workers
    PROVE  /\ basis[v] \subseteq Reads
           /\ current[v] \subseteq Listings
           /\ \A p \in read[v] : p.ver \in Nat
           /\ pc[v] = "config" => Head(rest[v]).sku \in Skus
<1>1. basis[v] \subseteq Reads /\ current[v] \subseteq Listings /\ read[v] \subseteq Versions
      /\ rest[v] \in Seq(Row)
  BY DEF TInv, TypeOK
<1>2. ASSUME pc[v] = "config" PROVE Head(rest[v]).sku \in Skus
  <2>1. rest[v] # <<>>
    BY <1>2 DEF TInv, Shape, ShapeOf
  <2>2. Head(rest[v]) \in Row
    BY <1>1, <2>1
  <2> QED
    BY <2>2 DEF Row
<1> QED
  BY <1>1, <1>2 DEF Versions

(* A coroutine that does not move, while nothing is told of a listing it   *)
(* is alone with.                                                          *)
LEMMA StillVersions ==
    ASSUME TInv, TInv', RInv, Mono, NEW v \in Workers,
           pc'[v] = pc[v], rest'[v] = rest[v], basis'[v] = basis[v],
           read'[v] = read[v], current'[v] = current[v], beside[v] \subseteq beside'[v],
           \A l \in current[v] \ beside'[v] : Told(l)' \subseteq Told(l)
    PROVE  VersionsOf(v)'
<1>1. VersionsOf(v)
  BY DEF RInv
<1>2. ASSUME NEW x \in basis[v] PROVE x.product.ver <= product'[x.sku].ver
  <2>1. x.product.ver \in Nat /\ x.sku \in Skus /\ product[x.sku].ver \in Nat
        /\ product'[x.sku].ver \in Nat
    BY ToldType, ReadTypes, NextVersionType
  <2>2. x.product.ver <= product[x.sku].ver /\ product[x.sku].ver <= product'[x.sku].ver
    BY <1>1, <2>1 DEF VersionsOf, Mono
  <2> QED
    BY <2>1, <2>2
<1>3. ASSUME NEW p \in read[v] PROVE p.ver <= product'[Head(rest[v]).sku].ver
  <2> DEFINE s == Head(rest[v]).sku
  <2>1. pc[v] = "config"
    BY <1>1 DEF VersionsOf
  <2>2. p.ver \in Nat /\ s \in Skus /\ product[s].ver \in Nat /\ product'[s].ver \in Nat
    BY <2>1, ToldType, ReadTypes, NextVersionType
  <2>3. p.ver <= product[s].ver /\ product[s].ver <= product'[s].ver
    BY <1>1, <2>2 DEF VersionsOf, Mono
  <2> QED
    BY <2>2, <2>3
<1>4. ASSUME NEW l \in current[v] \ beside'[v], NEW x \in Told(l)'
      PROVE  /\ \A y \in basis[v] : x.sku = y.sku => x.product.ver <= y.product.ver
             /\ \A p \in read[v] : x.sku = Head(rest[v]).sku => x.product.ver <= p.ver
  BY <1>1, <1>4 DEF VersionsOf
<1> QED
  BY <1>1, <1>2, <1>3, <1>4 DEF VersionsOf

(* A coroutine that has read nothing. *)
LEMMA EmptyVersions ==
    ASSUME NEW v \in Workers, basis'[v] = {}, read'[v] = {}
    PROVE  VersionsOf(v)'
  BY DEF VersionsOf

(* A coroutine that has read another product, which nobody has seen in a   *)
(* later version.                                                          *)
LEMMA NextRowVersions ==
    ASSUME TInv, TInv', RInv, NEW w \in Workers, pc[w] \in {"product", "config"},
           NEW p \in Versions, NEW c \in Configs \union {NoConfig},
           p.ver <= product[Head(rest[w]).sku].ver,
           \A l \in current[w] \ beside[w] : \A x \in Told(l) :
              x.sku = Head(rest[w]).sku => x.product.ver <= p.ver,
           NextRow(w, p, c), UNCHANGED <<product, shown, late, current, beside>>
    PROVE  \A v \in Workers : VersionsOf(v)'
<1>1. /\ basis' = [basis EXCEPT ![w] = basis[w] \union {Known(w, p, c)}]
      /\ rest' = [rest EXCEPT ![w] = Tail(rest[w])]
      /\ read' = [read EXCEPT ![w] = {}]
      /\ pc' = [pc EXCEPT ![w] = IF Tail(rest[w]) = <<>> THEN "push" ELSE "product"]
  BY DEF NextRow, TInv, TypeOK
<1>2. Mono
  BY StillMono
<1>3. \A l \in Listings : Told(l)' = Told(l)
  BY DEF Told
<1>4. ASSUME NEW v \in Workers, v # w PROVE VersionsOf(v)'
  <2>1. pc'[v] = pc[v] /\ rest'[v] = rest[v] /\ basis'[v] = basis[v] /\ read'[v] = read[v]
    BY <1>1, <1>4 DEF TInv, TypeOK
  <2>2. \A l \in current[v] \ beside'[v] : Told(l)' \subseteq Told(l)
    BY <1>3, ReadTypes
  <2> QED
    BY <1>2, <2>1, <2>2, StillVersions
<1>5. VersionsOf(w)'
  <2>1. basis'[w] = basis[w] \union {Known(w, p, c)} /\ read'[w] = {}
    BY <1>1 DEF TInv, TypeOK
  <2>2. Known(w, p, c).product = p /\ Known(w, p, c).sku = Head(rest[w]).sku
    BY DEF Known
  <2>3. VersionsOf(w)
    BY DEF RInv
  <2>4. \A x \in basis'[w] : x.product.ver <= product'[x.sku].ver
    BY <2>1, <2>2, <2>3 DEF VersionsOf
  <2>5. ASSUME NEW l \in current[w] \ beside[w], NEW x \in Told(l), NEW y \in basis'[w],
               x.sku = y.sku
        PROVE  x.product.ver <= y.product.ver
    BY <2>1, <2>2, <2>3, <2>5 DEF VersionsOf
  <2>6. \A l \in current[w] : Told(l)' = Told(l)
    BY <1>3, ReadTypes
  <2> QED
    BY <2>1, <2>4, <2>5, <2>6 DEF VersionsOf
<1> QED
  BY <1>4, <1>5

LEMMA ReadVersions ==
    ASSUME TInv, TInv', RInv, NEW w \in Workers, ReadProduct(w) \/ ReadConfig(w)
    PROVE  \A v \in Workers : VersionsOf(v)'
<1>1. /\ pc[w] \in {"product", "config"} /\ rest[w] # <<>>
      /\ UNCHANGED <<product, shown, late, current, beside>>
  BY DEF ReadProduct, ReadConfig, TInv, Shape, ShapeOf, marketVars
<1> DEFINE s == Head(rest[w]).sku
<1>2. s \in Skus
  <2>1. rest[w] \in Seq(Row)
    BY DEF TInv, TypeOK
  <2>2. Head(rest[w]) \in Row
    BY <1>1, <2>1
  <2> QED
    BY <2>2 DEF Row
<1>3. product[s] \in Versions /\ config[s] \in Configs \union {NoConfig}
  BY <1>2 DEF TInv, TypeOK
<1>4. CASE ReadConfig(w)
  <2>1. PICK p \in read[w] : NextRow(w, p, config[s])
    BY <1>4 DEF ReadConfig, Setting
  <2>2. p \in Versions
    BY <2>1 DEF TInv, TypeOK
  <2>3. /\ p.ver <= product[s].ver
        /\ \A l \in current[w] \ beside[w] : \A x \in Told(l) :
              x.sku = s => x.product.ver <= p.ver
    BY <2>1 DEF RInv, VersionsOf
  <2> QED
    BY <1>1, <1>3, <2>1, <2>2, <2>3, NextRowVersions
<1>5. \A l \in current[w] : \A x \in Told(l) : x.sku = s => x.product.ver <= product[s].ver
  BY ReadTypes DEF RInv, ToldVersions
<1>6. product[s].ver <= product[s].ver
  BY <1>2, ToldType
<1>7. CASE NextRow(w, product[s], NoConfig)
  BY <1>1, <1>3, <1>5, <1>6, <1>7, NextRowVersions
<1>8. CASE /\ read' = [read EXCEPT ![w] = {product[s]}]
           /\ pc' = [pc EXCEPT ![w] = "config"]
           /\ UNCHANGED <<basis, rest>>
  <2>1. Mono /\ \A l \in Listings : Told(l)' = Told(l)
    BY <1>1, StillMono DEF Told
  <2>2. ASSUME NEW v \in Workers, v # w PROVE VersionsOf(v)'
    <3>1. pc'[v] = pc[v] /\ rest'[v] = rest[v] /\ basis'[v] = basis[v] /\ read'[v] = read[v]
      BY <1>8, <2>2 DEF TInv, TypeOK
    <3>2. \A l \in current[v] \ beside'[v] : Told(l)' \subseteq Told(l)
      BY <2>1, ReadTypes
    <3> QED
      BY <1>1, <2>1, <3>1, <3>2, StillVersions
  <2>3. VersionsOf(w)'
    <3>1. read'[w] = {product[s]} /\ pc'[w] = "config"
      BY <1>8 DEF TInv, TypeOK
    <3>2. VersionsOf(w) /\ \A l \in current[w] : Told(l)' = Told(l)
      BY <2>1, ReadTypes DEF RInv
    <3> QED
      BY <1>1, <1>5, <1>6, <1>8, <3>1, <3>2 DEF VersionsOf
  <2> QED
    BY <2>2, <2>3
<1> QED
  BY <1>4, <1>7, <1>8 DEF ReadProduct, Lookup

(* What an update adds to what Shopee is told is what its coroutine has    *)
(* read, and the coroutine is done with the listing.                       *)
LEMMA TellVersions ==
    ASSUME TInv, TInv', RInv, NEW w \in Workers, UNCHANGED product,
           \A l \in Listings :
              Told(l)' \subseteq Told(l) \union (IF l \in current[w] THEN basis[w] ELSE {}),
           \A v \in Workers : v # w =>
              /\ pc'[v] = pc[v] /\ rest'[v] = rest[v] /\ basis'[v] = basis[v]
              /\ read'[v] = read[v] /\ current'[v] = current[v] /\ beside'[v] = beside[v],
           basis'[w] = {}, read'[w] = {}
    PROVE  ToldVersions' /\ \A v \in Workers : VersionsOf(v)'
<1>1. Mono
  BY StillMono
<1>2. ToldVersions'
  BY ToldType DEF RInv, ToldVersions, VersionsOf
<1>3. ASSUME NEW v \in Workers, v # w PROVE VersionsOf(v)'
  <2>1. ASSUME NEW l \in current[v] \ beside'[v] PROVE Told(l)' \subseteq Told(l)
    <3>1. l \in current[v] /\ l \notin beside[v] /\ l \in Listings
      BY <1>3, <2>1, ReadTypes
    <3>2. l \notin current[w]
      <4>1. SUFFICES ASSUME l \in current[w] PROVE FALSE
        OBVIOUS
      <4>2. pc[v] # "idle" /\ pc[w] # "idle"
        BY <3>1, <4>1 DEF TInv, Shape, ShapeOf
      <4>3. PICK s \in Skus : job[v] = {s} /\ todo[v] \subseteq Touched(s)
        BY <4>2 DEF TInv, Shape, ShapeOf
      <4>4. PICK t \in Skus : job[w] = {t} /\ todo[w] \subseteq Touched(t)
        BY <4>2 DEF TInv, Shape, ShapeOf
      <4>5. l \in Touched(s) \intersect Touched(t)
        BY <3>1, <4>1, <4>3, <4>4 DEF TInv, Shape, ShapeOf
      <4> QED
        BY <1>3, <3>1, <4>3, <4>4, <4>5 DEF RInv, Apart
    <3> QED
      BY <3>1, <3>2
  <2> QED
    BY <1>1, <1>3, <2>1, StillVersions
<1>4. VersionsOf(w)'
  BY EmptyVersions
<1> QED
  BY <1>2, <1>3, <1>4

(* A coroutine that ends leaves the others as they are. *)
LEMMA ForgetOthers ==
    ASSUME TInv, NEW w \in Workers, Forget(w)
    PROVE  /\ \A v \in Workers : v # w =>
                /\ pc'[v] = pc[v] /\ rest'[v] = rest[v] /\ basis'[v] = basis[v]
                /\ read'[v] = read[v] /\ current'[v] = current[v] /\ beside'[v] = beside[v]
                /\ job'[v] = job[v]
           /\ basis'[w] = {} /\ read'[w] = {} /\ job'[w] = {}
  BY DEF Forget, TInv, TypeOK

LEMMA NextListingOthers ==
    ASSUME TInv, RInv, NEW w \in Workers, pc[w] = "push", NextListing(w)
    PROVE  /\ \A v \in Workers : v # w =>
                /\ pc'[v] = pc[v] /\ rest'[v] = rest[v] /\ basis'[v] = basis[v]
                /\ read'[v] = read[v] /\ current'[v] = current[v] /\ beside'[v] = beside[v]
                /\ job'[v] = job[v]
           /\ basis'[w] = {} /\ read'[w] = {} /\ job'[w] \subseteq job[w]
           /\ job'[w] # {} => beside'[w] = beside[w]
<1>1. CASE Forget(w)
  BY <1>1, ForgetOthers
<1>2. CASE ~Forget(w)
  <2>1. /\ todo' = [todo EXCEPT ![w] = todo[w] \ current[w]]
        /\ current' = [current EXCEPT ![w] = {}]
        /\ basis' = [basis EXCEPT ![w] = {}]
        /\ pc' = [pc EXCEPT ![w] = "listing"]
        /\ UNCHANGED <<job, rest, read, beside>>
    BY <1>2 DEF NextListing
  <2>2. read[w] = {}
    BY DEF RInv, VersionsOf
  <2> QED
    BY <2>1, <2>2 DEF TInv, TypeOK
<1> QED
  BY <1>1, <1>2

(* A task that ends, or goes on, is apart from the others as before. *)
LEMMA StillApart ==
    ASSUME RInv, \A v \in Workers :
              /\ job'[v] \subseteq job[v]
              /\ job'[v] # {} => beside[v] \subseteq beside'[v]
    PROVE  Apart'
  BY DEF RInv, Apart

(* Every step keeps the versions in order. *)
LEMMA RollbackStep == TInv /\ TInv' /\ RInv /\ [Next]_vars => RInv'
<1> SUFFICES ASSUME TInv, TInv', RInv, [Next]_vars
             PROVE  RInv'
  OBVIOUS
<1> USE DEF configVars, marketVars, boundVars
<1>1. ASSUME UNCHANGED <<shown, late>> PROVE \A l \in Listings : Told(l)' = Told(l)
  BY <1>1 DEF Told
<1>2. ASSUME UNCHANGED workerVars, Mono, \A l \in Listings : Told(l)' \subseteq Told(l)
      PROVE  RInv'
  <2>1. ToldVersions'
    BY <1>2, StillTold
  <2>2. Apart'
    BY <1>2, StillApart DEF workerVars
  <2>3. ASSUME NEW v \in Workers PROVE VersionsOf(v)'
    <3>1. \A l \in current[v] \ beside'[v] : Told(l)' \subseteq Told(l)
      BY <1>2, ReadTypes
    <3> QED
      BY <1>2, <3>1, StillVersions DEF workerVars
  <2> QED
    BY <2>1, <2>2, <2>3 DEF RInv
<1>3. ASSUME NEW s \in Skus, OdooChange(s) PROVE RInv'
  <2>1. PICK f \in ({{p} : p \in Products} \union {{}}) \ {product[s].found} :
           product' = [product EXCEPT ![s] = [ver |-> product[s].ver + 1, found |-> f]]
    BY <1>3 DEF OdooChange
  <2>2. Mono
    BY <2>1, ToldType DEF Mono, TInv, TypeOK
  <2>3. UNCHANGED <<workerVars, shown, late>>
    BY <1>3 DEF OdooChange
  <2> QED
    BY <1>1, <1>2, <2>2, <2>3
<1>4. ASSUME NEW s \in Skus, NEW t \in Skus, ConfigSave(s, t) \/ ConfigDelete(s) PROVE RInv'
  <2>1. UNCHANGED <<product, workerVars, shown, late>>
    BY <1>4 DEF ConfigSave, ConfigDelete
  <2> QED
    BY <1>1, <1>2, <2>1, StillMono
<1>5. ASSUME NEW l \in Listings, MappingToggle(l) \/ FlashStart(l) \/ FlashEnd(l) PROVE RInv'
  <2>1. UNCHANGED <<product, workerVars, shown, late>>
    BY <1>5 DEF MappingToggle, FlashStart, FlashEnd
  <2> QED
    BY <1>1, <1>2, <2>1, StillMono
<1>6. ASSUME NEW u \in late, LateArrives(u) PROVE RInv'
  <2>1. u[1] \in Listings /\ shown \in [Listings -> Offers]
    BY DEF TInv, TypeOK
  <2>2. late' \subseteq late /\ UNCHANGED <<product, workerVars>>
        /\ \A l \in Listings : shown'[l] = shown[l] \/ (l = u[1] /\ shown'[l] = u[2])
    BY <1>6, <2>1 DEF LateArrives
  <2>3. \A l \in Listings : Told(l)' \subseteq Told(l)
    BY <2>2 DEF Told
  <2> QED
    BY <1>2, <2>2, <2>3, StillMono
<1>7. CASE SafetyNet
  <2>1. UNCHANGED <<product, workerVars, shown, late>>
    BY <1>7 DEF SafetyNet
  <2> QED
    BY <1>1, <1>2, <2>1, StillMono
<1>8. ASSUME NEW w \in Workers, NEW s \in Skus, Take(w, s) PROVE RInv'
  <2>1. UNCHANGED <<product, shown, late>> /\ pc[w] = "idle"
    BY <1>8 DEF Take
  <2>2. CASE UNCHANGED workerVars
    BY <1>1, <1>2, <2>1, <2>2, StillMono
  <2>3. CASE ~UNCHANGED workerVars
    <3>1. /\ pc' = [pc EXCEPT ![w] = "listing"]
          /\ job' = [job EXCEPT ![w] = {s}]
          /\ beside' = [v \in Workers |-> IF v = w THEN UNION {Meets(u, s) : u \in Workers}
                                          ELSE beside[v] \union Meets(v, s)]
          /\ UNCHANGED <<current, rest, read, basis>>
      BY <1>8, <2>3 DEF Take
    <3>2. Mono /\ \A l \in Listings : Told(l)' = Told(l)
      BY <1>1, <2>1, StillMono
    <3>3. job[w] = {} /\ basis[w] = {} /\ read[w] = {}
      BY <2>1 DEF TInv, Shape, ShapeOf, RInv, VersionsOf
    <3>4. ASSUME NEW v \in Workers PROVE VersionsOf(v)'
      <4>1. CASE v = w
        BY <3>1, <3>3, <4>1, EmptyVersions
      <4>2. CASE v # w
        <5>1. pc'[v] = pc[v] /\ beside[v] \subseteq beside'[v]
          BY <3>1, <4>2 DEF TInv, TypeOK
        <5>2. \A l \in current[v] \ beside'[v] : Told(l)' \subseteq Told(l)
          BY <3>2, ReadTypes
        <5> QED
          BY <3>1, <3>2, <5>1, <5>2, StillVersions
      <4> QED
        BY <4>1, <4>2
    <3>5. ASSUME NEW u \in Workers, NEW v \in Workers, u # v, NEW a \in job'[u], NEW b \in job'[v]
          PROVE  Touched(a) \intersect Touched(b) \subseteq beside'[u]
      <4>1. CASE u = w
        <5>1. a = s /\ b \in job[v] /\ beside'[u] = UNION {Meets(x, s) : x \in Workers}
          BY <3>1, <3>5, <4>1 DEF TInv, TypeOK
        <5>2. Touched(a) \intersect Touched(b) \subseteq Meets(v, s)
          BY <5>1 DEF Meets
        <5> QED
          BY <5>1, <5>2
      <4>2. CASE v = w
        <5>1. b = s /\ a \in job[u] /\ beside'[u] = beside[u] \union Meets(u, s)
          BY <3>1, <3>5, <4>2 DEF TInv, TypeOK
        <5>2. Touched(a) \intersect Touched(b) \subseteq Meets(u, s)
          BY <5>1 DEF Meets
        <5> QED
          BY <5>1, <5>2
      <4>3. CASE u # w /\ v # w
        <5>1. a \in job[u] /\ b \in job[v] /\ beside[u] \subseteq beside'[u]
          BY <3>1, <3>5, <4>3 DEF TInv, TypeOK
        <5> QED
          BY <3>5, <5>1 DEF RInv, Apart
      <4> QED
        BY <4>1, <4>2, <4>3
    <3>6. ToldVersions'
      BY <3>2, StillTold
    <3> QED
      BY <3>4, <3>5, <3>6 DEF RInv, Apart
  <2> QED
    BY <2>2, <2>3
<1>9. ASSUME NEW w \in Workers, NEW l \in Listings, Open(w, l) PROVE RInv'
  <2>1. /\ pc[w] = "listing"
        /\ current' = [current EXCEPT ![w] = {l}]
        /\ \E r : rest' = [rest EXCEPT ![w] = r]
        /\ \E n : pc' = [pc EXCEPT ![w] = n]
        /\ UNCHANGED <<product, shown, late, job, read, basis, beside>>
    BY <1>9 DEF Open
  <2>2. Mono /\ \A k \in Listings : Told(k)' = Told(k)
    BY <1>1, <2>1, StillMono
  <2>3. basis[w] = {} /\ read[w] = {}
    BY <2>1 DEF TInv, Shape, ShapeOf, RInv, VersionsOf
  <2>4. ASSUME NEW v \in Workers PROVE VersionsOf(v)'
    <3>1. CASE v = w
      BY <2>1, <2>3, <3>1, EmptyVersions
    <3>2. CASE v # w
      <4>1. pc'[v] = pc[v] /\ rest'[v] = rest[v] /\ current'[v] = current[v]
        BY <2>1, <3>2 DEF TInv, TypeOK
      <4>2. \A k \in current[v] \ beside'[v] : Told(k)' \subseteq Told(k)
        BY <2>2, ReadTypes
      <4> QED
        BY <2>1, <2>2, <4>1, <4>2, StillVersions
    <3> QED
      BY <3>1, <3>2
  <2>5. ToldVersions' /\ Apart'
    BY <2>1, <2>2, StillTold, StillApart
  <2> QED
    BY <2>4, <2>5 DEF RInv
<1>10. ASSUME NEW w \in Workers, ReadProduct(w) \/ ReadConfig(w) PROVE RInv'
  <2>1. UNCHANGED <<product, shown, late, job, beside>>
    BY <1>10 DEF ReadProduct, ReadConfig
  <2>2. ToldVersions' /\ Apart'
    BY <1>1, <2>1, StillMono, StillTold, StillApart
  <2> QED
    BY <1>10, <2>2, ReadVersions DEF RInv
<1>11. ASSUME NEW w \in Workers, Push(w) \/ PushSkipped(w) \/ PushRefused(w) PROVE RInv'
  <2>1. /\ UNCHANGED <<product, late>>
        /\ UNCHANGED shown \/ \E l \in current[w] : shown' = [shown EXCEPT ![l] = Offer(w)]
        /\ pc[w] = "push"
    BY <1>11 DEF Push, PushSkipped, PushRefused
  <2>2. \A l \in Listings :
           Told(l)' \subseteq Told(l) \union (IF l \in current[w] THEN basis[w] ELSE {})
    <3>1. CASE UNCHANGED shown
      BY <1>1, <2>1, <3>1
    <3>2. ASSUME NEW k \in current[w], shown' = [shown EXCEPT ![k] = Offer(w)], NEW l \in Listings
          PROVE  Told(l)' \subseteq Told(l) \union (IF l \in current[w] THEN basis[w] ELSE {})
      <4>1. shown'[l] = shown[l] \/ (l = k /\ shown'[l].basis = basis[w])
        BY <3>2 DEF TInv, TypeOK, Offer
      <4> QED
        BY <2>1, <3>2, <4>1 DEF Told
    <3> QED
      BY <2>1, <3>1, <3>2
  <2>3. Forget(w) \/ NextListing(w)
    BY <1>11 DEF Push, PushSkipped, PushRefused
  <2>4. ToldVersions' /\ \A v \in Workers : VersionsOf(v)'
    BY <2>1, <2>2, <2>3, ForgetOthers, NextListingOthers, TellVersions
  <2>5. Apart'
    BY <2>1, <2>3, ForgetOthers, NextListingOthers, StillApart
  <2> QED
    BY <2>4, <2>5 DEF RInv
<1>12. ASSUME NEW w \in Workers, Fail(w) \/ Retry(w) \/ Crash(w) PROVE RInv'
  <2>1. /\ UNCHANGED <<product, shown>> /\ Forget(w)
        /\ UNCHANGED late \/ \E l \in current[w] : late' = late \union {<<l, Offer(w)>>}
    BY <1>12 DEF Fail, Retry, Crash, MayArrive
  <2>2. \A l \in Listings :
           Told(l)' \subseteq Told(l) \union (IF l \in current[w] THEN basis[w] ELSE {})
    <3>1. CASE UNCHANGED late
      BY <1>1, <2>1, <3>1
    <3>2. ASSUME NEW k \in current[w], late' = late \union {<<k, Offer(w)>>}, NEW l \in Listings
          PROVE  Told(l)' \subseteq Told(l) \union (IF l \in current[w] THEN basis[w] ELSE {})
      <4>1. \A u \in late' : u \in late \/ (u[1] = k /\ u[2].basis = basis[w])
        BY <3>2 DEF Offer
      <4> QED
        BY <2>1, <3>2, <4>1 DEF Told
    <3> QED
      BY <2>1, <3>1, <3>2
  <2>3. ToldVersions' /\ \A v \in Workers : VersionsOf(v)'
    BY <2>1, <2>2, ForgetOthers, TellVersions
  <2>4. Apart'
    BY <2>1, ForgetOthers, StillApart
  <2> QED
    BY <2>3, <2>4 DEF RInv
<1>13. CASE UNCHANGED vars
  <2>1. UNCHANGED <<product, workerVars, shown, late>>
    BY <1>13 DEF vars
  <2> QED
    BY <1>1, <1>2, <2>1, StillMono
<1> QED
  BY <1>3, <1>4, <1>5, <1>6, <1>7, <1>8, <1>9, <1>10, <1>11, <1>12, <1>13
     DEF Next, World, Work

(* What NoRollback says of one step. *)
Forward ==
    \A l \in Listings :
       shown'[l] # shown[l] /\ late' = late /\ (\A w \in Workers : l \notin beside[w]) =>
          \A x \in shown[l].basis, y \in shown'[l].basis :
             x.sku = y.sku => x.product.ver <= y.product.ver

LEMMA ForwardStep == TInv /\ RInv /\ [Next]_vars => Forward
<1> SUFFICES ASSUME TInv, RInv, [Next]_vars, NEW l \in Listings, shown'[l] # shown[l],
                    late' = late, \A w \in Workers : l \notin beside[w],
                    NEW x \in shown[l].basis, NEW y \in shown'[l].basis, x.sku = y.sku
             PROVE  x.product.ver <= y.product.ver
  BY DEF Forward
<1>1. \A u \in late : ~LateArrives(u)
  BY DEF LateArrives
<1>2. PICK w \in Workers : Push(w)
  BY <1>1 DEF Next, World, Work, vars, marketVars, OdooChange, ConfigSave, ConfigDelete,
     MappingToggle, FlashStart, FlashEnd, SafetyNet, Take, Open, ReadProduct, ReadConfig,
     PushSkipped, PushRefused, Fail, Retry, Crash
<1>3. PICK k \in current[w] : shown' = [shown EXCEPT ![k] = Offer(w)]
  BY <1>2 DEF Push, marketVars
<1>4. l = k /\ shown'[l].basis = basis[w]
  BY <1>3 DEF TInv, TypeOK, Offer
<1>5. x \in Told(l) /\ l \in current[w] \ beside[w]
  BY <1>3, <1>4 DEF Told
<1> QED
  BY <1>4, <1>5 DEF RInv, VersionsOf

(* No push of a task that had the listing to itself takes Shopee back to   *)
(* an older state of a product, whatever failed, was retried, delivered    *)
(* again or came late before it.                                           *)
THEOREM NoRollbackAlways == Spec => NoRollback
<1>1. TInv /\ RInv /\ [Next]_vars => [Forward]_vars
  BY ForwardStep
<1>2. Init => RInv
  BY RollbackInit
<1>3. TInv /\ TInv' /\ RInv /\ [Next]_vars => RInv'
  BY RollbackStep
<1>4. Spec => [][Forward]_vars
  BY TypeInvariant, <1>1, <1>2, <1>3, PTL DEF Spec
<1> QED
  BY <1>4 DEF NoRollback, Forward

=============================================================================
