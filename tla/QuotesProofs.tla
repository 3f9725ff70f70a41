----------------------------- MODULE QuotesProofs -----------------------------
(***************************************************************************)
(* What Quotes promises of every catalogue: arithmetic first, then what a  *)
(* quote takes off, then the steps.                                        *)
(***************************************************************************)
EXTENDS Quotes, WellFoundedInduction, TLAPS

-----------------------------------------------------------------------------
(* Arithmetic *)

\* A set of naturals that is not empty has a least element.
LEMMA LeastNat ==
  ASSUME NEW S \in SUBSET Nat, S # {}
  PROVE  \E x \in S : \A y \in S : x <= y
<1>1. PICK x \in S : \A y \in S : ~ (<<y, x>> \in OpToRel(<, Nat))
  BY WFMin, NatLessThanWellFounded
<1>2. \A y \in S : ~ (y < x)
  BY <1>1 DEF OpToRel
<1> QED BY <1>2

\* A set of integers that is not empty and bounded above has a greatest one.
LEMMA MostExists ==
  ASSUME NEW S \in SUBSET Int, S # {}, NEW bound \in Int, \A x \in S : x <= bound
  PROVE  Most(S) \in S /\ \A y \in S : y <= Most(S)
<1> DEFINE gaps == {bound - x : x \in S}
<1>1. gaps \in SUBSET Nat /\ gaps # {}
  <2>1. \A x \in S : x \in Int /\ x <= bound
    OBVIOUS
  <2>2. \A x \in S : bound - x \in Nat
    BY <2>1
  <2>3. PICK x \in S : TRUE
    OBVIOUS
  <2>4. bound - x \in gaps
    BY <2>3
  <2> QED BY <2>2, <2>4
<1>2. PICK gap \in gaps : \A other \in gaps : gap <= other
  BY <1>1, LeastNat
<1>3. PICK x \in S : gap = bound - x
  BY <1>2
<1>4. \A y \in S : bound - x <= bound - y
  BY <1>2, <1>3
<1>5. \A y \in S : y <= x
  BY <1>3, <1>4
<1> QED BY <1>3, <1>5 DEF Most

\* A quotient brackets what it divides.
LEMMA Quotient ==
  ASSUME NEW a \in Int, NEW s \in Nat \ {0}
  PROVE  /\ a \div s \in Int
         /\ (a \div s) * s <= a /\ a < (a \div s) * s + s
  BY Z3

LEMMA RoundedDown ==
  ASSUME NEW a \in Nat, NEW s \in Nat \ {0}
  PROVE  Rounded(a, s) \in Nat /\ Rounded(a, s) <= a /\ a < Rounded(a, s) + s
  BY Quotient, Z3 DEF Rounded

\* Dividing and rounding keep the order of amounts.
LEMMA QuotientInOrder ==
  ASSUME NEW a \in Int, NEW b \in Int, a <= b, NEW s \in Nat \ {0}
  PROVE  a \div s <= b \div s
<1> DEFINE q == a \div s
           r == b \div s
<1>1. q \in Int /\ r \in Int /\ q * s <= a /\ b < r * s + s
  BY Quotient
<1>2. SUFFICES ASSUME q > r PROVE FALSE
  BY <1>1
<1> HIDE DEF q, r
<1>3. q * s >= (r + 1) * s
  BY <1>1, <1>2, Z3
<1>4. (r + 1) * s = r * s + s
  BY <1>1, Z3
<1> QED BY <1>1, <1>3, <1>4

LEMMA RoundedInOrder ==
  ASSUME NEW a \in Nat, NEW b \in Nat, a <= b, NEW s \in Nat \ {0}
  PROVE  Rounded(a, s) <= Rounded(b, s)
<1> DEFINE q == a \div s
           r == b \div s
<1>1. q \in Int /\ r \in Int /\ q <= r
  BY Quotient, QuotientInOrder
<1> HIDE DEF q, r
<1>2. q * s <= r * s
  BY <1>1, Z3
<1> QED BY <1>2 DEF Rounded, q, r

\* A share of an amount is an amount.
LEMMA ShareNat ==
  ASSUME NEW a \in Nat, NEW points \in Nat
  PROVE  Share(a, points) \in Nat
<1>1. a * points \in Nat
  BY Z3
<1> QED BY <1>1, Quotient DEF Share

\* A discount takes off no more than there is.
LEMMA OffBounded ==
  ASSUME NEW discount \in Discount, NEW subtotal \in Nat
  PROVE  Off(discount, subtotal) \in 0 .. subtotal
<1> DEFINE raw == IF discount.percent THEN Share(subtotal, discount.value) ELSE discount.value
           capped == IF discount.cap # None /\ raw > discount.cap THEN discount.cap ELSE raw
<1>1. discount.value \in Nat /\ discount.cap \in Nat \cup {None}
  BY DEF Discount
<1>2. raw \in Nat
  BY <1>1, ShareNat
<1>3. capped \in Nat
  BY <1>1, <1>2
<1>4. Off(discount, subtotal) = Lesser(capped, subtotal)
  BY DEF Off
<1> HIDE DEF capped
<1> QED BY <1>3, <1>4 DEF Lesser

-----------------------------------------------------------------------------
(* Prices and volumes *)

LEMMA PriceBounded ==
  ASSUME TypeOK, NEW shop \in Shop, NEW p \in Package
  PROVE  PriceOf(p, shop) \in 0 .. MaxAmount /\ PriceOf(p, shop) \in Nat
<1>1. plan[p].list \in Amount /\ retail[p] \in Tariff \cup {None}
  BY DEF TypeOK, Row
<1> QED BY <1>1, CatalogueAssumption DEF PriceOf

LEMMA VolumeNat ==
  ASSUME NEW p \in Package
  PROVE  Volume[p] \in Nat \ {0}
  BY CatalogueAssumption

LEMMA DearestIs ==
  ASSUME TypeOK, NEW shop \in Shop, NEW volume \in Nat, UpTo(volume) # {}
  PROVE  /\ Dearest(volume, shop) \in Nat
         /\ \A p \in UpTo(volume) : PriceOf(p, shop) <= Dearest(volume, shop)
<1> DEFINE prices == {PriceOf(p, shop) : p \in UpTo(volume)}
<1>1. \A x \in prices : x \in Nat /\ x <= MaxAmount
  BY PriceBounded, CatalogueAssumption DEF UpTo, OnSale
<1>2. prices # {} /\ prices \in SUBSET Int /\ MaxAmount \in Int
  BY <1>1, CatalogueAssumption
<1>3. Most(prices) \in prices /\ \A x \in prices : x <= Most(prices)
  <2> HIDE DEF prices
  <2> QED BY <1>1, <1>2, MostExists
<1>4. Dearest(volume, shop) = Most(prices)
  BY DEF Dearest
<1> QED BY <1>1, <1>3, <1>4

LEMMA BelowIs ==
  ASSUME NEW volume \in Nat, UpTo(volume) # {}
  PROVE  /\ Below(volume) \in UpTo(volume)
         /\ \A p \in UpTo(volume) : Volume[p] <= Volume[Below(volume)]
<1> DEFINE volumes == {Volume[p] : p \in UpTo(volume)}
<1>1. volumes \in SUBSET Int /\ volumes # {} /\ \A x \in volumes : x <= volume
  BY VolumeNat DEF UpTo, OnSale
<1>2. Most(volumes) \in volumes /\ \A x \in volumes : x <= Most(volumes)
  <2> HIDE DEF volumes
  <2> QED BY <1>1, MostExists
<1>3. PICK p \in UpTo(volume) : Volume[p] = Most(volumes)
  BY <1>2
<1>4. \A other \in UpTo(volume) : Volume[other] <= Volume[p]
  BY <1>2, <1>3
<1> QED BY <1>4 DEF Below

LEMMA AboveIs ==
  ASSUME NEW volume \in Nat, From(volume) # {}
  PROVE  /\ Above(volume) \in From(volume)
         /\ \A p \in From(volume) : Volume[Above(volume)] <= Volume[p]
<1> DEFINE volumes == {Volume[p] : p \in From(volume)}
<1>1. volumes \in SUBSET Nat /\ volumes # {}
  BY VolumeNat DEF From, OnSale
<1>2. PICK least \in volumes : \A x \in volumes : least <= x
  BY <1>1, LeastNat
<1>3. PICK p \in From(volume) : Volume[p] = least
  BY <1>2
<1>4. \A other \in From(volume) : Volume[p] <= Volume[other]
  BY <1>2, <1>3
<1> QED BY <1>4 DEF Above

\* Where the line has two ends, what they and the volume are.
LEMMA Ends ==
  ASSUME NEW volume \in Nat, UpTo(volume) # {}, From(volume) # {},
         Volume[Above(volume)] # Volume[Below(volume)]
  PROVE  /\ Above(volume) \in Package /\ Below(volume) \in Package
         /\ volume - Volume[Below(volume)] \in Nat
         /\ Volume[Above(volume)] - Volume[Below(volume)] \in Nat \ {0}
         /\ volume <= Volume[Above(volume)]
<1>1. Above(volume) \in From(volume) /\ Below(volume) \in UpTo(volume)
  BY AboveIs, BelowIs
<1>2. /\ Above(volume) \in Package /\ Below(volume) \in Package
      /\ Volume[Below(volume)] <= volume /\ volume <= Volume[Above(volume)]
  BY <1>1 DEF From, UpTo, OnSale
<1>3. Volume[Below(volume)] \in Nat /\ Volume[Above(volume)] \in Nat
  BY <1>2, VolumeNat
<1> QED BY <1>2, <1>3

-----------------------------------------------------------------------------
(* The price of a volume *)

\* The line from one price to another, a part of the way along it.
Along(start, stop, past, span) ==
  Rounded(Greater(0, start + ((stop - start) * past) \div span), Thousand)

\* The line stays below its higher end.
LEMMA AlongBounded ==
  ASSUME NEW start \in Nat, NEW stop \in Nat, NEW span \in Nat \ {0},
         NEW past \in Nat, past <= span
  PROVE  /\ Along(start, stop, past, span) \in Nat
         /\ Along(start, stop, past, span) <= Greater(start, stop)
<1> DEFINE way == (stop - start) * past
           risen == start + way \div span
<1>0. way \in Int
  BY Z3
<1>1. way \div span \in Int /\ (way \div span) * span <= way
  BY <1>0, Quotient
<1>2. way \div span <= Greater(start, stop) - start
  <2>1. CASE stop <= start
    <3>1. way <= 0
      BY <2>1, Z3
    <3>2. way \div span <= 0 \div span
      BY <1>0, <3>1, QuotientInOrder
    <3>3. 0 \div span = 0
      BY Z3
    <3> QED BY <2>1, <3>2, <3>3, <1>1 DEF Greater
  <2>2. CASE stop > start
    <3>1. way <= (stop - start) * span
      BY <2>2, Z3
    <3>2. (stop - start) * span \in Int
      BY Z3
    <3>3. way \div span <= ((stop - start) * span) \div span
      BY <1>0, <3>1, <3>2, QuotientInOrder
    <3>4. ((stop - start) * span) \div span = stop - start
      BY Z3
    <3> QED BY <2>2, <3>3, <3>4, <1>1 DEF Greater
  <2> QED BY <2>1, <2>2
<1> HIDE DEF way
<1>3. Greater(0, risen) \in Nat /\ Greater(0, risen) <= Greater(start, stop)
  BY <1>1, <1>2 DEF Greater
<1>4. /\ Rounded(Greater(0, risen), Thousand) \in Nat
      /\ Rounded(Greater(0, risen), Thousand) <= Greater(0, risen)
  BY <1>3, RoundedDown, CatalogueAssumption
<1>5. Along(start, stop, past, span) = Rounded(Greater(0, risen), Thousand)
  BY DEF Along, way
<1> HIDE DEF risen
<1>6. Greater(0, risen) \in Int /\ Greater(start, stop) \in Int
  BY <1>3 DEF Greater
<1> QED BY <1>3, <1>4, <1>5, <1>6

\* On a rising line further on is no cheaper.
LEMMA AlongInOrder ==
  ASSUME NEW start \in Nat, NEW stop \in Nat, start <= stop, NEW span \in Nat \ {0},
         NEW past \in Nat, NEW further \in Nat, past <= further
  PROVE  Along(start, stop, past, span) <= Along(start, stop, further, span)
<1> DEFINE near == ((stop - start) * past) \div span
           far == ((stop - start) * further) \div span
<1>1. /\ (stop - start) * past \in Int /\ (stop - start) * further \in Int
      /\ (stop - start) * past <= (stop - start) * further
  BY Z3
<1>2. near \in Int /\ far \in Int /\ near <= far
  BY <1>1, Quotient, QuotientInOrder
<1> HIDE DEF near, far
<1>3. /\ Greater(0, start + near) \in Nat /\ Greater(0, start + far) \in Nat
      /\ Greater(0, start + near) <= Greater(0, start + far)
  BY <1>2 DEF Greater
<1>4. Rounded(Greater(0, start + near), Thousand) <= Rounded(Greater(0, start + far), Thousand)
  BY <1>3, RoundedInOrder, CatalogueAssumption
<1> QED BY <1>4 DEF Along, near, far

\* Past the largest package the price follows its rate.
LEMMA RateInOrder ==
  ASSUME NEW start \in Nat, NEW v \in Nat, NEW w \in Nat, v <= w, NEW size \in Nat \ {0}
  PROVE  /\ Rounded((start * v) \div size, Thousand) \in Nat
         /\ Rounded((start * v) \div size, Thousand) <= Rounded((start * w) \div size, Thousand)
<1>1. start * v \in Nat /\ start * w \in Nat /\ start * v <= start * w
  BY Z3
<1>2. (start * v) \div size \in Int /\ (start * w) \div size \in Int
  BY <1>1, Quotient
<1>3. (start * v) \div size <= (start * w) \div size
  BY <1>1, QuotientInOrder
<1>4. 0 \div size = 0 /\ 0 \div size <= (start * v) \div size
  BY <1>1, QuotientInOrder, Z3
<1>5. (start * v) \div size \in Nat /\ (start * w) \div size \in Nat
  BY <1>2, <1>3, <1>4
<1> QED BY <1>3, <1>5, RoundedDown, RoundedInOrder, CatalogueAssumption

LEMMA OnTheLineIs ==
  ASSUME TypeOK, NEW shop \in Shop, NEW volume \in Nat, UpTo(volume) # {}
  PROVE  /\ OnTheLine(volume, shop) \in Nat
         /\ From(volume) # {} =>
              OnTheLine(volume, shop) =
                IF Volume[Above(volume)] = Volume[Below(volume)]
                THEN PriceOf(Below(volume), shop)
                ELSE Along(PriceOf(Below(volume), shop), PriceOf(Above(volume), shop),
                           volume - Volume[Below(volume)],
                           Volume[Above(volume)] - Volume[Below(volume)])
<1>1. Below(volume) \in Package
  BY BelowIs DEF UpTo, OnSale
<1>2. PriceOf(Below(volume), shop) \in Nat /\ Volume[Below(volume)] \in Nat \ {0}
  BY <1>1, PriceBounded, VolumeNat
<1>3. CASE From(volume) = {}
  <2>1. Rounded((PriceOf(Below(volume), shop) * volume) \div Volume[Below(volume)], Thousand) \in Nat
    <3> DEFINE start == PriceOf(Below(volume), shop)
               size == Volume[Below(volume)]
    <3>1. start \in Nat /\ size \in Nat \ {0} /\ volume <= volume
      BY <1>2
    <3> HIDE DEF start, size
    <3>2. Rounded((start * volume) \div size, Thousand) \in Nat
      BY <3>1, RateInOrder
    <3> QED BY <3>2 DEF start, size
  <2> QED BY <1>3, <2>1 DEF OnTheLine
<1>4. CASE From(volume) # {} /\ Volume[Above(volume)] = Volume[Below(volume)]
  BY <1>2, <1>4 DEF OnTheLine
<1>5. CASE From(volume) # {} /\ Volume[Above(volume)] # Volume[Below(volume)]
  <2>1. PriceOf(Above(volume), shop) \in Nat
    BY <1>5, Ends, PriceBounded
  <2>2. volume - Volume[Below(volume)] <= Volume[Above(volume)] - Volume[Below(volume)]
    <3>1. Volume[Above(volume)] \in Nat
      BY <1>5, Ends, VolumeNat
    <3> QED BY <1>2, <1>5, <3>1, Ends
  <2>3. OnTheLine(volume, shop) =
          Along(PriceOf(Below(volume), shop), PriceOf(Above(volume), shop),
                volume - Volume[Below(volume)],
                Volume[Above(volume)] - Volume[Below(volume)])
    BY <1>5 DEF OnTheLine, Along
  <2> DEFINE past == volume - Volume[Below(volume)]
             span == Volume[Above(volume)] - Volume[Below(volume)]
  <2>4. past \in Nat /\ span \in Nat \ {0} /\ past <= span
    BY <1>5, <2>2, Ends
  <2> HIDE DEF past, span
  <2>5. Along(PriceOf(Below(volume), shop), PriceOf(Above(volume), shop), past, span) \in Nat
    BY <1>2, <2>1, <2>4, AlongBounded
  <2> QED BY <1>5, <2>3, <2>5 DEF past, span
<1> QED BY <1>3, <1>4, <1>5

LEMMA VolumePriceNat ==
  ASSUME TypeOK, NEW shop \in Shop, NEW volume \in Nat, UpTo(volume) # {}
  PROVE  /\ PriceForVolume(volume, shop) \in Nat
         /\ Dearest(volume, shop) <= PriceForVolume(volume, shop)
         /\ OnTheLine(volume, shop) <= PriceForVolume(volume, shop)
  BY OnTheLineIs, DearestIs DEF PriceForVolume, Greater

\* With no package between two volumes, they lie on the same line.
LEMMA SameEnds ==
  ASSUME NEW v \in Nat, NEW w \in Nat, v <= w,
         \A p \in OnSale : Volume[p] >= v => Volume[p] > w
  PROVE  UpTo(v) = UpTo(w) /\ From(v) \subseteq From(w)
<1>1. \A p \in OnSale : Volume[p] \in Nat
  BY VolumeNat DEF OnSale
<1> QED BY <1>1 DEF UpTo, From

LEMMA LineInOrder ==
  ASSUME TypeOK, NEW shop \in Shop, NEW v \in Nat, NEW w \in Nat, v <= w,
         UpTo(v) # {}, UpTo(w) # {}
  PROVE  OnTheLine(v, shop) <= PriceForVolume(w, shop)
<1> DEFINE low == Below(v)
           high == Above(v)
<1>1. low \in UpTo(v) /\ low \in Package
  BY BelowIs DEF UpTo, OnSale
<1>2. \A p \in OnSale : Volume[p] \in Nat \ {0} /\ PriceOf(p, shop) \in Nat
  BY VolumeNat, PriceBounded DEF OnSale
<1>3. UpTo(v) \subseteq UpTo(w) /\ UpTo(w) \subseteq OnSale /\ From(v) \subseteq OnSale
      /\ From(w) \subseteq From(v)
  BY <1>2 DEF UpTo, From
<1>4. /\ Dearest(w, shop) \in Nat /\ PriceForVolume(w, shop) \in Nat
      /\ Dearest(w, shop) <= PriceForVolume(w, shop)
      /\ OnTheLine(w, shop) <= PriceForVolume(w, shop)
      /\ OnTheLine(w, shop) \in Nat /\ OnTheLine(v, shop) \in Nat
      /\ \A p \in UpTo(w) : PriceOf(p, shop) <= Dearest(w, shop)
  BY DearestIs, VolumePriceNat, OnTheLineIs
<1>5. PriceOf(low, shop) \in Nat /\ PriceOf(low, shop) <= Dearest(w, shop)
      /\ Volume[low] \in Nat \ {0}
  BY <1>1, <1>2, <1>3, <1>4
<1>6. CASE From(v) = {}
  <2>1. From(w) = {} /\ UpTo(v) = UpTo(w)
    BY <1>2, <1>3, <1>6 DEF UpTo, From
  <2>2. Below(w) = low
    BY <2>1 DEF Below
  <2> DEFINE start == PriceOf(low, shop)
             size == Volume[low]
  <2>3. /\ OnTheLine(v, shop) = Rounded((start * v) \div size, Thousand)
        /\ OnTheLine(w, shop) = Rounded((start * w) \div size, Thousand)
    BY <1>6, <2>1, <2>2 DEF OnTheLine
  <2>4. start \in Nat /\ size \in Nat \ {0}
    BY <1>5
  <2> HIDE DEF start, size
  <2>5. Rounded((start * v) \div size, Thousand) <= Rounded((start * w) \div size, Thousand)
    BY <2>4, RateInOrder
  <2> QED BY <1>4, <2>3, <2>5
<1>7. CASE From(v) # {} /\ Volume[high] = Volume[low]
  BY <1>4, <1>5, <1>7, OnTheLineIs
<1>8. CASE From(v) # {} /\ Volume[high] # Volume[low]
  <2>1. /\ high \in From(v) /\ high \in OnSale /\ PriceOf(high, shop) \in Nat
        /\ \A p \in From(v) : Volume[high] <= Volume[p]
    BY <1>2, <1>3, <1>8, AboveIs
  <2> DEFINE past == v - Volume[low]
             span == Volume[high] - Volume[low]
  <2>2. past \in Nat /\ span \in Nat \ {0} /\ past <= span /\ v <= Volume[high]
        /\ Volume[high] \in Nat
    BY <1>2, <1>5, <1>8, <2>1, Ends
  <2>3. OnTheLine(v, shop) = Along(PriceOf(low, shop), PriceOf(high, shop), past, span)
    BY <1>8, OnTheLineIs
  <2>4. OnTheLine(v, shop) <= Greater(PriceOf(low, shop), PriceOf(high, shop))
    <3> HIDE DEF past, span, low, high
    <3> QED BY <1>5, <2>1, <2>2, <2>3, AlongBounded
  <2>5. CASE Volume[high] <= w
    <3>1. PriceOf(high, shop) <= Dearest(w, shop)
      BY <1>4, <2>1, <2>5 DEF UpTo
    <3> QED BY <1>4, <1>5, <2>1, <2>4, <3>1 DEF Greater
  <2>6. CASE PriceOf(high, shop) <= PriceOf(low, shop)
    BY <1>4, <1>5, <2>1, <2>4, <2>6 DEF Greater
  <2>7. CASE Volume[high] > w /\ PriceOf(low, shop) <= PriceOf(high, shop)
    <3>1. \A p \in OnSale : Volume[p] >= v => Volume[p] > w
      BY <1>2, <2>1, <2>2, <2>7 DEF From
    <3>2. UpTo(v) = UpTo(w) /\ From(v) = From(w)
      BY <1>3, <3>1, SameEnds
    <3>3. Below(w) = low /\ Above(w) = high
      BY <3>2 DEF Below, Above
    <3> DEFINE further == w - Volume[low]
    <3>4. OnTheLine(w, shop) = Along(PriceOf(low, shop), PriceOf(high, shop), further, span)
      BY <1>8, <3>2, <3>3, OnTheLineIs
    <3>5. further \in Nat /\ past <= further
      BY <1>5, <2>2
    <3>6. Along(PriceOf(low, shop), PriceOf(high, shop), past, span)
            <= Along(PriceOf(low, shop), PriceOf(high, shop), further, span)
      <4> HIDE DEF past, span, further, low, high
      <4> QED BY <1>5, <2>1, <2>2, <2>7, <3>5, AlongInOrder
    <3> QED BY <1>4, <2>3, <3>4, <3>6
  <2> QED BY <1>5, <2>1, <2>2, <2>5, <2>6, <2>7
<1> QED BY <1>6, <1>7, <1>8

LEMMA VolumesInOrder ==
  TypeOK => BiggerNeverCheaper
<1> SUFFICES ASSUME TypeOK, NEW shop \in Shop, NEW v \in Asked, NEW w \in Asked, v <= w,
                    Sellable(v), Sellable(w)
             PROVE  PriceForVolume(v, shop) <= PriceForVolume(w, shop)
  BY DEF BiggerNeverCheaper
<1>1. v \in Nat /\ w \in Nat /\ UpTo(v) # {} /\ UpTo(w) # {}
  BY CatalogueAssumption DEF Sellable
<1>2. OnTheLine(v, shop) <= PriceForVolume(w, shop)
  BY <1>1, LineInOrder
<1>3. UpTo(v) \subseteq UpTo(w)
  BY <1>1, VolumeNat DEF UpTo, OnSale
<1>4. Dearest(v, shop) <= Dearest(w, shop)
  <2> DEFINE prices == {PriceOf(p, shop) : p \in UpTo(v)}
  <2>1. PICK p \in UpTo(v) : Dearest(v, shop) = PriceOf(p, shop)
    <3>1. prices # {} /\ prices \in SUBSET Int /\ MaxAmount \in Int
          /\ \A x \in prices : x <= MaxAmount
      BY <1>1, PriceBounded, CatalogueAssumption DEF UpTo, OnSale
    <3>2. Most(prices) \in prices
      <4> HIDE DEF prices
      <4> QED BY <3>1, MostExists
    <3> QED BY <3>2 DEF Dearest
  <2> QED BY <1>1, <1>3, <2>1, DearestIs
<1>5. Dearest(w, shop) <= PriceForVolume(w, shop)
      /\ Dearest(w, shop) \in Nat /\ Dearest(v, shop) \in Nat /\ PriceForVolume(w, shop) \in Nat
  BY <1>1, DearestIs, VolumePriceNat
<1> QED BY <1>2, <1>4, <1>5 DEF PriceForVolume, Greater

-----------------------------------------------------------------------------
(* The quote *)

Item == [plan : Package, floor : Nat, base : Nat]

\* What can be priced has a package, a floor and a base; in the platform's own
\* shop the floor is not above the base.
LEMMA ItemSound ==
  ASSUME TypeOK, NEW shop \in Shop, NEW item \in Items(shop)
  PROVE  item \in Item /\ (shop = "own" => item.floor <= item.base)
<1>1. \A p \in Package : /\ plan[p].list \in Nat /\ plan[p].floor \in Nat
                         /\ plan[p].floor <= plan[p].list
  <2>1. \A x \in Amount : x \in Nat
    BY CatalogueAssumption
  <2>2. \A p \in Package : plan[p] \in Row /\ plan[p].floor <= plan[p].list
    BY DEF TypeOK
  <2>3. \A row \in Row : row.list \in Amount /\ row.floor \in Amount
    BY DEF Row
  <2> QED BY <2>1, <2>2, <2>3
<1>2. CASE item \in {Stored(p, shop) : p \in OnSale}
  <2>1. PICK p \in OnSale : item = Stored(p, shop)
    BY <1>2
  <2>2. p \in Package
    BY <2>1 DEF OnSale
  <2>3. item = [plan |-> p, floor |-> plan[p].floor, base |-> PriceOf(p, shop)]
    BY <2>1 DEF Stored
  <2>4. shop = "own" => PriceOf(p, shop) = plan[p].list
    BY DEF PriceOf
  <2> QED BY <1>1, <2>2, <2>3, <2>4, PriceBounded DEF Item
<1>3. CASE item \in {Custom(volume, shop) : volume \in {v \in Asked : Sellable(v)}}
  <2>1. PICK volume \in Asked : Sellable(volume) /\ item = Custom(volume, shop)
    BY <1>3
  <2>2. volume \in Nat /\ UpTo(volume) # {}
    BY <2>1, CatalogueAssumption DEF Sellable
  <2>3. Below(volume) \in Package
    BY <2>2, BelowIs DEF UpTo, OnSale
  <2>4. PriceForVolume(volume, shop) \in Nat
    BY <2>2, VolumePriceNat
  <2>5. item = [plan |-> Below(volume),
                floor |-> Lesser(plan[Below(volume)].floor, PriceForVolume(volume, shop)),
                base |-> PriceForVolume(volume, shop)]
    BY <2>1 DEF Custom
  <2>6. /\ Lesser(plan[Below(volume)].floor, PriceForVolume(volume, shop)) \in Nat
        /\ Lesser(plan[Below(volume)].floor, PriceForVolume(volume, shop))
             <= PriceForVolume(volume, shop)
    BY <1>1, <2>3, <2>4 DEF Lesser
  <2> QED BY <2>3, <2>4, <2>5, <2>6 DEF Item
<1> QED BY <1>2, <1>3 DEF Items

\* A campaign takes off no more than there is.
LEMMA CampaignBounded ==
  ASSUME TypeOK, NEW item \in Item
  PROVE  ByCampaign(item) \in 0 .. item.base
<1>0. item.base \in Nat
  BY DEF Item
<1>1. CASE Applying(item) = {}
  BY <1>0, <1>1 DEF ByCampaign
<1>2. CASE Applying(item) # {}
  <2> DEFINE priorities == {Offer[c].priority : c \in Applying(item)}
             offs == {Off(Offer[c].discount, item.base) : c \in Foremost(item)}
  <2>1. \A c \in Applying(item) : /\ Offer[c].priority \in Int /\ Offer[c].priority <= Urgency
                                  /\ Offer[c].discount \in Discount
    BY TermsAssumption DEF TypeOK, Applying
  <2>2. priorities \in SUBSET Int /\ priorities # {} /\ Urgency \in Int
        /\ \A x \in priorities : x <= Urgency
    BY <1>2, <2>1, TermsAssumption
  <2>3. Most(priorities) \in priorities /\ \A x \in priorities : x <= Most(priorities)
    <3> HIDE DEF priorities
    <3> QED BY <2>2, MostExists
  <2>4. PICK c \in Applying(item) : Offer[c].priority = Most(priorities)
    BY <2>3
  <2>5. c \in Foremost(item)
    BY <2>3, <2>4 DEF Foremost
  <2>6. \A x \in offs : x \in 0 .. item.base
    BY <1>0, <2>1, OffBounded DEF Foremost
  <2>7. offs \in SUBSET Int /\ offs # {} /\ \A x \in offs : x <= item.base
    BY <1>0, <2>5, <2>6
  <2>8. Most(offs) \in offs
    <3> DEFINE bound == item.base
    <3>1. bound \in Int /\ \A x \in offs : x <= bound
      BY <1>0, <2>7
    <3> HIDE DEF offs, bound
    <3> QED BY <2>7, <3>1, MostExists
  <2> QED BY <1>2, <2>6, <2>8 DEF ByCampaign
<1> QED BY <1>1, <1>2

\* A code only adds to what a campaign gives.
LEMMA CodeAdds ==
  ASSUME TypeOK, NEW item \in Item, NEW code \in Code \cup {None}
  PROVE  /\ Given(item, code) \in Nat /\ Given(item, None) \in Nat
         /\ Given(item, None) <= Given(item, code)
<1> DEFINE campaign == ByCampaign(item)
<1>0. item.base \in Nat
  BY DEF Item
<1>1. campaign \in Nat /\ campaign <= item.base
  BY <1>0, CampaignBounded
<1>2. Given(item, None) = campaign
  BY DEF Given
<1>3. CASE code = None
  BY <1>1, <1>2, <1>3
<1>4. CASE code \in Code
  <2>1. code # None /\ Terms[code].discount \in Discount
    BY <1>4, CatalogueAssumption, TermsAssumption
  <2> DEFINE after == Off(Terms[code].discount, Minus(item.base, campaign))
             alone == Off(Terms[code].discount, item.base)
  <2>2. Minus(item.base, campaign) \in Nat
    BY <1>0, <1>1 DEF Minus, Greater
  <2>3. after \in Nat /\ alone \in Nat
    BY <1>0, <2>1, <2>2, OffBounded
  <2>4. Given(item, code) = campaign + after \/ Given(item, code) = Greater(campaign, alone)
    BY <2>1 DEF Given, Together
  <2> HIDE DEF after, alone, campaign
  <2>5. /\ campaign + after \in Nat /\ campaign <= campaign + after
        /\ Greater(campaign, alone) \in Nat /\ campaign <= Greater(campaign, alone)
    BY <1>1, <2>3 DEF Greater
  <2> QED BY <1>1, <1>2, <2>4, <2>5
<1> QED BY <1>3, <1>4

LEMMA PolicySound ==
  ASSUME TypeOK
  PROVE  rules.ceiling \in Nat /\ rules.step \in Nat \ {0}
<1>1. rules \in Rules
  BY DEF TypeOK
<1>2. \A policy \in Rules : policy.ceiling \in Nat /\ policy.step \in Nat \ {0}
  BY TermsAssumption
<1> QED BY <1>1, <1>2

\* What is left of the base after the ceiling, with a code and without.
LEMMA DiscountedIs ==
  ASSUME TypeOK, NEW item \in Item, NEW code \in Code \cup {None}
  PROVE  /\ Ceiling(item) \in Nat
         /\ Discounted(item, code) \in Nat /\ Discounted(item, None) \in Nat
         /\ Discounted(item, code) <= Discounted(item, None)
         /\ Discounted(item, code) <= item.base
         /\ item.base - Discounted(item, code) <= Ceiling(item)
<1>1. item.base \in Nat
  BY DEF Item
<1>2. rules.ceiling \in Nat
  BY PolicySound
<1>3. Ceiling(item) \in Nat
  BY <1>1, <1>2, ShareNat DEF Ceiling
<1>4. /\ Given(item, code) \in Nat /\ Given(item, None) \in Nat
      /\ Given(item, None) <= Given(item, code)
  BY CodeAdds
<1> QED BY <1>1, <1>3, <1>4 DEF Discounted, Minus, Lesser, Greater

\* The total of an accepted quote, against its floor, its ceiling and the
\* total without the code.
LEMMA TotalIs ==
  ASSUME TypeOK, NEW item \in Item, NEW code \in Code \cup {None},
         code # None => Discounted(item, code) >= item.floor
  PROVE  /\ Total(item, code) \in Nat /\ Total(item, None) \in Nat
         /\ Total(item, code) <= Total(item, None)
         /\ Total(item, code) + rules.step > item.floor
         /\ item.base - Total(item, code) < Ceiling(item) + rules.step
         /\ item.floor <= item.base => Total(item, code) <= item.base
<1>1. item.base \in Nat /\ item.floor \in Nat /\ rules.step \in Nat \ {0}
  BY PolicySound DEF Item
<1> DEFINE due == Greater(Discounted(item, code), item.floor)
           plain == Greater(Discounted(item, None), item.floor)
<1>2. /\ due \in Nat /\ plain \in Nat /\ due <= plain /\ due >= item.floor
      /\ item.base - due <= Ceiling(item) /\ Ceiling(item) \in Nat
      /\ item.floor <= item.base => due <= item.base
  <2>1. /\ Discounted(item, code) \in Nat /\ Discounted(item, None) \in Nat
        /\ Discounted(item, code) <= Discounted(item, None)
        /\ Discounted(item, code) <= item.base
        /\ item.base - Discounted(item, code) <= Ceiling(item) /\ Ceiling(item) \in Nat
    BY DiscountedIs
  <2> QED BY <1>1, <2>1 DEF Greater
<1>3. Total(item, code) = Rounded(due, rules.step) /\ Total(item, None) = Rounded(plain, rules.step)
  BY DEF Total
<1> HIDE DEF due, plain
<1>4. /\ Rounded(due, rules.step) \in Nat /\ Rounded(plain, rules.step) \in Nat
      /\ Rounded(due, rules.step) <= due /\ due < Rounded(due, rules.step) + rules.step
      /\ Rounded(due, rules.step) <= Rounded(plain, rules.step)
  BY <1>1, <1>2, RoundedDown, RoundedInOrder
<1> QED BY <1>1, <1>2, <1>3, <1>4

-----------------------------------------------------------------------------
(* The steps *)

AnswersHold == CouponNeverCosts /\ FloorAndCeilingHold /\ InvoiceIsTotal

IInv == TypeOK /\ AnswersHold

\* What is answered for an accepted quote keeps all three promises.
LEMMA AnswerSound ==
  ASSUME TypeOK, NEW kind \in {"preview", "order"}, NEW shop \in Shop,
         NEW item \in Items(shop), NEW code \in Code \cup {None},
         code # None => Discounted(item, code) >= item.floor,
         answer' = Answer(kind, shop, item, code)
  PROVE  answer' \in Priced /\ AnswersHold'
<1>1. item \in Item /\ (shop = "own" => item.floor <= item.base)
  BY ItemSound
<1>2. item.base \in Nat /\ item.floor \in Nat
  BY <1>1 DEF Item
<1>3. rules.step \in Nat \ {0}
  BY PolicySound
<1>4. /\ Total(item, code) \in Nat /\ Total(item, None) \in Nat
      /\ Total(item, code) <= Total(item, None)
      /\ Total(item, code) + rules.step > item.floor
      /\ item.base - Total(item, code) < Ceiling(item) + rules.step
      /\ item.floor <= item.base => Total(item, code) <= item.base
  BY <1>1, TotalIs
<1>5. Ceiling(item) \in Nat
  BY <1>1, DiscountedIs
<1>6. /\ Invoice(item, Total(item, code)) \in Nat
      /\ Total(item, code) <= item.base => Invoice(item, Total(item, code)) = Total(item, code)
  BY <1>2, <1>4 DEF Invoice
<1>7. answer' = [kind |-> kind, shop |-> shop, base |-> item.base, floor |-> item.floor,
                 ceiling |-> Ceiling(item), step |-> rules.step,
                 plain |-> Total(item, None), total |-> Total(item, code),
                 invoice |-> Invoice(item, Total(item, code))]
  BY DEF Answer
<1>8. answer' \in Priced
  BY <1>2, <1>3, <1>4, <1>5, <1>6, <1>7 DEF Priced
<1>9. CouponNeverCosts'
  BY <1>4, <1>7 DEF CouponNeverCosts
<1>10. FloorAndCeilingHold'
  BY <1>4, <1>7 DEF FloorAndCeilingHold
<1>11. InvoiceIsTotal'
  BY <1>1, <1>4, <1>6, <1>7 DEF InvoiceIsTotal
<1> QED BY <1>8, <1>9, <1>10, <1>11 DEF AnswersHold

\* A step that answers nothing keeps what was answered, or forgets it.
LEMMA AnswerKept ==
  ASSUME AnswersHold, answer' = answer \/ answer' = None
  PROVE  AnswersHold'
  BY DEF AnswersHold, CouponNeverCosts, FloorAndCeilingHold, InvoiceIsTotal

LEMMA InitHolds ==
  Init => IInv
<1> SUFFICES ASSUME Init PROVE IInv
  OBVIOUS
<1>1. /\ plan \in [Package -> Row] /\ \A p \in Package : plan[p].floor <= plan[p].list
  BY DEF Init
<1>2. TypeOK
  BY <1>1 DEF Init, TypeOK
<1> QED BY <1>2 DEF Init, IInv, AnswersHold, CouponNeverCosts, FloorAndCeilingHold, InvoiceIsTotal

LEMMA StepHolds ==
  IInv /\ [Next]_vars => IInv'
<1> SUFFICES ASSUME IInv, [Next]_vars PROVE IInv'
  OBVIOUS
<1>0. TypeOK /\ AnswersHold
  BY DEF IInv
<1>1. ASSUME NEW p \in Package, NEW list \in Amount, NEW floor \in Amount,
             UpdatePlan(p, list, floor)
      PROVE  IInv'
  <2>1. plan \in [Package -> Row] /\ [plan[p] EXCEPT !.list = list, !.floor = floor] \in Row
    BY <1>0 DEF TypeOK, Row
  <2>2. plan' \in [Package -> Row]
    BY <1>1, <2>1 DEF UpdatePlan
  <2>3. \A q \in Package : plan'[q].floor <= plan'[q].list
    BY <1>0, <1>1, <2>1 DEF UpdatePlan, TypeOK, Row
  <2> QED BY <1>0, <1>1, <2>2, <2>3, AnswerKept DEF UpdatePlan, TypeOK, IInv
<1>2. ASSUME NEW p \in Package, SetPlanState(p)
      PROVE  IInv'
  <2>1. plan \in [Package -> Row] /\ [plan[p] EXCEPT !.onSale = ~ @] \in Row
    BY <1>0 DEF TypeOK, Row
  <2>2. plan' \in [Package -> Row]
    BY <1>2, <2>1 DEF SetPlanState
  <2>3. \A q \in Package : plan'[q].floor <= plan'[q].list
    BY <1>0, <1>2, <2>1 DEF SetPlanState, TypeOK, Row
  <2> QED BY <1>0, <1>2, <2>2, <2>3, AnswerKept DEF SetPlanState, TypeOK, IInv
<1>3. ASSUME NEW p \in Package, NEW price \in Tariff \cup {None}, SetRetail(p, price)
      PROVE  IInv'
  BY <1>0, <1>3, AnswerKept DEF SetRetail, TypeOK, IInv
<1>4. ASSUME NEW c \in Campaign, SetCampaign(c)
      PROVE  IInv'
  BY <1>0, <1>4, AnswerKept DEF SetCampaign, TypeOK, IInv
<1>5. ASSUME NEW policy \in Rules, SetRules(policy)
      PROVE  IInv'
  BY <1>0, <1>5, AnswerKept DEF SetRules, TypeOK, IInv
<1>6. ASSUME NEW shop \in Shop, NEW item \in Items(shop), NEW code \in Code,
             Preview(shop, item, code)
      PROVE  IInv'
  <2>1. answer' \in Priced /\ AnswersHold'
    BY <1>0, <1>6, AnswerSound DEF Preview, Accepted
  <2> QED BY <1>0, <1>6, <2>1 DEF Preview, TypeOK, IInv
<1>7. ASSUME NEW shop \in Shop, NEW item \in Items(shop), NEW code \in Code \cup {None},
             Place(shop, item, code)
      PROVE  IInv'
  <2>1. answer' \in Priced /\ AnswersHold'
    BY <1>0, <1>7, AnswerSound DEF Place, Accepted
  <2> QED BY <1>0, <1>7, <2>1 DEF Place, TypeOK, IInv
<1>8. CASE CompleteOrder
  BY <1>0, <1>8, AnswerKept DEF CompleteOrder, TypeOK, IInv
<1>9. CASE UNCHANGED vars
  BY <1>0, <1>9, AnswerKept DEF vars, TypeOK, IInv
<1> QED BY <1>1, <1>2, <1>3, <1>4, <1>5, <1>6, <1>7, <1>8, <1>9 DEF Next

LEMMA Holds ==
  Spec => []IInv
  BY InitHolds, StepHolds, PTL DEF Spec

\* Every catalogue an operator can reach is well formed, and so is what is
\* priced from it.
THEOREM TypeCorrect ==
  Spec => []TypeOK
<1>1. IInv => TypeOK
  BY DEF IInv
<1> QED BY <1>1, Holds, PTL

\* A code never makes a package dearer.
THEOREM CodesNeverCost ==
  Spec => []CouponNeverCosts
<1>1. IInv => CouponNeverCosts
  BY DEF IInv, AnswersHold
<1> QED BY <1>1, Holds, PTL

\* Floor and ceiling hold to within one rounding step.
THEOREM GuardsHold ==
  Spec => []FloorAndCeilingHold
<1>1. IInv => FloorAndCeilingHold
  BY DEF IInv, AnswersHold
<1> QED BY <1>1, Holds, PTL

\* In the platform's own shop the invoice comes to the order's total.
THEOREM InvoicesAddUp ==
  Spec => []InvoiceIsTotal
<1>1. IInv => InvoiceIsTotal
  BY DEF IInv, AnswersHold
<1> QED BY <1>1, Holds, PTL

\* No larger volume is cheaper than a smaller one.
THEOREM VolumesStayInOrder ==
  Spec => []BiggerNeverCheaper
<1>1. IInv => BiggerNeverCheaper
  BY VolumesInOrder DEF IInv
<1> QED BY <1>1, Holds, PTL

=============================================================================
