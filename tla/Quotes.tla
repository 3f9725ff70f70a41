-------------------------------- MODULE Quotes --------------------------------
(***************************************************************************)
(* What a package costs one customer of one shop at one moment, while      *)
(* operators edit the catalogue and a reseller sets prices of his own.     *)
(*                                                                         *)
(* A quote runs base -> campaign -> code -> ceiling -> floor -> rounding   *)
(* (domain/catalog/pricing.py).  It reads and writes nothing but its       *)
(* inputs, so a quote is one operator of the catalogue's state, and        *)
(* previewing a code or placing an order is one step that evaluates it.    *)
(* Money is a whole number of Toman, a share a number of basis points.     *)
(* Whether a code is published, current, used up or somebody else's is     *)
(* the matter of Coupons; every code here is one the customer may use.     *)
(***************************************************************************)
EXTENDS Integers

CONSTANTS
  Package,    \* the published and unpublished volume packages of one term
  Volume,     \* gibibytes in each
  Asked,      \* volumes a customer may type
  Amount,     \* prices and floors that may be set
  Tariff,     \* prices the reseller may set
  MaxAmount,  \* the most a price column holds
  Campaign,   \* campaigns
  Urgency,    \* the bound of their priorities
  Offer,      \* their terms: [discount, priority, covers]
  Code,       \* coupon codes
  Terms,      \* their terms: [discount, stacks, least, firstOnly, covers]
  Rules,      \* pricing policies: [step, stacking, ceiling]
  Thousand,   \* DEFAULT_ROUNDING_STEP
  Largest,    \* MAX_CUSTOM_GIB
  None

Discount == [percent : BOOLEAN, value : Nat \ {0}, cap : Nat \cup {None}]

ASSUME CatalogueAssumption ==
  /\ Volume \in [Package -> Nat \ {0}] /\ Asked \subseteq Nat
  /\ Thousand \in Nat \ {0} /\ Largest \in Nat
  /\ MaxAmount \in Nat /\ Amount \cup Tariff \subseteq 0 .. MaxAmount
  /\ None \notin Nat \cup Code
ASSUME TermsAssumption ==
  /\ Urgency \in Nat
  /\ Offer \in [Campaign -> [discount : Discount, priority : -Urgency .. Urgency, covers : SUBSET Package]]
  /\ Terms \in [Code -> [discount : Discount, stacks : BOOLEAN, least : Nat,
                         firstOnly : BOOLEAN, covers : SUBSET Package]]
  /\ Rules \subseteq [step : Nat \ {0}, stacking : BOOLEAN, ceiling : Nat]
  /\ \A policy \in Rules : policy.ceiling <= 10000

VARIABLES
  plan,      \* plan rows: [list, floor, onSale]
  retail,    \* the reseller's price of each package, None where he set none
  running,   \* campaigns that are published and within their window
  rules,     \* the pricing settings
  first,     \* the customer has no completed order yet
  answer     \* the last preview or order priced at the catalogue as it is, None after an edit

vars == <<plan, retail, running, rules, first, answer>>

-----------------------------------------------------------------------------
(* Money *)

Lesser(a, b) == IF a <= b THEN a ELSE b
Greater(a, b) == IF a >= b THEN a ELSE b
Most(S) == CHOOSE x \in S : \A y \in S : y <= x

\* Subtraction never goes below zero; a share is rounded half up.
Minus(a, b) == Greater(0, a - b)
Share(amount, points) == (amount * points + 5000) \div 10000
Rounded(amount, step) == (amount \div step) * step

\* Discount.compute
Off(discount, subtotal) ==
  LET raw == IF discount.percent THEN Share(subtotal, discount.value) ELSE discount.value
      capped == IF discount.cap # None /\ raw > discount.cap THEN discount.cap ELSE raw
  IN Lesser(capped, subtotal)

-----------------------------------------------------------------------------
(* What is being priced *)

Shop == {"own", "reseller"}

\* A shop's price of a package replaces the platform's.
PriceOf(p, shop) ==
  IF shop = "reseller" /\ retail[p] # None THEN retail[p] ELSE plan[p].list

OnSale == {p \in Package : plan[p].onSale}
UpTo(volume) == {p \in OnSale : Volume[p] <= volume}
From(volume) == {p \in OnSale : Volume[p] >= volume}
Sellable(volume) == UpTo(volume) # {} /\ volume <= Largest

\* The largest package of no more than the volume, the smallest of no less.
Below(volume) ==
  CHOOSE p \in UpTo(volume) : \A other \in UpTo(volume) : Volume[other] <= Volume[p]
Above(volume) ==
  CHOOSE p \in From(volume) : \A other \in From(volume) : Volume[p] <= Volume[other]

\* The point on the line through the packages on either side.
OnTheLine(volume, shop) ==
  LET lower == Below(volume)
      upper == Above(volume)
      start == PriceOf(lower, shop)
      past == volume - Volume[lower]
  IN IF From(volume) = {}
     THEN Rounded((start * volume) \div Volume[lower], Thousand)
     ELSE IF Volume[upper] = Volume[lower] THEN start
     ELSE Rounded(Greater(0, start + ((PriceOf(upper, shop) - start) * past)
                                       \div (Volume[upper] - Volume[lower])), Thousand)

\* No volume is cheaper than a package with less in it.
Dearest(volume, shop) == Most({PriceOf(p, shop) : p \in UpTo(volume)})
AlongTheLine(volume, shop) == OnTheLine(volume, shop)   \* mutant
PriceForVolume(volume, shop) == Greater(OnTheLine(volume, shop), Dearest(volume, shop))

Stored(p, shop) == [plan |-> p, floor |-> plan[p].floor, base |-> PriceOf(p, shop)]

\* custom_package: a package of the volume asked for, shaped like the anchor.
Custom(volume, shop) ==
  LET price == PriceForVolume(volume, shop)
      anchor == Below(volume)
  IN [plan |-> anchor, floor |-> Lesser(plan[anchor].floor, price), base |-> price]

Items(shop) ==
  {Stored(p, shop) : p \in OnSale} \cup
  {Custom(volume, shop) : volume \in {v \in Asked : Sellable(v)}}

-----------------------------------------------------------------------------
(* The quote *)

Applying(item) == {c \in running : item.plan \in Offer[c].covers}

\* One campaign applies: of those of the highest priority, the one that takes
\* most off this price.  Which of two equal ones is named changes no price.
Foremost(item) ==
  {c \in Applying(item) : \A d \in Applying(item) : Offer[d].priority <= Offer[c].priority}

ByCampaign(item) ==
  IF Applying(item) = {} THEN 0
  ELSE Most({Off(Offer[c].discount, item.base) : c \in Foremost(item)})

\* assert_redeemable, for a code that is current
Redeemable(item, code, newcomer) ==
  /\ Terms[code].firstOnly => newcomer
  /\ item.plan \in Terms[code].covers
  /\ item.base >= Terms[code].least

CodeReplaces(item, code) ==   \* mutant
  IF Applying(item) = {} \/ (rules.stacking /\ Terms[code].stacks)
  THEN ByCampaign(item) + Off(Terms[code].discount, Minus(item.base, ByCampaign(item)))
  ELSE Off(Terms[code].discount, item.base)

\* The code takes its share of what the campaign left, or, where the two do
\* not combine, replaces the campaign when it is worth more.
Together(item, code) ==
  LET discount == Terms[code].discount
      campaign == ByCampaign(item)
  IN IF Applying(item) = {} \/ (rules.stacking /\ Terms[code].stacks)
     THEN campaign + Off(discount, Minus(item.base, campaign))
     ELSE Greater(campaign, Off(discount, item.base))

Given(item, code) == IF code = None THEN ByCampaign(item) ELSE Together(item, code)

Ceiling(item) == Share(item.base, rules.ceiling)

Uncapped(item, code) == Minus(item.base, Given(item, code))   \* mutant
Discounted(item, code) == Minus(item.base, Lesser(Given(item, code), Ceiling(item)))

\* PriceFloorBreached is raised only with a code; without one the floor is paid.
Accepted(item, code, newcomer) ==
  code # None => Redeemable(item, code, newcomer) /\ Discounted(item, code) >= item.floor

Total(item, code) == Rounded(Greater(Discounted(item, code), item.floor), rules.step)

\* checkout._lines_for: the package, and the deduction where there is one.
Invoice(item, total) == IF item.base - total > 0 THEN total ELSE item.base

-----------------------------------------------------------------------------
(* Operators, the reseller, the customer *)

Row == [list : Amount, floor : Amount, onSale : BOOLEAN]

Unvalidated(p, list, floor) ==   \* mutant
  /\ list # plan[p].list => list >= plan[p].floor
  /\ plan' = [plan EXCEPT ![p] = [@ EXCEPT !.list = list, !.floor = floor]]
  /\ answer' = None
  /\ UNCHANGED <<retail, running, rules, first>>

\* update_plan: change_price holds the new price against the old floor before
\* the new floor is set, revalidate holds them against each other.
UpdatePlan(p, list, floor) ==
  /\ list # plan[p].list => list >= plan[p].floor
  /\ floor <= list
  /\ plan' = [plan EXCEPT ![p] = [@ EXCEPT !.list = list, !.floor = floor]]
  /\ answer' = None
  /\ UNCHANGED <<retail, running, rules, first>>

SetPlanState(p) ==
  /\ plan' = [plan EXCEPT ![p].onSale = ~ @]
  /\ answer' = None
  /\ UNCHANGED <<retail, running, rules, first>>

\* set_retail asks nothing of the price.
SetRetail(p, price) ==
  /\ retail' = [retail EXCEPT ![p] = price]
  /\ answer' = None
  /\ UNCHANGED <<plan, running, rules, first>>

\* Activated, paused, archived, or its window opens or closes.  Nothing in the
\* program counts a campaign's redemptions, so none is ever sold out.
SetCampaign(c) ==
  /\ running' = IF c \in running THEN running \ {c} ELSE running \cup {c}
  /\ answer' = None
  /\ UNCHANGED <<plan, retail, rules, first>>

SetRules(policy) ==
  /\ rules' = policy
  /\ answer' = None
  /\ UNCHANGED <<plan, retail, running, first>>

Answer(kind, shop, item, code) ==
  LET total == Total(item, code)
  IN [kind |-> kind, shop |-> shop, base |-> item.base, floor |-> item.floor,
      ceiling |-> Ceiling(item), step |-> rules.step,
      plain |-> Total(item, None), total |-> total,
      invoice |-> Invoice(item, total)]

\* preview_coupon: the bot and the Mini App leave is_first_purchase at False,
\* and a code that takes nothing off is refused.
Preview(shop, item, code) ==
  /\ Accepted(item, code, FALSE)
  /\ Total(item, code) < Total(item, None)
  /\ answer' = Answer("preview", shop, item, code)
  /\ UNCHANGED <<plan, retail, running, rules, first>>

\* checkout._begin prices again, at today's catalogue, and records the order.
Place(shop, item, code) ==
  /\ Accepted(item, code, first)
  /\ answer' = Answer("order", shop, item, code)
  /\ UNCHANGED <<plan, retail, running, rules, first>>

\* has_completed_order
CompleteOrder ==
  /\ first /\ answer # None /\ answer.kind = "order"
  /\ first' = FALSE
  /\ UNCHANGED <<plan, retail, running, rules, answer>>

Init ==
  /\ plan \in [Package -> {row \in Row : row.floor <= row.list /\ ~ row.onSale}]
  /\ retail = [p \in Package |-> None]
  /\ running = {}
  /\ rules \in Rules
  /\ first = TRUE
  /\ answer = None

Next ==
  \/ \E p \in Package : \E list, floor \in Amount : UpdatePlan(p, list, floor)
  \/ \E p \in Package : SetPlanState(p)
  \/ \E p \in Package : \E price \in Tariff \cup {None} : SetRetail(p, price)
  \/ \E c \in Campaign : SetCampaign(c)
  \/ \E policy \in Rules : SetRules(policy)
  \/ \E shop \in Shop : \E item \in Items(shop) :
       \/ \E code \in Code : Preview(shop, item, code)
       \/ \E code \in Code \cup {None} : Place(shop, item, code)
  \/ CompleteOrder

Spec == Init /\ [][Next]_vars

-----------------------------------------------------------------------------
(* Properties *)

Priced == [kind : {"preview", "order"}, shop : Shop, base : Nat, floor : Nat,
           ceiling : Nat, step : Nat \ {0}, plain : Nat, total : Nat, invoice : Nat]

\* The catalogue and what was priced from it have their types; no package's
\* floor is above its list price (Plan._validate_price_invariants).
TypeOK ==
  /\ plan \in [Package -> Row] /\ \A p \in Package : plan[p].floor <= plan[p].list
  /\ retail \in [Package -> Tariff \cup {None}]
  /\ running \subseteq Campaign /\ rules \in Rules /\ first \in BOOLEAN
  /\ answer \in Priced \cup {None}

\* Typing a code never costs the customer money, whether it combines with the
\* campaign, replaces it, or meets the ceiling, the floor or the rounding on
\* the way (quote_plan's coupon branch).
CouponNeverCosts ==
  answer # None => answer.total <= answer.plain

\* Whatever combines, what is paid stays within one rounding step of the
\* package's floor, and what is given within one of the ceiling: the rounding
\* comes after both guards (quote_plan, max_total_discount_bps and min_price).
FloorAndCeilingHold ==
  answer # None =>
    /\ answer.total + answer.step > answer.floor
    /\ answer.base - answer.total < answer.ceiling + answer.step

\* In the platform's own shop the invoice's lines come to the order's total:
\* no quote is above its base, so the deduction is never left out (_lines_for,
\* which leaves it out where the floor lifted a reseller's price).
InvoiceIsTotal ==
  answer # None /\ answer.shop = "own" => answer.invoice = answer.total

\* A larger volume is never cheaper than a smaller one, between packages, past
\* the largest and where a larger package is priced below a smaller one
\* (price_for_volume).
BiggerNeverCheaper ==
  \A shop \in Shop : \A v, w \in Asked :
    v <= w /\ Sellable(v) /\ Sellable(w) =>
      PriceForVolume(v, shop) <= PriceForVolume(w, shop)

=============================================================================
