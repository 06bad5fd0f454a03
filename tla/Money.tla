--------------------------------- MODULE Money ---------------------------------
(***************************************************************************)
(* The sums of an order (money, pricing_service, and where order_service   *)
(* uses them): what the form shows, what the order costs, what is due      *)
(* after the delivery, and what the invoice says.                          *)
(*                                                                         *)
(* Sums are whole kopecks.  Volumes are counted in parts of a litre, of    *)
(* which VolScale make one.  Decimal is exact between two roundings.       *)
(***************************************************************************)
EXTENDS Integers

CONSTANTS
    VolScale,     \* parts of a litre
    Volumes,      \* volumes an order may have, in these parts
    LitrePrices,  \* the client's prices of a litre, by its tariff
    ManualPrices, \* prices of a litre that the staff type
    ZonePrices,   \* the fixed price of the zone
    Deliveries,   \* costs of a delivery that the staff type
    TypedSums,    \* sums that the staff type
    TierFrom, TierDiscount, \* the volume from which the discount holds, and its percents
    Vat,          \* percents on the delivery of a company
    NoSum,        \* None
    MaxMoneyReqs  \* bound: requests

ASSUME MoneyAssumption ==
    /\ VolScale \in Nat \ {0} /\ Volumes \subseteq Nat \ {0}
    /\ LitrePrices \cup ManualPrices \subseteq Nat \ {0}
    /\ ZonePrices \cup Deliveries \cup TypedSums \subseteq Nat
    /\ TierDiscount \in 0..100 /\ Vat \in Nat /\ MaxMoneyReqs \in Nat
    /\ NoSum \notin Int

NoPriceToday == 0    \* no tariff, or no visible price; no price by hand
NoQuote == [state |-> "none"]

VARIABLES
    quote,       \* the columns of the order that money depends on
    litrePrice,  \* what the tariff says today
    zonePrice,   \* what the zone of the address costs today
    preview,     \* what the form has shown
    moneyReqs    \* how many requests there were

moneyVars == <<quote, litrePrice, zonePrice, preview, moneyReqs>>

-----------------------------------------------------------------------------
\* Decimal.quantize with ROUND_HALF_UP: half away from zero.
HalfUp(a, b) == IF a >= 0 THEN (2 * a + b) \div (2 * b) ELSE -((2 * (-a) + b) \div (2 * b))

\* ... and without a rounding named: half to even.
HalfEven(a, b) ==
    IF 2 * (a % b) < b \/ (2 * (a % b) = b /\ (a \div b) % 2 = 0) THEN a \div b ELSE a \div b + 1

OrZero(sum) == IF sum = NoSum THEN 0 ELSE sum

\* price_first_breakdown, price_first_lines: the price of a litre with the delivery is rounded, and the total is
\* taken from it.
UnitGross(total, vol) == HalfUp(total * VolScale, vol)
PriceFirst(total, vol) == HalfUp(UnitGross(total, vol) * vol, VolScale)

\* order_total, of a fuel part num / den.
OrderTotal(num, den, delivery, vol, exact) ==
    LET raw == HalfUp(num + den * OrZero(delivery), den) IN
    IF exact THEN raw ELSE PriceFirst(raw, vol)

\* The discount of the highest tier that the volume reaches.
Discount(vol) == IF vol >= TierFrom THEN TierDiscount ELSE 0

\* compute_expected_amount.
TariffFuel(price, vol) ==
    IF price = NoPriceToday THEN NoSum ELSE HalfUp(price * (100 - Discount(vol)) * vol, 100 * VolScale)

\* Mutant: the form rounds the price of a litre after the discount.
PreviewFuelRounded(price, vol) ==
    IF price = NoPriceToday THEN NoSum ELSE HalfUp(HalfUp(price * (100 - Discount(vol)), 100) * vol, VolScale)

\* compute_price_breakdown of the form: the same fuel part on a way of its own.
PreviewFuel(price, vol) ==
    IF price = NoPriceToday THEN NoSum ELSE HalfUp((price * 100 - price * Discount(vol)) * vol, 100 * VolScale)

\* _manual_fuel_subtotal.
ManualFuel(price, vol) == HalfEven(price * vol, VolScale)

\* compute_zone_delivery_cost of a fixed price; none without a zone.
ZoneCost(price, company) ==
    IF price = NoSum THEN NoSum ELSE IF company THEN HalfUp(price * (100 + Vat), 100) ELSE price

\* _fuel_subtotal_for: the price by hand, or the tariff.
FuelSubtotal(q, vol) ==
    IF q.manualPrice # NoPriceToday THEN ManualFuel(q.manualPrice, vol) ELSE TariffFuel(litrePrice, vol)

\* _order_amount.
OrderAmount(q) == IF q.final # NoSum THEN q.final ELSE q.expected

\* Mutant: the volume that was ordered.
OrderedVolume(q) == q.volume

\* _order_volume: what was delivered, or ordered.
InvoiceVolume(q) == IF q.delivered # 0 THEN q.delivered ELSE q.volume

\* manual_price_lines: the lines of a price by hand agree with the total, or there are none.
ManualLinesAgree(q) ==
    /\ q.manualPrice # NoPriceToday
    /\ HalfUp(q.manualPrice * InvoiceVolume(q), VolScale) + OrZero(q.delivery) = OrderAmount(q)

\* _build_line_items: what the client is asked to pay.
InvoiceTotal(q) ==
    IF ManualLinesAgree(q) THEN OrderAmount(q) ELSE PriceFirst(OrderAmount(q), InvoiceVolume(q))

-----------------------------------------------------------------------------
Quoted == quote # NoQuote

MoneyInit ==
    /\ quote = NoQuote /\ litrePrice = NoPriceToday /\ zonePrice = NoSum
    /\ preview = NoQuote /\ moneyReqs = 0

Ask == moneyReqs < MaxMoneyReqs /\ moneyReqs' = moneyReqs + 1

\* set_default_tariff, update_tariff, update_zone: other prices from now on.
PricesChange(p, z) ==
    /\ Ask /\ <<p, z>> # <<litrePrice, zonePrice>>
    /\ litrePrice' = p /\ zonePrice' = z /\ preview' = NoQuote
    /\ UNCHANGED quote

\* A creation's input: for whom, how much, and what only the staff may type.
Inputs == {i \in [company: BOOLEAN, staff: BOOLEAN, volume: Volumes, manualPrice: ManualPrices \cup {NoPriceToday},
                  manualDelivery: Deliveries \cup {NoSum}] :
              ~i.staff => i.manualPrice = NoPriceToday /\ i.manualDelivery = NoSum}

ByHand(i) == i.manualPrice # NoPriceToday

Delivery(i) == IF i.manualDelivery # NoSum THEN i.manualDelivery ELSE ZoneCost(zonePrice, i.company)

Total(fuel, delivery, vol, exact) == IF fuel = NoSum THEN NoSum ELSE OrderTotal(fuel, 1, delivery, vol, exact)

\* preview_price.
Preview(i) ==
    LET fuel == IF ByHand(i) THEN ManualFuel(i.manualPrice, i.volume) ELSE PreviewFuel(litrePrice, i.volume) IN
    /\ ~Quoted /\ preview = NoQuote
    /\ preview' = [input |-> i, total |-> Total(fuel, Delivery(i), i.volume, ByHand(i))]
    /\ UNCHANGED <<quote, litrePrice, zonePrice, moneyReqs>>

\* create_order: a client's order without a cost of the delivery, or of a person, waits for approval.
Create(i) ==
    LET fuel == IF ByHand(i) THEN ManualFuel(i.manualPrice, i.volume) ELSE TariffFuel(litrePrice, i.volume) IN
    /\ Ask /\ ~Quoted /\ (preview # NoQuote => preview.input = i)
    /\ quote' = [state |-> IF ~i.staff /\ (~i.company \/ Delivery(i) = NoSum) THEN "awaiting" ELSE "open",
                 company |-> i.company, volume |-> i.volume, delivered |-> 0,
                 delivery |-> Delivery(i), deliveryTyped |-> i.manualDelivery # NoSum, manualPrice |-> i.manualPrice,
                 expected |-> Total(fuel, Delivery(i), i.volume, ByHand(i)), final |-> NoSum,
                 fuel |-> fuel, edits |-> 0, lapses |-> {}]
    /\ UNCHANGED <<litrePrice, zonePrice, preview>>

\* _recompute_expected_amount; when a service is away everything stays.
Recomputed(q, away) ==
    LET zone == ZoneCost(zonePrice, q.company)
        cost == IF q.deliveryTyped \/ zone = NoSum THEN q.delivery ELSE zone
        fuel == FuelSubtotal(q, q.volume) IN
    IF away THEN [q EXCEPT !.lapses = @ \cup {"away"}]
    ELSE [q EXCEPT !.delivery = cost, !.fuel = fuel, !.edits = 0,
                   !.expected = Total(fuel, cost, q.volume, q.manualPrice # NoPriceToday),
                   !.lapses = IF q.final = NoSum /\ q.delivered = 0 THEN {} ELSE @ \cup {"switched"}]

\* Mutant: the old cost of the delivery stays in the sum.
WithDeliveryTwice(q, cost, away) ==
    LET exact == q.manualPrice # NoPriceToday
        fuel  == IF q.expected # NoSum THEN q.expected ELSE IF away THEN NoSum ELSE FuelSubtotal(q, q.volume) IN
    [q EXCEPT !.delivery = cost, !.deliveryTyped = TRUE,
              !.expected = IF fuel = NoSum THEN @ ELSE OrderTotal(fuel, 1, cost, q.volume, exact),
              !.final    = IF @ = NoSum THEN @ ELSE OrderTotal(@ - OrZero(q.delivery), 1, cost, InvoiceVolume(q), exact),
              !.fuel     = IF q.expected # NoSum THEN @ ELSE fuel,
              !.edits    = @ + 1]

\* update_order, delivery_cost: the fuel part of the sum stays and the delivery is replaced; a sum
\* that was never computed is computed now.
WithDelivery(q, cost, away) ==
    LET exact == q.manualPrice # NoPriceToday
        fuel  == IF q.expected # NoSum THEN q.expected - OrZero(q.delivery)
                 ELSE IF away THEN NoSum ELSE FuelSubtotal(q, q.volume) IN
    [q EXCEPT !.delivery = cost, !.deliveryTyped = TRUE,
              !.expected = IF fuel = NoSum THEN @ ELSE OrderTotal(fuel, 1, cost, q.volume, exact),
              !.final    = IF @ = NoSum THEN @ ELSE OrderTotal(@ - OrZero(q.delivery), 1, cost, InvoiceVolume(q), exact),
              !.fuel     = IF q.expected # NoSum THEN @ ELSE fuel,
              !.edits    = @ + 1]

\* update_order: what a request gives is written in the order of the code; a volume or another
\* buyer has the sums computed again, unless the sum is given too.  (A request that changes nothing is left out.)
Update(vol, company, sum, cost, last, away) ==
    LET q1 == IF sum = NoSum THEN quote
              ELSE [quote EXCEPT !.expected = sum, !.manualPrice = NoPriceToday, !.lapses = @ \cup {"typed"}]
        q2 == [q1 EXCEPT !.volume = vol, !.company = company]
        q3 == IF cost = NoSum THEN q2 ELSE WithDelivery(q2, cost, away)
        q4 == IF cost # NoSum /\ sum # NoSum THEN [q3 EXCEPT !.expected = sum] ELSE q3
        q5 == IF sum = NoSum /\ (vol # quote.volume \/ company # quote.company) THEN Recomputed(q4, away) ELSE q4
        q6 == IF last = NoSum THEN q5 ELSE [q5 EXCEPT !.final = last, !.lapses = @ \cup {"typed"}] IN
    /\ Ask /\ Quoted
    /\ quote.state = "delivered" => vol = quote.volume
    /\ quote' = q6 /\ q6 # quote
    /\ UNCHANGED <<litrePrice, zonePrice, preview>>

\* AWAITING_MANAGER -> NEW: a sum that was not computed is computed before the invoice.
Approve(away) ==
    /\ Ask /\ Quoted /\ quote.state = "awaiting"
    /\ LET q == IF quote.expected = NoSum THEN Recomputed(quote, away) ELSE quote IN
       quote' = [q EXCEPT !.state = "open"]
    /\ UNCHANGED <<litrePrice, zonePrice, preview>>

\* Mutant: the fuel by today's tariff, as it once was.
FinalAmountToday(q, vol) ==
    Total(TariffFuel(litrePrice, vol), q.delivery, vol, q.manualPrice # NoPriceToday)

\* The volume as ordered costs what was expected; another volume, the order's own price of a
\* litre; without a sum, today's tariff.
FinalAmount(q, vol) ==
    LET exact == q.manualPrice # NoPriceToday IN
    CASE q.expected # NoSum /\ vol = q.volume -> q.expected
      [] q.expected # NoSum /\ vol # q.volume ->
            OrderTotal((q.expected - OrZero(q.delivery)) * vol, q.volume, q.delivery, vol, exact)
      [] OTHER -> Total(TariffFuel(litrePrice, vol), q.delivery, vol, exact)

\* ACCEPTED -> DELIVERED.
Deliver(vol) ==
    LET sum == FinalAmount(quote, vol) IN
    /\ Ask /\ Quoted /\ quote.state = "open"
    /\ quote' = [quote EXCEPT !.state = "delivered", !.delivered = vol,
                              !.final = IF sum = NoSum THEN @ ELSE sum,
                              !.lapses = IF quote.expected = NoSum THEN @ \cup {"late"} ELSE @]
    /\ UNCHANGED <<litrePrice, zonePrice, preview>>

MoneyNext ==
    \/ \E p \in LitrePrices \cup {NoPriceToday}, z \in ZonePrices \cup {NoSum} : PricesChange(p, z)
    \/ \E i \in Inputs : Preview(i) \/ Create(i)
    \/ \E vol \in Volumes, company \in BOOLEAN, sum, last \in TypedSums \cup {NoSum}, cost \in Deliveries \cup {NoSum},
          away \in BOOLEAN : Update(vol, company, sum, cost, last, away)
    \/ \E away \in BOOLEAN : Approve(away)
    \/ \E vol \in Volumes : Deliver(vol)

MoneySpec == MoneyInit /\ [][MoneyNext]_moneyVars

-----------------------------------------------------------------------------
\* The columns keep the types of models/order.py.
MoneyTypeOK ==
    Quoted =>
        /\ quote.volume \in Volumes /\ quote.delivered \in Volumes \cup {0}
        /\ {quote.expected, quote.final} \subseteq Int \cup {NoSum} /\ quote.delivery \in Nat \cup {NoSum}
        /\ quote.state = "delivered" <=> quote.delivered # 0

Lapsed(set) == quote.lapses \cap set # {}

\* money.price_first_breakdown, _build_line_items: the invoice asks for the sum of the order to the
\* kopeck, whatever was edited, recomputed and delivered in between; not for sums that were typed
\* left from another volume or first computed after the delivery, nor for a price by hand of a part of a litre.
InvoiceAgrees ==
    Quoted /\ OrderAmount(quote) # NoSum /\ ~Lapsed({"typed", "away", "late"})
    /\ (quote.manualPrice # NoPriceToday =>
            ~Lapsed({"switched"}) /\ quote.volume % VolScale = 0 /\ InvoiceVolume(quote) % VolScale = 0)
        => InvoiceTotal(quote) = OrderAmount(quote)

Distance(a, b) == IF a > b THEN a - b ELSE b - a

\* update_order takes the fuel part back out of a rounded total: each edit of the cost may move the
\* sum by half a kopeck a litre, and no further.
DriftBounded ==
    Quoted /\ quote.expected # NoSum /\ ~Lapsed({"typed", "away"}) =>
        2 * VolScale * Distance(quote.expected, quote.fuel + OrZero(quote.delivery))
            <= (quote.edits + 1) * (quote.volume + VolScale)

\* transition_status: with the volume as ordered what is due stays what was expected, whatever the
\* tariff says at the delivery and however the cost of the delivery is edited before and after.
FinalKeepsTerms ==
    Quoted /\ quote.delivered = quote.volume /\ ~Lapsed({"typed", "switched", "late"}) => quote.final = quote.expected

\* preview_price and create_order, which compute apart: an order costs what the form has shown.
PreviewIsCharged ==
    [][~Quoted /\ preview # NoQuote /\ quote' # NoQuote => quote'.expected = preview.total]_moneyVars
=============================================================================
