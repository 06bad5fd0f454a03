-------------------------------- MODULE Tariffs --------------------------------
(***************************************************************************)
(* The tariffs of order_service (tariff_service, tariff_formula,           *)
(* pricing_service, routers/tariffs): which tariff prices an order, the    *)
(* prices that a formula tariff derives from its base when it is read, and *)
(* the journal of price changes.                                           *)
(*                                                                         *)
(* Nothing is locked: a request reads and checks, and writes what it       *)
(* changed when it commits.                                                *)
(***************************************************************************)
EXTENDS Integers, FiniteSets, SequencesExt

CONSTANTS
    Tariff,        \* tariffs that may be created
    Fuels,
    Prices,        \* prices of a litre, in steps of the formula's rounding
    Markups,       \* values of formulas: signed
    TariffReqs,
    MaxTariffReqs  \* bound: requests that begin

ASSUME TariffsAssumption ==
    /\ Prices \subseteq Nat \ {0} /\ Markups \subseteq Int /\ MaxTariffReqs \in Nat
    /\ "none" \notin Tariff /\ IsFiniteSet(Fuels)

ClientTypes == {"individual", "company"}
NoTariff    == [state |-> "none"]
NoBase      == "none"
NoPrice     == 0
Unasked     == [step |-> "unasked"]

VARIABLES
    tariffs,      \* tariff -> its row, with its fuel prices
    priceLog,     \* tariff -> tariff_price_history: the fuel and the new price, the latest last
    tariffReqs,   \* request -> what it has read and will write
    begunTariffs, \* how many requests have begun
    overlapped,   \* history: the tariffs that a request wrote after another had changed what it read
    retyped       \* history: the default tariffs whose type of client was changed

tariffVars == <<tariffs, priceLog, tariffReqs, begunTariffs, overlapped, retyped>>

\* TariffFuelPrice: the price and the eye.
PriceRow  == [price: Prices \cup {NoPrice}, hidden: BOOLEAN]
PriceRows == [Fuels -> PriceRow]
TariffRow == [type: ClientTypes, isDefault: BOOLEAN, archived: BOOLEAN,
              base: Tariff \cup {NoBase}, markup: Markups \cup {0}, rows: PriceRows]

TariffsInit ==
    /\ tariffs = [t \in Tariff |-> NoTariff]
    /\ priceLog = [t \in Tariff |-> <<>>]
    /\ tariffReqs = [q \in TariffReqs |-> Unasked]
    /\ begunTariffs = 0 /\ overlapped = {} /\ retyped = {}

Known == {t \in Tariff : tariffs[t] # NoTariff}
Usable == {t \in Known : ~tariffs[t].archived}

\* apply_formula: the price does not fall to zero.
ApplyFormula(price, markup) == IF price + markup >= 1 THEN price + markup ELSE 1

\* derive_price_rows: the visible prices of the base, hidden where the tariff's own eye is.
DerivedRows(base, own, markup) ==
    [f \in Fuels |->
        IF base[f].hidden \/ base[f].price = NoPrice THEN [price |-> NoPrice, hidden |-> TRUE]
        ELSE [price |-> ApplyFormula(base[f].price, markup), hidden |-> own[f].hidden]]

\* normalize_rows, _attach_effective: by the base, of whatever kind and state it is.
EffectiveRows(t) ==
    IF tariffs[t].base = NoBase THEN tariffs[t].rows
    ELSE DerivedRows(tariffs[tariffs[t].base].rows, tariffs[t].rows, tariffs[t].markup)

\* resolve_fuel_price, visible_prices: for an order, none without a usable base.
FuelPrice(t, f) ==
    IF (tariffs[t].base # NoBase /\ tariffs[t].base \notin Usable) \/ EffectiveRows(t)[f].hidden
    THEN NoPrice ELSE EffectiveRows(t)[f].price

\* get_default_tariff of pricing_service: one row is expected.
Defaults(type) == {t \in Usable : tariffs[t].isDefault /\ tariffs[t].type = type}

\* _validate_fuel_prices: a visible fuel has a price, and there is one.
ValidPrices(rows, base) ==
    base = NoBase =>
        /\ \E f \in Fuels : ~rows[f].hidden
        /\ \A f \in Fuels : ~rows[f].hidden => rows[f].price # NoPrice

\* _validate_formula.
ValidBase(t, base) == base # NoBase => base # t /\ base \in Usable /\ tariffs[base].base = NoBase

\* Mutant: only what is dearer is written to the journal.
RisesOnly(before, after) ==
    SetToSeq({[fuel |-> f, price |-> after[f].price] : f \in {f \in Fuels : before[f].price < after[f].price}})

\* diff_price_rows: the fuels whose price is another.
PriceChanges(before, after) ==
    SetToSeq({[fuel |-> f, price |-> after[f].price] : f \in {f \in Fuels : before[f].price # after[f].price}})

NoRows == [f \in Fuels |-> [price |-> NoPrice, hidden |-> TRUE]]

\* Mutant: the value of the formula stays without a base.
StoredAlways(base, markup) == markup

\* _stored_formula_value, and the columns of a formula without a base.
StoredFormula(base, markup) == IF base = NoBase THEN 0 ELSE markup

-----------------------------------------------------------------------------
BeginTariff(q, r) ==
    /\ tariffReqs[q] = Unasked /\ begunTariffs < MaxTariffReqs /\ overlapped = {}
    /\ begunTariffs' = begunTariffs + 1
    /\ tariffReqs' = [tariffReqs EXCEPT ![q] = r]

\* create_tariff.
CreateTariff(t, type, base, markup, rows) ==
    /\ t \notin Known /\ begunTariffs < MaxTariffReqs
    /\ ValidPrices(rows, base) /\ ValidBase(t, base)
    /\ tariffs' = [tariffs EXCEPT ![t] = [type |-> type, isDefault |-> FALSE, archived |-> FALSE, base |-> base,
                                         markup |-> StoredFormula(base, markup), rows |-> rows]]
    /\ priceLog' = [priceLog EXCEPT ![t] = @ \o PriceChanges(NoRows, rows)]
    /\ begunTariffs' = begunTariffs + 1
    /\ UNCHANGED <<tariffReqs, overlapped, retyped>>

\* update_tariff: the checks, by what is committed now.
UpdateBegin(q, t, type, base, markup, rows) ==
    /\ t \in Usable
    /\ ValidPrices(rows, base) /\ ValidBase(t, base)
    /\ BeginTariff(q, [step |-> "update", tariff |-> t, type |-> type, base |-> base,
                       markup |-> StoredFormula(base, markup), rows |-> rows,
                       seen |-> tariffs, log |-> PriceChanges(tariffs[t].rows, rows), clear |-> {}])
    /\ UNCHANGED <<tariffs, priceLog, overlapped, retyped>>

\* Mutant: the previous default stays.
OthersKept(t) == {}

\* set_default_tariff: the default tariffs of the same type of client.
OthersDefault(t) == {u \in Known \ {t} : tariffs[u].isDefault /\ tariffs[u].type = tariffs[t].type}

SetDefaultBegin(q, t) ==
    /\ t \in Usable
    /\ BeginTariff(q, [step |-> "default", tariff |-> t, seen |-> tariffs, clear |-> OthersDefault(t)])
    /\ UNCHANGED <<tariffs, priceLog, overlapped, retyped>>

\* Mutant: the default may be archived.
ArchiveAny(q, t) ==
    /\ t \in Usable
    /\ BeginTariff(q, [step |-> "archive", tariff |-> t, seen |-> tariffs, clear |-> {}])
    /\ UNCHANGED <<tariffs, priceLog, overlapped, retyped>>

\* archive_tariff: not the default, and not twice.
ArchiveBegin(q, t) ==
    /\ t \in Usable /\ ~tariffs[t].isDefault
    /\ BeginTariff(q, [step |-> "archive", tariff |-> t, seen |-> tariffs, clear |-> {}])
    /\ UNCHANGED <<tariffs, priceLog, overlapped, retyped>>

\* The rows as the commit writes them: the columns that the request has changed.
Rewritten(r) ==
    CASE r.step = "update" ->
            [tariffs EXCEPT ![r.tariff].type = r.type, ![r.tariff].base = r.base,
                            ![r.tariff].markup = r.markup, ![r.tariff].rows = r.rows]
      [] r.step = "default" ->
            [t \in Tariff |->
                IF t = r.tariff THEN [tariffs[t] EXCEPT !.isDefault = TRUE]
                ELSE IF t \in r.clear THEN [tariffs[t] EXCEPT !.isDefault = FALSE] ELSE tariffs[t]]
      [] r.step = "archive" -> [tariffs EXCEPT ![r.tariff].archived = TRUE]

\* The commit; two updates of one tariff meet on its price rows, where the second is refused.
CommitTariff(q) ==
    LET r == tariffReqs[q] IN
    /\ r # Unasked
    /\ r.step = "update" => tariffs[r.tariff].rows = r.seen[r.tariff].rows
    /\ tariffs' = Rewritten(r)
    /\ priceLog' = IF r.step = "update" THEN [priceLog EXCEPT ![r.tariff] = @ \o r.log] ELSE priceLog
    /\ overlapped' = IF r.seen # tariffs THEN overlapped \cup {r.tariff} ELSE overlapped
    /\ retyped' = IF r.step = "update" /\ tariffs[r.tariff].isDefault /\ r.type # tariffs[r.tariff].type
                  THEN retyped \cup {r.tariff} ELSE retyped
    /\ tariffReqs' = [tariffReqs EXCEPT ![q] = Unasked]
    /\ UNCHANGED begunTariffs

TariffFails(q) ==
    /\ tariffReqs[q] # Unasked
    /\ tariffReqs' = [tariffReqs EXCEPT ![q] = Unasked]
    /\ UNCHANGED <<tariffs, priceLog, begunTariffs, overlapped, retyped>>

TariffsNext ==
    \/ \E t \in Tariff, type \in ClientTypes, base \in Tariff \cup {NoBase}, markup \in Markups, rows \in PriceRows :
            \/ CreateTariff(t, type, base, markup, rows)
            \/ \E q \in TariffReqs : UpdateBegin(q, t, type, base, markup, rows)
    \/ \E q \in TariffReqs :
            \/ CommitTariff(q) \/ TariffFails(q)
            \/ \E t \in Tariff : SetDefaultBegin(q, t) \/ ArchiveBegin(q, t)

TariffsSpec == TariffsInit /\ [][TariffsNext]_tariffVars

-----------------------------------------------------------------------------
\* The rows keep the shape that the models of the database give them.
TariffsTypeOK ==
    /\ tariffs \in [Tariff -> TariffRow \cup {NoTariff}]
    /\ \A t \in Known : tariffs[t].base = NoBase => tariffs[t].markup = 0
    /\ begunTariffs \in 0..MaxTariffReqs /\ overlapped \subseteq Tariff /\ retyped \subseteq Tariff

\* set_default_tariff: a type of client has at most one default tariff, the one that prices its
\* orders, unless two requests crossed or a default tariff was moved to another type.
OneDefaultPerType ==
    overlapped = {} /\ retyped = {} => \A type \in ClientTypes : Cardinality(Defaults(type)) <= 1

\* _validate_fuel_prices: a tariff with prices of its own prices some fuel, however it was moved to
\* a formula and back, hidden and repriced, by requests that cross.
PlainTariffPrices == \A t \in Usable : tariffs[t].base = NoBase => \E f \in Fuels : FuelPrice(t, f) # NoPrice

\* archive_tariff, set_default_tariff: a default tariff is not archived, unless requests crossed.
DefaultIsUsable == overlapped = {} => \A t \in Known : tariffs[t].isDefault => ~tariffs[t].archived

LastPrice(t, f) ==
    LET about == {i \in DOMAIN priceLog[t] : priceLog[t][i].fuel = f} IN
    IF about = {} THEN NoPrice ELSE priceLog[t][Max(about)].price

\* _record_history: the journal, replayed, gives the prices of the tariff, whatever was changed,
\* hidden, moved to a formula and back.
JournalReplays == \A t \in Known, f \in Fuels : LastPrice(t, f) = tariffs[t].rows[f].price
=============================================================================
