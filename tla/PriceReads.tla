----------------------------- MODULE PriceReads -----------------------------
(***************************************************************************)
(* What the read services compute from the catalogue and the stored index  *)
(* values (app/services/prices_read.py, read_meta.py, heatmap.py,          *)
(* alerts.py, affordability.py, business.py, copilot.py, brief.py).        *)
(*                                                                         *)
(* A price is a natural number.  A city price is a median of two, so it is *)
(* kept doubled; a change is kept in thousandths of a percent.             *)
(***************************************************************************)
EXTENDS Integers, FiniteSets, FiniteSetsExt, Functions

CONSTANTS
  Markets, Commodities, \* the ids of the rows, natural numbers
  Codes,                \* commodity codes
  Basket,               \* PHASE1_BASKET: the quantity of each of its codes
  Prices, NoPrice,      \* values of the index; insufficient_data, or null
  NoRow,                \* no such commodity
  Instants, DayLength,  \* the clock, and the instants of a day
  MaxTied,              \* bound: the rows of a cell with the same computed_at
  CompareDays,          \* compare_days: 30 in the code
  WeekDays,             \* 7 in the code
  SpikeDays,            \* window_days: 30 in the code
  MinPoints             \* 5 in the code

ASSUME IdsAssumption ==
  /\ Markets \subseteq Nat /\ IsFiniteSet(Markets)
  /\ Commodities \subseteq Nat /\ IsFiniteSet(Commodities)
ASSUME ValuesAssumption ==
  /\ Prices \subseteq Nat \ {0} /\ NoPrice \notin Prices
  /\ Instants \subseteq Nat /\ IsFiniteSet(Instants)
  /\ DayLength \in Nat \ {0} /\ MaxTied \in Nat \ {0}
\* A line through two points leaves no residual.
ASSUME PointsAssumption == MinPoints \in Nat /\ MinPoints >= 3
ASSUME CodesAssumption ==
  /\ NoRow \notin [code: Codes, active: BOOLEAN]
  /\ DOMAIN Basket \subseteq Codes /\ IsFiniteSet(DOMAIN Basket)

VARIABLES
  markets,     \* "absent", "active" or "inactive"
  commodities, \* NoRow, or its code and is_active
  index,       \* for each cell, the value of each row: a computed_at and an id
  now

Cells == Markets \X Commodities

Day(t) == t \div DayLength

-----------------------------------------------------------------------------
(* The catalogue.                                                          *)

ActiveMarkets == {m \in Markets : markets[m] = "active"}

KnownMarkets == {m \in Markets : markets[m] # "absent"}

KnownCommodities == {c \in Commodities : commodities[c] # NoRow}

ActiveCommodities == {c \in KnownCommodities : commodities[c].active}

ByCode(code) == {c \in KnownCommodities : commodities[c].code = code}

-----------------------------------------------------------------------------
(* The latest value of each cell.                                          *)

NoCells == [cell \in {} |-> NoPrice]

Ids == 1..MaxTied

\* The rows of a rebuild have one computed_at, the start of its transaction.
\* No query orders them by more: each read finds them in an order of its own.
\* (Which of the rows has which id is free, so that one order does for all cells.)
Orders == Bijection(Ids, Ids)

Before(order, row, other) ==
  row[1] < other[1] \/ (row[1] = other[1] /\ order[row[2]] < order[other[2]])

\* A row with the latest computed_at: of several the code takes the last it is
\* given, or the first; as the order is any, so is the row.
LastRow(rows, order) ==
  CHOOSE row \in rows : \A other \in rows \ {row} : Before(order, other, row)

LatestRow(cell, order) ==
  LET last == LastRow(DOMAIN index[cell], order)
  IN [at |-> last[1], value |-> index[cell][last]]

\* A bug: the rows of the markets that were not asked for stay.
LatestOfEveryMarket(ms, cs, order) ==
  [cell \in {x \in Markets \X cs : x[1] \in ms \/ DOMAIN index[x] # {}} |->
     IF DOMAIN index[cell] = {} THEN [at |-> now, value |-> NoPrice] ELSE LatestRow(cell, order)]

\* A cell without rows gets a row made up for the answer, computed now.
LatestCells(ms, cs, order) ==
  [cell \in ms \X cs |->
     IF DOMAIN index[cell] = {} THEN [at |-> now, value |-> NoPrice] ELSE LatestRow(cell, order)]

Published(latest) == {cell \in DOMAIN latest : latest[cell].value # NoPrice}

\* A bug: the rest is not kept from going below zero.
MetaSigned(latest, expected) ==
  [expected |-> expected, published |-> Cardinality(Published(latest)),
   insufficient |-> expected - Cardinality(Published(latest))]

Meta(latest, expected) ==
  LET published == Cardinality(Published(latest))
  IN [expected |-> expected, published |-> published,
      insufficient |-> IF expected >= published THEN expected - published ELSE 0]

\* The k-th smallest value of a function with a finite domain.
Ranked(f, k) ==
  CHOOSE v \in {f[x] : x \in DOMAIN f} :
    /\ Cardinality({x \in DOMAIN f : f[x] < v}) < k
    /\ Cardinality({x \in DOMAIN f : f[x] <= v}) >= k

\* statistics.median, doubled.
Median2(f) ==
  LET n == Cardinality(DOMAIN f)
  IN Ranked(f, (n + 1) \div 2) + Ranked(f, n \div 2 + 1)

\* The published cells of a commodity: market to value.
Offers(latest, c) ==
  LET ms == {m \in Markets : <<m, c>> \in Published(latest)}
  IN [m \in ms |-> latest[<<m, c>>].value]

CityPrice(latest, c) ==
  LET offers == Offers(latest, c)
  IN IF DOMAIN offers = {} THEN NoPrice ELSE Median2(offers)

Lowest(offers) == Min({offers[m] : m \in DOMAIN offers})

Highest(offers) == Max({offers[m] : m \in DOMAIN offers})

-----------------------------------------------------------------------------
(* History.                                                                *)

RowsOn(m, c, d) == {row \in DOMAIN index[<<m, c>>] : Day(row[1]) = d}

PublishedOn(m, c, d) == {row \in RowsOn(m, c, d) : index[<<m, c>>][row] # NoPrice}

\* The last row of the day; no point on a day without rows.
CellPoint(m, c, d, order) ==
  IF RowsOn(m, c, d) = {} THEN {} ELSE {index[<<m, c>>][LastRow(RowsOn(m, c, d), order)]}

\* Every row of the day counts, each market as often as it was computed.
CityPoint(c, d) ==
  LET rows == UNION {{m} \X RowsOn(m, c, d) : m \in Markets}
      published == {x \in rows : x[2] \in PublishedOn(x[1], c, d)}
  IN CASE published # {} -> {Median2([x \in published |-> index[<<x[1], c>>][x[2]]])}
       [] published = {} /\ rows # {} -> {NoPrice}
       [] OTHER -> {}

\* A bug: the past of a market that is no longer active is forgotten.
CityMedianOfActive(c, d, order) ==
  LET ms == {m \in ActiveMarkets : PublishedOn(m, c, d) # {}}
  IN IF ms = {} THEN NoPrice
     ELSE Median2([m \in ms |-> index[<<m, c>>][LastRow(PublishedOn(m, c, d), order)]])

\* The last published row of each market, whether it is active or not.
CityMedianOn(c, d, order) ==
  LET ms == {m \in Markets : PublishedOn(m, c, d) # {}}
  IN IF ms = {} THEN NoPrice
     ELSE Median2([m \in ms |-> index[<<m, c>>][LastRow(PublishedOn(m, c, d), order)]])

PublishedBetween(cell, from, to) ==
  {row \in DOMAIN index[cell] : from <= row[1] /\ row[1] <= to /\ index[cell][row] # NoPrice}

\* The rows of the panel, joined with the catalogue of now: the price column is
\* empty where there is no value.
PanelRows(from, to) ==
  UNION {{<<cell, row, index[cell][row]>> :
            row \in {x \in DOMAIN index[cell] : from <= Day(x[1]) /\ Day(x[1]) <= to}} :
         cell \in KnownMarkets \X KnownCommodities}

-----------------------------------------------------------------------------
(* Changes and their bands.                                                *)

\* a / b to the nearest integer, for b > 0.
Nearest(a, b) == (2 * a + b) \div (2 * b)

Percent == 1000

Change(from, to) == Nearest(100 * Percent * (to - from), from)

HeatBand(change) ==
  CASE change = NoPrice -> NoPrice
    [] change < -2 * Percent -> "cool"
    [] change >= -2 * Percent /\ change <= 2 * Percent -> "stable"
    [] change > 2 * Percent /\ change <= 5 * Percent -> "warm"
    [] change > 5 * Percent /\ change <= 10 * Percent -> "hot"
    [] OTHER -> "critical"

\* _pct_change_7d: against the mean of the published rows of the week before
\* last.
WeekChange(latest, cell) ==
  LET week == WeekDays * DayLength
      prior == PublishedBetween(cell, now - 2 * week, now - week)
      total == MapThenSumSet(LAMBDA row : index[cell][row], prior)
  IN IF latest[cell].value = NoPrice \/ prior = {} THEN NoPrice
     ELSE Change(total, latest[cell].value * Cardinality(prior))

\* A market has a heat as soon as one of its cells has a change, and is
\* published from two published cells on.
MarketHeat(latest, m) ==
  LET cells == {cell \in DOMAIN latest : cell[1] = m}
      changed == {cell \in cells : WeekChange(latest, cell) # NoPrice}
      mean == Nearest(MapThenSumSet(LAMBDA cell : WeekChange(latest, cell), changed),
                      Cardinality(changed))
      heat == IF changed = {} THEN NoPrice ELSE mean
  IN [published |-> Cardinality(cells \intersect Published(latest)) >= 2,
      heat |-> heat, band |-> HeatBand(heat)]

Magnitude(x) == IF x < 0 THEN -x ELSE x

\* The least-squares line through the published values of the window, by rank,
\* in units of 1 / scale.  off: the distance of the current value from the line
\* at the last point, which is its own point unless a row was added meanwhile
\* or this query returns tied rows in another order than that of the latest.
Trend(cell, points, order, current) ==
  LET n == Cardinality(points)
      value == [t \in points |-> index[cell][t]]
      rank == [t \in points |-> Cardinality({u \in points : Before(order, u, t)})]
      moment == [t \in points |-> rank[t] * value[t]]
      total == SumFunction(value)
      spread == (n * (n * n - 1)) \div 6
      slope == 2 * SumFunction(moment) - (n - 1) * total
      line == [t \in points |-> 2 * spread * total + n * slope * (2 * rank[t] - (n - 1))]
      residual == [t \in points |-> 2 * n * spread * value[t] - line[t]]
      square == [t \in points |-> residual[t] * residual[t]]
      last == LastRow(points, order)
  IN [n |-> n, expected |-> line[last],
      off |-> Magnitude(2 * n * spread * current - line[last]),
      squares |-> SumFunction(square)]

SpikeRank == [normal |-> 0, stress |-> 1, alert |-> 2, crisis |-> 3]

\* The square of the z-score is n off^2 / squares.
ZBand(trend) ==
  LET z2 == IF trend.squares = 0 THEN 0 ELSE (trend.n * trend.off * trend.off) \div trend.squares
  IN CASE z2 < 1 -> "normal" [] z2 >= 1 /\ z2 < 4 -> "stress"
       [] z2 >= 4 /\ z2 < 9 -> "alert" [] OTHER -> "crisis"

DeviationBand(trend) ==
  LET off == 100 * trend.off
  IN CASE trend.expected = 0 \/ off < 2 * trend.expected -> "normal"
       [] off >= 2 * trend.expected /\ off < 5 * trend.expected -> "stress"
       [] off >= 5 * trend.expected /\ off < 10 * trend.expected -> "alert"
       [] OTHER -> "crisis"

\* A bug: either signal is enough.
StrongerBand(left, right) == IF SpikeRank[left] >= SpikeRank[right] THEN left ELSE right

WeakerBand(left, right) == IF SpikeRank[left] <= SpikeRank[right] THEN left ELSE right

SpikePoints(cell) == PublishedBetween(cell, now - SpikeDays * DayLength, now)

Alerts(latest, order) ==
  LET scored == {cell \in Published(latest) : Cardinality(SpikePoints(cell)) >= MinPoints}
      band == [cell \in scored |->
                 LET trend == Trend(cell, SpikePoints(cell), order, latest[cell].value)
                 IN WeakerBand(ZBand(trend), DeviationBand(trend))]
  IN [cell \in {c \in scored : band[c] # "normal"} |-> band[cell]]

-----------------------------------------------------------------------------
(* The basket.  listed: the code of each commodity the catalogue listed.   *)

Priced(listed, latest) ==
  {code \in DOMAIN Basket :
     /\ \E c \in DOMAIN listed : listed[c] = code /\ CityPrice(latest, c) # NoPrice
     /\ ByCode(code) # {}}

CostNow(listed, latest, code) ==
  Basket[code] * CityPrice(latest, CHOOSE c \in DOMAIN listed : listed[c] = code)

PriorPrice(code, order) ==
  CityMedianOn(CHOOSE c \in ByCode(code) : TRUE, Day(now) - CompareDays, order)

AffordabilityBand(change) ==
  CASE change < 3 * Percent -> "Stable"
    [] change >= 3 * Percent /\ change < 8 * Percent -> "Watch"
    [] change >= 8 * Percent /\ change < 15 * Percent -> "Tightening"
    [] OTHER -> "Severe"

AffordabilityScore(change) == Max({0, Min({100 * Percent, 100 * Percent - 5 * change})})

\* The prior cost sums the items that have a prior price; without any the
\* change is zero.
Affordability(listed, latest, order) ==
  LET priced == Priced(listed, latest)
      compared == {code \in priced : PriorPrice(code, order) # NoPrice}
      cost == MapThenSumSet(LAMBDA code : CostNow(listed, latest, code), priced)
      prior == MapThenSumSet(LAMBDA code : Basket[code] * PriorPrice(code, order), compared)
      change == IF prior > 0 THEN Change(prior, cost) ELSE 0
  IN IF priced # DOMAIN Basket
     THEN [published |-> FALSE, missing |-> DOMAIN Basket \ priced]
     ELSE [published |-> TRUE, missing |-> {}, compared |-> compared, cost |-> cost,
           prior |-> prior, change |-> change, score |-> AffordabilityScore(change),
           band |-> AffordabilityBand(change)]

\* What the copilot advises on a basket: the uplift it recommends.
Advice(basket, coverage) ==
  IF ~basket.published THEN [action |-> "wait_for_coverage", confidence |-> "low"]
  ELSE [action |-> "increase_transfer_value",
        low |-> Max({0, Nearest(85 * basket.change, 100)}),
        high |-> Nearest(105 * basket.change, 100),
        confidence |-> IF 10 * coverage.published >= 7 * coverage.expected
                       THEN "medium" ELSE "low"]

\* The executive summary: an uplift only next to a published basket.
SummaryUplift(basket, advice) ==
  basket.published /\ advice.action = "increase_transfer_value"

-----------------------------------------------------------------------------
(* Business.                                                               *)

FirstOffer(offers) == offers[Min(DOMAIN offers)]

Sourcing(latest, c) ==
  LET offers == Offers(latest, c)
  IN IF DOMAIN offers = {} THEN [median |-> NoPrice]
     ELSE [median |-> CityPrice(latest, c), cheapest |-> Lowest(offers),
           dearest |-> Highest(offers), saving |-> CityPrice(latest, c) - 2 * Lowest(offers)]

Verdict(difference) ==
  CASE difference < -5 * Percent -> "below_market"
    [] difference >= -5 * Percent /\ difference <= 5 * Percent -> "at_market"
    [] difference > 5 * Percent /\ difference <= 20 * Percent -> "above_market"
    [] OTHER -> "far_above_market"

\* The alternative offered is the first published market, not the cheapest.
Benchmark(latest, c, quote) ==
  IF CityPrice(latest, c) = NoPrice THEN [error |-> "unknown_commodity"]
  ELSE [verdict |-> Verdict(Change(CityPrice(latest, c), 2 * quote)),
        alternative |-> FirstOffer(Offers(latest, c))]

\* The teff answer: budget, and where to buy.
AskTeff(latest, c) ==
  IF CityPrice(latest, c) = NoPrice THEN [action |-> "wait_for_coverage"]
  ELSE [action |-> "source_at_alternative_market",
        saving |-> CityPrice(latest, c) - 2 * FirstOffer(Offers(latest, c))]

\* Without a base date the call fails: timedelta is not imported.
CostIndex(latest, listed, items, dated) ==
  LET priced == {c \in DOMAIN listed : listed[c] \in items /\ CityPrice(latest, c) # NoPrice}
  IN CASE ~dated -> [error |-> "NameError"]
       [] dated /\ {listed[c] : c \in priced} # items -> [error |-> "unknown_commodity"]
       [] OTHER -> [index |-> 100,
                    monthly |-> MapThenSumSet(LAMBDA c : CityPrice(latest, c), priced)]
=============================================================================
