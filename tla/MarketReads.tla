----------------------------- MODULE MarketReads -----------------------------
(***************************************************************************)
(* A request for market intelligence, statement by statement, while the    *)
(* catalogue is edited (app/services/reference_data.py) and new index      *)
(* values are stored (app/services/index_calculation.py).                  *)
(*                                                                         *)
(* Every statement sees what is committed when it runs, so an answer is    *)
(* put together from several moments: the catalogue is listed, then the    *)
(* latest cells are loaded, then history is read.                          *)
(***************************************************************************)
EXTENDS PriceReads, Sequences

CONSTANTS
  Databases,  \* markets, commodities, index values and open transactions at the start
  Start,      \* the time at the start
  Batches,    \* the index values a transaction stores: of each cell, by id
  Quotes,     \* quoted prices
  MaxChanges  \* bound: catalogue edits and commits of index values after the start

\* Values of rows computed at these instants.
IndexValues(values, instants) ==
  /\ DOMAIN values \subseteq instants \X Ids
  /\ \A row \in DOMAIN values : values[row] \in Prices \union {NoPrice}

ASSUME StartAssumption == Start \in Instants /\ MaxChanges \in Nat
ASSUME BatchesAssumption ==
  \A batch \in Batches, cell \in Cells :
    /\ DOMAIN batch[cell] \subseteq Ids
    /\ \A id \in DOMAIN batch[cell] : batch[cell][id] \in Prices \union {NoPrice}
\* An index value refers to a market and a commodity.
ASSUME DatabasesAssumption ==
  \A db \in Databases :
    /\ db.markets \in [Markets -> {"absent", "active", "inactive"}]
    /\ db.commodities \in [Commodities -> {NoRow} \union [code: Codes, active: BOOLEAN]]
    /\ DOMAIN db.index = Cells /\ db.open \subseteq 0..Start
    /\ \A cell \in Cells :
         /\ IndexValues(db.index[cell], 0..Start)
         /\ DOMAIN db.index[cell] # {} =>
              db.markets[cell[1]] # "absent" /\ db.commodities[cell[2]] # NoRow

VARIABLES
  open,    \* when the open transactions that will store index values began
  reader,  \* the request in progress
  changes  \* bound: what has been spent of MaxChanges

vars == <<markets, commodities, index, now, open, reader, changes>>

Contents == <<markets, commodities, index>>

\* The parts a request reads one after another, each from the start.
Plan == [current |-> <<"current">>, coverage |-> <<"coverage">>, heatmap |-> <<"heatmap">>,
         alerts |-> <<"alerts">>, series |-> <<"series">>, snapshots |-> <<"snapshots">>,
         sourcing |-> <<"sourcing">>, benchmark |-> <<"benchmark">>,
         business_ask |-> <<"business_ask">>, cost_index |-> <<"cost_index">>,
         reference |-> <<"reference">>, food_line |-> <<"food_line">>, export |-> <<"export">>,
         affordability |-> <<"affordability">>, copilot |-> <<"affordability">>,
         brief |-> <<"affordability", "alerts", "affordability">>]

Kinds == DOMAIN Plan

Narrated == {"copilot", "brief"}

Steps == {"idle", "list", "load", "answer", "narrate", "done"}

\* listed: the markets and the codes of the commodities of the catalogue;
\* parts: the answers so far.
NoList == [markets |-> {}, codes |-> [c \in {} |-> NoRow]]

Idle == [at |-> "idle", kind |-> "current", listed |-> NoList, latest |-> NoCells,
         parts |-> <<>>, mode |-> "none"]

Part == Plan[reader.kind][Len(reader.parts) + 1]

-----------------------------------------------------------------------------
(* The catalogue and the index.                                            *)

Change1 == changes < MaxChanges /\ changes' = changes + 1

CreateMarket(m, status) ==
  /\ Change1
  /\ markets[m] = "absent"
  /\ markets' = [markets EXCEPT ![m] = status]
  /\ UNCHANGED <<commodities, index, now, open, reader>>

UpdateMarket(m, status) ==
  /\ Change1
  /\ m \in KnownMarkets /\ markets[m] # status
  /\ markets' = [markets EXCEPT ![m] = status]
  /\ UNCHANGED <<commodities, index, now, open, reader>>

\* A code that is in use is a conflict, and the transaction is rolled back.
CreateCommodity(c, code, active) ==
  /\ Change1
  /\ commodities[c] = NoRow /\ ByCode(code) = {}
  /\ commodities' = [commodities EXCEPT ![c] = [code |-> code, active |-> active]]
  /\ UNCHANGED <<markets, index, now, open, reader>>

UpdateCommodity(c, code, active) ==
  /\ Change1
  /\ c \in KnownCommodities /\ ByCode(code) \subseteq {c}
  /\ commodities[c] # [code |-> code, active |-> active]
  /\ commodities' = [commodities EXCEPT ![c] = [code |-> code, active |-> active]]
  /\ UNCHANGED <<markets, index, now, open, reader>>

\* A review or a rebuild begins.  (Bound: as long as its commit can be counted,
\* and one at each instant.)
Begin ==
  /\ changes < MaxChanges /\ now \notin open
  /\ open' = open \union {now}
  /\ UNCHANGED <<markets, commodities, index, now, reader, changes>>

\* It commits, however late: a value of one cell, or of a rebuild several,
\* each computed when the transaction began.  Whether a market is active does
\* not matter.
Publish(began, batch) ==
  /\ Change1
  /\ began \in open
  /\ \A cell \in Cells, id \in Ids :
       id \in DOMAIN batch[cell] =>
         cell \in KnownMarkets \X KnownCommodities /\ <<began, id>> \notin DOMAIN index[cell]
  /\ index' = [cell \in Cells |->
                  [row \in DOMAIN index[cell] \union {began} \X DOMAIN batch[cell] |->
                     IF row \in DOMAIN index[cell] THEN index[cell][row]
                     ELSE batch[cell][row[2]]]]
  /\ open' = open \ {began}
  /\ UNCHANGED <<markets, commodities, now, reader>>

RollBack(began) ==
  /\ began \in open
  /\ open' = open \ {began}
  /\ UNCHANGED <<markets, commodities, index, now, reader, changes>>

Tick ==
  /\ now + 1 \in Instants
  /\ now' = now + 1
  /\ UNCHANGED <<markets, commodities, index, open, reader, changes>>

-----------------------------------------------------------------------------
(* The request.                                                            *)

Stored == UNCHANGED <<markets, commodities, index, now, open, changes>>

\* One request: it writes nothing, so another would find what this one found.
Ask(kind) ==
  /\ reader.at = "idle"
  /\ reader' = [reader EXCEPT !.at = "list", !.kind = kind]
  /\ Stored

\* What a part lists: the active rows, or those asked for by code, which may
\* be inactive.  The panel is one query, which lists nothing first.
MarketLists(part) ==
  {ActiveMarkets} \union IF part = "current" THEN {{m} : m \in KnownMarkets} ELSE {}

CommodityLists(part) ==
  LET asked == {{c} : c \in KnownCommodities}
  IN CASE part = "export" -> {}
       [] part \in {"current", "heatmap"} -> {ActiveCommodities} \union asked
       [] part \in {"series", "sourcing", "benchmark", "business_ask"} -> asked
       [] OTHER -> {ActiveCommodities}

ListCatalogue ==
  /\ reader.at = "list"
  /\ \E ms \in MarketLists(Part), cs \in CommodityLists(Part) :
       reader' = [reader EXCEPT !.at = "load",
                    !.listed = [markets |-> ms, codes |-> [c \in cs |-> commodities[c].code]]]
  /\ Stored

LoadLatest ==
  /\ reader.at = "load"
  /\ \E order \in Orders :
       reader' = [reader EXCEPT !.at = "answer",
                    !.latest = LatestCells(reader.listed.markets, DOMAIN reader.listed.codes,
                                           order)]
  /\ Stored

Expected == Cardinality(reader.listed.markets) * Cardinality(DOMAIN reader.listed.codes)

\* The answer to the part: the next part follows, or the narration, or the end.
Reply(coverage, data) ==
  LET parts == Append(reader.parts, [part |-> Part, coverage |-> coverage, data |-> data])
  IN /\ reader' = [reader EXCEPT !.parts = parts, !.listed = NoList, !.latest = NoCells,
                     !.at = CASE Len(parts) < Len(Plan[reader.kind]) -> "list"
                              [] Len(parts) = Len(Plan[reader.kind]) /\ reader.kind \in Narrated
                                 -> "narrate"
                              [] OTHER -> "done"]
     /\ Stored

Answers(part) == reader.at = "answer" /\ Part = part

Listed == reader.listed.codes

Asked == CHOOSE c \in DOMAIN Listed : TRUE

\* /prices/current: the cells, and the price of the city for each commodity.
AnswerCurrent ==
  /\ Answers("current")
  /\ Reply(Meta(reader.latest, Expected), [c \in DOMAIN Listed |-> CityPrice(reader.latest, c)])

\* /coverage: the worst covered cells are those computed longest ago.
AnswerCoverage ==
  /\ Answers("coverage")
  /\ Reply(Meta(reader.latest, Expected),
           {cell \in DOMAIN reader.latest :
              \A other \in DOMAIN reader.latest : reader.latest[cell].at <= reader.latest[other].at})

AnswerHeatmap ==
  /\ Answers("heatmap")
  /\ Reply(Meta(reader.latest, Cardinality(DOMAIN reader.latest)),
           [m \in reader.listed.markets |-> MarketHeat(reader.latest, m)])

AnswerAlerts ==
  /\ Answers("alerts")
  /\ \E order \in Orders : Reply(Meta(reader.latest, Expected), Alerts(reader.latest, order))

\* /prices/series: of the city or of a market asked for by its code.  The markets
\* are listed again for the coverage.
AnswerSeries ==
  LET days == {Day(now) - 1, Day(now)}
      city == [d \in days |-> CityPoint(Asked, d)]
      cell(m, order) == [d \in days |-> CellPoint(m, Asked, d, order)]
  IN /\ Answers("series")
     /\ \E points \in {city} \union {cell(m, order) : m \in KnownMarkets, order \in Orders} :
          Reply(Meta(reader.latest, Cardinality(ActiveMarkets) * Cardinality(DOMAIN Listed)),
                points)

AnswerSnapshots ==
  /\ Answers("snapshots")
  /\ Reply(Meta(reader.latest, Expected), Cardinality(PanelRows(Day(now) - CompareDays, Day(now))))

\* /exports/panel.csv: of the days asked for, whatever became of the markets.
AnswerExport ==
  /\ reader.at = "list" /\ Part = "export"
  /\ Reply(Meta(NoCells, 0), PanelRows(Day(now) - CompareDays, Day(now)))

AnswerReference ==
  /\ Answers("reference")
  /\ Reply(Meta(reader.latest, Expected), reader.listed)

AnswerSourcing ==
  /\ Answers("sourcing")
  /\ Reply(Meta(reader.latest, Expected), Sourcing(reader.latest, Asked))

AnswerBenchmark ==
  /\ Answers("benchmark")
  /\ \E quote \in Quotes :
       Reply(Meta(reader.latest, Expected), Benchmark(reader.latest, Asked, quote))

AnswerBusinessAsk ==
  /\ Answers("business_ask")
  /\ Reply(Meta(reader.latest, Expected), AskTeff(reader.latest, Asked))

AnswerCostIndex ==
  /\ Answers("cost_index")
  /\ \E dated \in BOOLEAN :
       Reply(Meta(reader.latest, Expected),
             CostIndex(reader.latest, Listed, DOMAIN Basket, dated))

AnswerAffordability ==
  /\ Answers("affordability")
  /\ \E order \in Orders :
       Reply(Meta(reader.latest, Expected), Affordability(Listed, reader.latest, order))

\* /meb/food-line: the cost of the basket, with a coverage of nothing.
AnswerFoodLine ==
  /\ Answers("food_line")
  /\ \E order \in Orders : Reply(Meta(NoCells, 0), Affordability(Listed, reader.latest, order))

Basket1 == reader.parts[1].data

\* The advice of a narrated request rests on the basket it read last.
Advised == LET last == reader.parts[Len(reader.parts)] IN Advice(last.data, last.coverage)

\* The language model words the answer, or refuses and the rule's words stand.
\* A timeout is not an AddisChatError: it fails the request.
Outcomes == {"addis_ai", "rule_based", "failed"}

\* It is not called for a copilot that waits for coverage.
Narrate(outcome) ==
  /\ reader.at = "narrate"
  /\ reader.kind = "copilot" /\ ~Basket1.published => outcome = "rule_based"
  /\ reader' = [reader EXCEPT !.at = "done", !.mode = outcome]
  /\ Stored

-----------------------------------------------------------------------------

Init ==
  /\ \E db \in Databases :
       markets = db.markets /\ commodities = db.commodities /\ index = db.index /\ open = db.open
  /\ now = Start /\ changes = 0
  /\ reader = Idle

Edit ==
  \/ \E m \in Markets, status \in {"active", "inactive"} :
       CreateMarket(m, status) \/ UpdateMarket(m, status)
  \/ \E c \in Commodities, code \in Codes, active \in BOOLEAN :
       CreateCommodity(c, code, active) \/ UpdateCommodity(c, code, active)

Compute ==
  \/ Begin
  \/ \E began \in open : RollBack(began) \/ \E batch \in Batches : Publish(began, batch)

Answer ==
  \/ AnswerCurrent \/ AnswerCoverage \/ AnswerHeatmap \/ AnswerAlerts \/ AnswerSeries
  \/ AnswerSnapshots \/ AnswerSourcing \/ AnswerBenchmark \/ AnswerBusinessAsk
  \/ AnswerCostIndex \/ AnswerAffordability \/ AnswerFoodLine \/ AnswerReference
  \/ AnswerExport

Next ==
  \/ Edit \/ Compute \/ Tick
  \/ \E kind \in Kinds : Ask(kind)
  \/ ListCatalogue \/ LoadLatest \/ Answer
  \/ \E outcome \in Outcomes : Narrate(outcome)

Spec == Init /\ [][Next]_vars

-----------------------------------------------------------------------------

Coverages == [expected: Nat, published: Nat, insufficient: Nat]

\* The catalogue, the stored values and the coverage of every answer.
TypeOK ==
  /\ markets \in [Markets -> {"absent", "active", "inactive"}]
  /\ commodities \in [Commodities -> {NoRow} \union [code: Codes, active: BOOLEAN]]
  /\ DOMAIN index = Cells /\ \A cell \in Cells : IndexValues(index[cell], 0..now)
  /\ open \subseteq 0..now
  /\ now \in Instants /\ changes \in 0..MaxChanges
  /\ reader.at \in Steps /\ reader.kind \in Kinds
  /\ reader.listed.markets \subseteq Markets
  /\ DOMAIN reader.listed.codes \subseteq Commodities
  /\ DOMAIN reader.latest \subseteq Cells
  /\ \A i \in DOMAIN reader.parts : reader.parts[i].coverage \in Coverages

\* The published and the insufficient cells of an answer are the cells of the
\* catalogue it listed, however the catalogue is edited between its
\* statements.  (/prices/series lists the markets twice, and can report more
\* published cells than it expects.)
CoverageAddsUp ==
  \A i \in DOMAIN reader.parts :
    LET answer == reader.parts[i]
    IN answer.part # "series" =>
         answer.coverage.published + answer.coverage.insufficient = answer.coverage.expected

\* A day is over once no transaction that began on it can still commit.
Over(d) == d < Day(now) /\ \A began \in open : Day(began) # d

\* What is read of a day by the code of a commodity, when the rows come in this
\* order: the price of the city, its point of the series, those of the markets.
Past(code, d, order) ==
  [c \in ByCode(code) |->
     [city |-> CityMedianOn(c, d, order), point |-> CityPoint(c, d),
      cells |-> [m \in Markets |-> CellPoint(m, c, d, order)]]]

\* Of a day that is over, the panel stays row for row as it is, and so does what
\* the series and the prior basket say of it, in each order: no commit, however
\* late, and no edit of the catalogue rewrites it.  Only a code that is given to
\* another commodity, or to none, takes its past along.  (Two reads may still
\* differ in which of the values of one rebuild they take.)
HistoryIsFixed ==
  [][Contents' # Contents =>
       \A d \in {Day(t) : t \in Instants} : Over(d) =>
         /\ PanelRows(d, d)' = PanelRows(d, d)
         /\ \A code \in Codes, order \in Orders :
              ByCode(code)' = ByCode(code) => Past(code, d, order)' = Past(code, d, order)
    ]_Contents

\* A current value that is the last of the points its trend is fitted to is too
\* close to its own line for a spike in a short history: below eight points it
\* is no alert, below thirteen no crisis, however high it is.  (It is not the
\* last when a row was added after it was loaded, or when the tied rows of a
\* rebuild come in another order.)
SpikesNeedHistory ==
  reader.at = "answer" /\ Part = "alerts" =>
    \A order \in Orders :
      LET alerts == Alerts(reader.latest, order)
      IN \A cell \in DOMAIN alerts :
           LET points == SpikePoints(cell)
           IN reader.latest[cell].value = index[cell][LastRow(points, order)] =>
                /\ alerts[cell] = "alert" => Cardinality(points) >= 8
                /\ alerts[cell] = "crisis" => Cardinality(points) >= 13

\* A published basket compares the same commodities: its prior cost is the
\* cost of all of them ("No partial baskets").
WholeBaskets ==
  \A i \in DOMAIN reader.parts :
    reader.parts[i].part = "affordability" /\ reader.parts[i].data.published =>
      reader.parts[i].data.compared = DOMAIN Basket
=============================================================================
