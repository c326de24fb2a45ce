--------------------------- MODULE MarketReadsProofs ---------------------------
(***************************************************************************)
(* Proofs about MarketReads, for any catalogue, any index and any length   *)
(* of a day: its types, that coverages add up, that the past stays as it   *)
(* was, and that a short history raises no alert.                          *)
(***************************************************************************)
EXTENDS MarketReads, FiniteSetTheorems, SequenceTheorems, WellFoundedInduction, TLAPS

(* The fields of a request, whatever is in them.                            *)
IsReader(r) ==
  /\ r = [at |-> r.at, kind |-> r.kind, listed |-> r.listed, latest |-> r.latest,
          parts |-> r.parts, mode |-> r.mode]
  /\ r.listed = [markets |-> r.listed.markets, codes |-> r.listed.codes]

Answered == {reader.parts[i] : i \in DOMAIN reader.parts}

(* What was loaded is what was listed.                                      *)
LoadedIsListed ==
  reader.at = "answer" =>
    DOMAIN reader.latest = reader.listed.markets \X DOMAIN reader.listed.codes

(* An index value refers to a market and a commodity.                       *)
Referenced ==
  \A cell \in Cells : DOMAIN index[cell] # {} => cell \in KnownMarkets \X KnownCommodities

IInv ==
  /\ TypeOK
  /\ Referenced
  /\ IsReader(reader)
  /\ reader.parts \in Seq(Answered)
  /\ LoadedIsListed
  /\ CoverageAddsUp

-----------------------------------------------------------------------------
(* Lemmas about the operators.                                             *)

(* The published cells and the others make up the expected ones, when what  *)
(* is expected is what was loaded.                                          *)
LEMMA MetaAdds ==
  ASSUME NEW latest, IsFiniteSet(DOMAIN latest), NEW expected \in Nat
  PROVE  /\ Meta(latest, expected) \in Coverages
         /\ expected = Cardinality(DOMAIN latest) =>
              LET c == Meta(latest, expected) IN c.published + c.insufficient = c.expected
<1>1. Published(latest) \subseteq DOMAIN latest
  BY DEF Published
<1>2. /\ Cardinality(Published(latest)) \in Nat
      /\ Cardinality(Published(latest)) <= Cardinality(DOMAIN latest)
  BY <1>1, FS_Subset, FS_CardinalityType
<1> DEFINE p == Cardinality(Published(latest))
<1>3. Meta(latest, expected) =
        [expected |-> expected, published |-> p,
         insufficient |-> IF expected >= p THEN expected - p ELSE 0]
  BY DEF Meta
<1>4. p \in Nat /\ p <= Cardinality(DOMAIN latest)
  BY <1>2
<1> HIDE DEF p
<1>5. Meta(latest, expected) \in Coverages
  BY <1>3, <1>4 DEF Coverages
<1>6. ASSUME expected = Cardinality(DOMAIN latest)
      PROVE  LET c == Meta(latest, expected) IN c.published + c.insufficient = c.expected
  BY <1>3, <1>4, <1>6
<1> QED
  BY <1>5, <1>6

(* What holds of a finite set when it holds of the set without any one member *)
(* holds of every finite set: the strict subsets are well founded.          *)
LEMMA SetInduction ==
  ASSUME NEW S, IsFiniteSet(S), NEW G, {} \in G,
         \A T \in SUBSET S : T # {} /\ (\A x \in T : T \ {x} \in G) => T \in G
  PROVE  \A T \in SUBSET S : T \in G
<1>. DEFINE B == {T \in SUBSET S : T \notin G}
<1>1. SUFFICES ASSUME B # {} PROVE FALSE
  OBVIOUS
<1>2. FiniteSubsetsOf(S) = SUBSET S
  BY FS_FiniteSubsetsOfFinite
<1>3. IsWellFoundedOn(StrictSubsetOrdering(S), SUBSET S)
  BY <1>2, FS_StrictSubsetOrderingWellFounded
<1>4. B \subseteq SUBSET S
  OBVIOUS
<1>5. PICK T \in B : \A U \in B : ~(<<U, T>> \in StrictSubsetOrdering(S))
  <2>. HIDE DEF B
  <2>. QED
    BY <1>1, <1>3, <1>4, WFMin
<1>6. T # {} /\ T \in SUBSET S /\ T \notin G
  OBVIOUS
<1>7. PICK x \in T : T \ {x} \notin G
  BY <1>6
<1>8. T \ {x} \in B /\ <<T \ {x}, T>> \in StrictSubsetOrdering(S)
  BY <1>6, <1>7 DEF StrictSubsetOrdering
<1>. QED
  BY <1>5, <1>8

(* A set of rows.                                                           *)
Rows == Nat \X Ids

(* Of instants up to a bound there are finitely many rows.                  *)
LEMMA BoundedIsFinite ==
  ASSUME NEW b \in Nat, NEW S, S \subseteq (0..b) \X Ids
  PROVE  IsFiniteSet(S) /\ S \subseteq Rows
<1>1. MaxTied \in Nat /\ Ids = 1..MaxTied
  BY ValuesAssumption DEF Ids
<1>2. IsFiniteSet(0..b) /\ IsFiniteSet(1..MaxTied)
  BY <1>1, FS_Interval
<1>3. IsFiniteSet((0..b) \X Ids)
  BY <1>1, <1>2, FS_Product
<1>4. IsFiniteSet(S)
  BY <1>3, FS_Subset
<1>5. (0..b) \X Ids \subseteq Rows
  BY DEF Rows
<1>. QED
  BY <1>4, <1>5

(* An order gives each of the tied rows a place of its own.                 *)
LEMMA OrderType ==
  ASSUME NEW order \in Orders
  PROVE  \A i \in Ids : /\ order[i] \in Ids /\ order[i] \in Nat
                        /\ \A j \in Ids : order[i] = order[j] => i = j
<1>1. order \in [Ids -> Ids] /\ IsInjective(order)
  BY DEF Orders, Bijection, Injection
<1>2. Ids \subseteq Nat
  BY ValuesAssumption DEF Ids
<1>. QED
  BY <1>1, <1>2 DEF IsInjective

(* Whatever the order of the tied ones, the rows are in one.                *)
LEMMA OrderIsTotal ==
  ASSUME NEW order \in Orders, NEW r \in Rows, NEW s \in Rows
  PROVE  /\ r # s => Before(order, r, s) \/ Before(order, s, r)
         /\ ~(Before(order, r, s) /\ Before(order, s, r))
         /\ ~Before(order, r, r)
<1>1. r[1] \in Nat /\ s[1] \in Nat /\ r[2] \in Ids /\ s[2] \in Ids
  BY DEF Rows
<1>2. order[r[2]] \in Nat /\ order[s[2]] \in Nat
  BY <1>1, OrderType
<1>3. order[r[2]] = order[s[2]] => r[2] = s[2]
  BY <1>1, OrderType
<1>4. r[1] = s[1] /\ r[2] = s[2] => r = s
  BY DEF Rows
<1>. QED
  BY <1>1, <1>2, <1>3, <1>4 DEF Before

(* Nor do they come in a circle.                                            *)
LEMMA OrderIsTransitive ==
  ASSUME NEW order \in Orders, NEW r \in Rows, NEW s \in Rows, NEW t \in Rows,
         Before(order, r, s), Before(order, s, t)
  PROVE  Before(order, r, t)
<1>1. \A x \in {r, s, t} : x[1] \in Nat /\ order[x[2]] \in Nat
  BY OrderType DEF Rows
<1>. QED
  BY <1>1 DEF Before

(* A finite set of rows has a last one.                                     *)
LEMMA LastIsOne ==
  ASSUME NEW order \in Orders, NEW S, IsFiniteSet(S), S \subseteq Rows, S # {}
  PROVE  /\ LastRow(S, order) \in S
         /\ \A x \in S \ {LastRow(S, order)} : Before(order, x, LastRow(S, order))
<1>. DEFINE Last(T, l) == l \in T /\ \A x \in T \ {l} : Before(order, x, l)
            G == {T \in SUBSET S : T # {} => \E l \in T : Last(T, l)}
<1>1. {} \in G
  OBVIOUS
<1>2. ASSUME NEW T \in SUBSET S, T # {}, \A x \in T : T \ {x} \in G
      PROVE  \E l \in T : Last(T, l)
  <2>1. PICK x \in T : TRUE
    BY <1>2
  <2>2. CASE T = {x}
    BY <2>2
  <2>3. CASE T # {x}
    <3>1. T \ {x} # {} /\ T \ {x} \in G
      BY <1>2, <2>3
    <3>2. PICK l \in T \ {x} : Last(T \ {x}, l)
      BY <3>1
    <3>3. x \in Rows /\ l \in Rows /\ x # l /\ \A y \in T : y \in Rows
      OBVIOUS
    <3>4. CASE Before(order, x, l)
      <4>1. \A y \in T \ {l} : Before(order, y, l)
        BY <3>2, <3>4
      <4>. QED
        BY <4>1
    <3>5. CASE Before(order, l, x)
      <4>1. \A y \in T \ {x} : Before(order, y, x)
        BY <3>2, <3>3, <3>5, OrderIsTransitive
      <4>. QED
        BY <4>1
    <3>. QED
      BY <3>3, <3>4, <3>5, OrderIsTotal
  <2>. QED
    BY <2>2, <2>3
<1>3. \A T \in SUBSET S : T \in G
  <2>. HIDE DEF Last
  <2>1. \A T \in SUBSET S : T # {} /\ (\A x \in T : T \ {x} \in G) => T \in G
    BY <1>2
  <2>. HIDE DEF G
  <2>. QED
    BY <1>1, <2>1, SetInduction
<1>4. \E l \in S : Last(S, l)
  BY <1>3
<1>. QED
  BY <1>4 DEF LastRow

(* The catalogue is finite.                                                 *)
LEMMA FiniteCatalogue ==
  ASSUME NEW ms, ms \subseteq Markets, NEW cs, cs \subseteq Commodities
  PROVE  /\ IsFiniteSet(ms) /\ IsFiniteSet(cs) /\ IsFiniteSet(ms \X cs)
         /\ Cardinality(ms) \in Nat /\ Cardinality(cs) \in Nat
         /\ Cardinality(ms) * Cardinality(cs) \in Nat
         /\ Cardinality(ms \X cs) = Cardinality(ms) * Cardinality(cs)
<1>1. IsFiniteSet(ms) /\ IsFiniteSet(cs)
  BY IdsAssumption, FS_Subset
<1>2. Cardinality(ms) \in Nat /\ Cardinality(cs) \in Nat
  BY <1>1, FS_CardinalityType
<1>3. /\ IsFiniteSet(ms \X cs)
      /\ Cardinality(ms \X cs) = Cardinality(ms) * Cardinality(cs)
  BY <1>1, FS_Product
<1> QED
  BY <1>1, <1>2, <1>3, SMT

(* The references hold as long as the catalogue and the index stay.         *)
LEMMA FixedReferences ==
  ASSUME IInv, UNCHANGED <<markets, commodities, index>>
  PROVE  Referenced'
BY DEF IInv, Referenced, KnownMarkets, KnownCommodities

LEMMA FixedReader ==
  ASSUME IInv, UNCHANGED reader
  PROVE  IsReader(reader)' /\ reader.parts' \in Seq(Answered') /\ LoadedIsListed' /\ CoverageAddsUp'
BY DEF IInv, IsReader, Answered, LoadedIsListed, CoverageAddsUp

-----------------------------------------------------------------------------
(* The invariant.                                                          *)

LEMMA InitKeeps == Init => IInv
<1> SUFFICES ASSUME Init PROVE IInv
  OBVIOUS
<1>1. PICK db \in Databases :
        markets = db.markets /\ commodities = db.commodities /\ index = db.index /\ open = db.open
  BY DEF Init
<1>2. /\ db.markets \in [Markets -> {"absent", "active", "inactive"}]
      /\ db.commodities \in [Commodities -> {NoRow} \union [code: Codes, active: BOOLEAN]]
      /\ DOMAIN db.index = Cells /\ db.open \subseteq 0..Start
      /\ \A cell \in Cells :
           /\ IndexValues(db.index[cell], 0..Start)
           /\ DOMAIN db.index[cell] # {} =>
                db.markets[cell[1]] # "absent" /\ db.commodities[cell[2]] # NoRow
  BY DatabasesAssumption
<1>3. /\ reader.at = "idle" /\ reader.kind = "current" /\ reader.listed.markets = {}
      /\ DOMAIN reader.listed.codes = {} /\ DOMAIN reader.latest = {} /\ reader.parts = <<>>
      /\ IsReader(reader)
  BY DEF Init, Idle, NoList, NoCells, IsReader
<1>4. now = Start /\ changes = 0
  BY DEF Init
<1>5. TypeOK
  <2>1. now \in Instants /\ changes \in 0..MaxChanges
    BY <1>4, StartAssumption
  <2>2. "current" \in Kinds /\ "idle" \in Steps
    BY DEF Kinds, Plan, Steps
  <2> QED
    BY <1>1, <1>2, <1>3, <1>4, <2>1, <2>2 DEF TypeOK
<1>6. Referenced
  BY <1>1, <1>2 DEF Referenced, KnownMarkets, KnownCommodities, Cells
<1>7. reader.parts \in Seq(Answered)
  BY <1>3, EmptySeq
<1>8. DOMAIN reader.parts = {}
  BY <1>3
<1> QED
  BY <1>3, <1>5, <1>6, <1>7, <1>8 DEF IInv, LoadedIsListed, CoverageAddsUp

(* The part being answered.                                                 *)
LEMMA ReplyKeeps ==
  ASSUME IInv, NEW coverage \in Coverages, NEW data, Reply(coverage, data),
         Part # "series" => coverage.published + coverage.insufficient = coverage.expected
  PROVE  IInv'
<1> DEFINE answer == [part |-> Part, coverage |-> coverage, data |-> data]
           parts == Append(reader.parts, answer)
           S == Answered \union {answer}
<1>1. /\ reader.parts \in Seq(S) /\ answer \in S
      /\ Len(reader.parts) \in Nat /\ DOMAIN reader.parts = 1..Len(reader.parts)
  BY DEF IInv
<1>2. /\ parts \in Seq(S)
      /\ DOMAIN parts = 1..(Len(reader.parts) + 1)
      /\ \A i \in DOMAIN reader.parts : parts[i] = reader.parts[i]
      /\ parts[Len(reader.parts) + 1] = answer
  <2> HIDE DEF answer, S
  <2> QED
    BY <1>1
<1>3. /\ reader'.parts = parts /\ reader'.kind = reader.kind
      /\ reader'.listed = NoList /\ reader'.latest = NoCells
      /\ reader'.at \in {"list", "narrate", "done"}
      /\ IsReader(reader')
  <2> HIDE DEF answer
  <2>1. reader'.at \in {"list", "narrate", "done"}
    BY DEF Reply, IInv, IsReader
  <2> QED
    BY <2>1 DEF Reply, IInv, IsReader, NoList, answer
<1>4. UNCHANGED <<markets, commodities, index, now, open, changes>>
  BY DEF Reply, Stored
<1>5. \A i \in DOMAIN parts : parts[i] = answer \/ (i \in DOMAIN reader.parts /\ parts[i] = reader.parts[i])
  BY <1>1, <1>2
<1>6. \A i \in DOMAIN reader.parts : i \in DOMAIN parts
  BY <1>1, <1>2
<1> HIDE DEF parts
<1>7. parts \in Seq({parts[i] : i \in DOMAIN parts})
  <2>1. Len(reader.parts) + 1 \in DOMAIN parts
    BY <1>1, <1>2
  <2>2. S \subseteq {parts[i] : i \in DOMAIN parts}
    BY <1>2, <1>6, <2>1 DEF Answered
  <2> QED
    BY <1>2, <2>2, SeqMonotonic
<1>8. \A i \in DOMAIN parts : parts[i].coverage \in Coverages
  BY <1>5 DEF IInv, TypeOK
<1>9. TypeOK'
  <2>1. reader'.at \in Steps
    BY <1>3 DEF Steps
  <2>2. reader'.listed.markets = {} /\ DOMAIN reader'.listed.codes = {} /\ DOMAIN reader'.latest = {}
    BY <1>3 DEF NoList, NoCells
  <2> QED
    BY <1>3, <1>4, <1>8, <2>1, <2>2 DEF IInv, TypeOK
<1>10. CoverageAddsUp'
  BY <1>3, <1>5 DEF IInv, CoverageAddsUp
<1>11. Referenced'
  BY <1>4, FixedReferences
<1> QED
  BY <1>3, <1>7, <1>9, <1>10, <1>11 DEF IInv, Answered, LoadedIsListed

(* What every answer that loaded its cells has in hand.                     *)
LEMMA Loaded ==
  ASSUME IInv, reader.at = "answer"
  PROVE  /\ Expected \in Nat /\ IsFiniteSet(DOMAIN reader.latest)
         /\ Expected = Cardinality(DOMAIN reader.latest)
<1> DEFINE ms == reader.listed.markets
           cs == DOMAIN reader.listed.codes
<1>1. ms \subseteq Markets /\ cs \subseteq Commodities /\ DOMAIN reader.latest = ms \X cs
  BY DEF IInv, TypeOK, LoadedIsListed
<1>2. Expected = Cardinality(ms) * Cardinality(cs)
  BY DEF Expected
<1> HIDE DEF ms, cs
<1> QED
  BY <1>1, <1>2, FiniteCatalogue

LEMMA NothingLoaded ==
  /\ Meta(NoCells, 0) \in Coverages
  /\ LET c == Meta(NoCells, 0) IN c.published + c.insufficient = c.expected
<1>1. DOMAIN NoCells = {} /\ IsFiniteSet({}) /\ Cardinality({}) = 0
  BY FS_EmptySet DEF NoCells
<1> QED
  BY <1>1, MetaAdds

LEMMA AnswerKeeps ==
  ASSUME IInv, Answer
  PROVE  IInv'
<1>1. ASSUME NEW data, reader.at = "answer", Reply(Meta(reader.latest, Expected), data)
      PROVE  IInv'
  BY <1>1, Loaded, MetaAdds, ReplyKeeps
<1>2. ASSUME NEW data, Reply(Meta(NoCells, 0), data)
      PROVE  IInv'
  BY <1>2, NothingLoaded, ReplyKeeps
<1>3. CASE AnswerCurrent
  BY <1>1, <1>3 DEF AnswerCurrent, Answers
<1>4. CASE AnswerCoverage
  BY <1>1, <1>4 DEF AnswerCoverage, Answers
<1>5. CASE AnswerHeatmap
  BY <1>5, Loaded, MetaAdds, ReplyKeeps DEF AnswerHeatmap, Answers
<1>6. CASE AnswerAlerts
  BY <1>1, <1>6 DEF AnswerAlerts, Answers
<1>7. CASE AnswerSeries
  <2>1. ActiveMarkets \subseteq Markets /\ DOMAIN Listed \subseteq Commodities
    BY DEF ActiveMarkets, Listed, IInv, TypeOK
  <2>2. Cardinality(ActiveMarkets) * Cardinality(DOMAIN Listed) \in Nat
    BY <2>1, FiniteCatalogue
  <2> QED
    BY <1>7, <2>2, Loaded, MetaAdds, ReplyKeeps DEF AnswerSeries, Answers
<1>8. CASE AnswerSnapshots
  BY <1>1, <1>8 DEF AnswerSnapshots, Answers
<1>9. CASE AnswerSourcing
  BY <1>1, <1>9 DEF AnswerSourcing, Answers
<1>10. CASE AnswerBenchmark
  BY <1>1, <1>10 DEF AnswerBenchmark, Answers
<1>11. CASE AnswerBusinessAsk
  BY <1>1, <1>11 DEF AnswerBusinessAsk, Answers
<1>12. CASE AnswerCostIndex
  BY <1>1, <1>12 DEF AnswerCostIndex, Answers
<1>13. CASE AnswerAffordability
  BY <1>1, <1>13 DEF AnswerAffordability, Answers
<1>14. CASE AnswerFoodLine
  BY <1>2, <1>14 DEF AnswerFoodLine
<1>15. CASE AnswerReference
  BY <1>1, <1>15 DEF AnswerReference, Answers
<1>16. CASE AnswerExport
  BY <1>2, <1>16 DEF AnswerExport
<1> QED
  BY <1>3, <1>4, <1>5, <1>6, <1>7, <1>8, <1>9, <1>10, <1>11, <1>12, <1>13, <1>14, <1>15, <1>16
     DEF Answer

LEMMA EditKeeps ==
  ASSUME IInv, Edit
  PROVE  IInv'
<1>1. /\ UNCHANGED <<index, now, open, reader>> /\ changes' \in 0..MaxChanges
      /\ markets' \in [Markets -> {"absent", "active", "inactive"}]
      /\ commodities' \in [Commodities -> {NoRow} \union [code: Codes, active: BOOLEAN]]
      /\ KnownMarkets \subseteq KnownMarkets' /\ KnownCommodities \subseteq KnownCommodities'
  <2>1. ASSUME NEW m \in Markets, NEW status \in {"active", "inactive"},
               CreateMarket(m, status) \/ UpdateMarket(m, status)
        PROVE  /\ UNCHANGED <<index, now, open, reader, commodities>> /\ changes' \in 0..MaxChanges
               /\ markets' \in [Markets -> {"absent", "active", "inactive"}]
               /\ KnownMarkets \subseteq KnownMarkets'
    BY <2>1, StartAssumption DEF CreateMarket, UpdateMarket, Change1, KnownMarkets, IInv, TypeOK
  <2>2. ASSUME NEW c \in Commodities, NEW code \in Codes, NEW active \in BOOLEAN,
               CreateCommodity(c, code, active) \/ UpdateCommodity(c, code, active)
        PROVE  /\ UNCHANGED <<index, now, open, reader, markets>> /\ changes' \in 0..MaxChanges
               /\ commodities' = [commodities EXCEPT ![c] = [code |-> code, active |-> active]]
    BY <2>2, StartAssumption DEF CreateCommodity, UpdateCommodity, Change1, IInv, TypeOK
  <2>3. ASSUME NEW c \in Commodities, NEW code \in Codes, NEW active \in BOOLEAN,
               commodities' = [commodities EXCEPT ![c] = [code |-> code, active |-> active]]
        PROVE  /\ commodities' \in [Commodities -> {NoRow} \union [code: Codes, active: BOOLEAN]]
               /\ KnownCommodities \subseteq KnownCommodities'
    <3>1. [code |-> code, active |-> active] \in [code: Codes, active: BOOLEAN]
      OBVIOUS
    <3>2. /\ [code |-> code, active |-> active] # NoRow
          /\ commodities \in [Commodities -> {NoRow} \union [code: Codes, active: BOOLEAN]]
      BY <3>1, CodesAssumption DEF IInv, TypeOK
    <3> QED
      BY <2>3, <3>1, <3>2 DEF KnownCommodities
  <2>4. UNCHANGED commodities =>
          /\ commodities' \in [Commodities -> {NoRow} \union [code: Codes, active: BOOLEAN]]
          /\ KnownCommodities \subseteq KnownCommodities'
    BY DEF KnownCommodities, IInv, TypeOK
  <2>5. UNCHANGED markets => /\ markets' \in [Markets -> {"absent", "active", "inactive"}]
                             /\ KnownMarkets \subseteq KnownMarkets'
    BY DEF KnownMarkets, IInv, TypeOK
  <2> QED
    BY <2>1, <2>2, <2>3, <2>4, <2>5 DEF Edit
<1>2. TypeOK'
  BY <1>1 DEF IInv, TypeOK, IndexValues
<1>3. Referenced'
  BY <1>1 DEF IInv, Referenced
<1> QED
  BY <1>1, <1>2, <1>3, FixedReader DEF IInv

(* The transactions that store values.                                      *)
LEMMA ComputeKeeps ==
  ASSUME IInv, Compute
  PROVE  IInv'
<1>1. now \in Nat /\ open \subseteq 0..now
  BY ValuesAssumption DEF IInv, TypeOK
<1>2. CASE Begin
  <2>1. open' = open \union {now} /\ UNCHANGED <<markets, commodities, index, now, reader, changes>>
    BY <1>2 DEF Begin
  <2>2. open' \subseteq 0..now'
    BY <1>1, <2>1
  <2>3. TypeOK'
    BY <2>1, <2>2 DEF IInv, TypeOK, IndexValues
  <2> QED
    BY <2>1, <2>3, FixedReader, FixedReferences DEF IInv
<1>3. ASSUME NEW began \in open, RollBack(began)
      PROVE  IInv'
  <2>1. open' \subseteq open /\ UNCHANGED <<markets, commodities, index, now, reader, changes>>
    BY <1>3 DEF RollBack
  <2>2. open' \subseteq 0..now'
    BY <1>1, <2>1
  <2>3. TypeOK'
    BY <2>1, <2>2 DEF IInv, TypeOK, IndexValues
  <2> QED
    BY <2>1, <2>3, FixedReader, FixedReferences DEF IInv
<1>4. ASSUME NEW began \in open, NEW batch \in Batches, Publish(began, batch)
      PROVE  IInv'
  <2>1. /\ open' \subseteq open /\ UNCHANGED <<markets, commodities, now, reader>>
        /\ changes' \in 0..MaxChanges /\ began \in 0..now /\ DOMAIN index' = Cells
    BY <1>1, <1>4, StartAssumption DEF Publish, Change1, IInv, TypeOK
  <2>2. ASSUME NEW cell \in Cells
        PROVE  IndexValues(index'[cell], 0..now')
    <3>1. /\ DOMAIN batch[cell] \subseteq Ids
          /\ \A id \in DOMAIN batch[cell] : batch[cell][id] \in Prices \union {NoPrice}
      BY BatchesAssumption
    <3>2. /\ DOMAIN index[cell] \subseteq (0..now) \X Ids
          /\ \A row \in DOMAIN index[cell] : index[cell][row] \in Prices \union {NoPrice}
      BY DEF IInv, TypeOK, IndexValues
    <3>3. index'[cell] = [row \in DOMAIN index[cell] \union {began} \X DOMAIN batch[cell] |->
                            IF row \in DOMAIN index[cell] THEN index[cell][row]
                            ELSE batch[cell][row[2]]]
      BY <1>4 DEF Publish
    <3>4. /\ DOMAIN index'[cell] = DOMAIN index[cell] \union {began} \X DOMAIN batch[cell]
          /\ \A row \in DOMAIN index'[cell] :
               index'[cell][row] = IF row \in DOMAIN index[cell] THEN index[cell][row]
                                   ELSE batch[cell][row[2]]
      BY <3>3
    <3>5. DOMAIN index'[cell] \subseteq (0..now) \X Ids
      BY <2>1, <3>1, <3>2, <3>4
    <3>6. \A row \in DOMAIN index'[cell] : index'[cell][row] \in Prices \union {NoPrice}
      BY <3>1, <3>2, <3>4
    <3> QED
      BY <2>1, <3>5, <3>6 DEF IndexValues
  <2>3. open' \subseteq 0..now'
    BY <1>1, <2>1
  <2>4. TypeOK'
    BY <2>1, <2>2, <2>3 DEF IInv, TypeOK
  <2>5. Referenced'
    <3>1. ASSUME NEW cell \in Cells, DOMAIN index'[cell] # {}
          PROVE  cell \in KnownMarkets \X KnownCommodities
      <4>1. DOMAIN index[cell] # {} \/ \E id \in Ids : id \in DOMAIN batch[cell]
        BY <1>4, <3>1, BatchesAssumption DEF Publish
      <4> QED
        BY <1>4, <4>1 DEF Publish, IInv, Referenced
    <3> QED
      BY <2>1, <3>1 DEF Referenced, KnownMarkets, KnownCommodities
  <2> QED
    BY <2>1, <2>4, <2>5, FixedReader DEF IInv
<1> QED
  BY <1>2, <1>3, <1>4 DEF Compute

LEMMA RequestKeeps ==
  ASSUME IInv,
         (\E kind \in Kinds : Ask(kind)) \/ ListCatalogue \/ LoadLatest
           \/ \E outcome \in Outcomes : Narrate(outcome)
  PROVE  IInv'
<1>1. ASSUME NEW kind \in Kinds, Ask(kind)
      PROVE  IInv'
  <2>1. /\ reader'.at = "list" /\ reader'.kind = kind /\ reader'.listed = reader.listed
        /\ reader'.latest = reader.latest /\ reader'.parts = reader.parts /\ IsReader(reader')
    BY <1>1 DEF Ask, IInv, IsReader
  <2>2. UNCHANGED <<markets, commodities, index, now, open, changes>> /\ "list" \in Steps
    BY <1>1 DEF Ask, Stored, Steps
  <2> QED
    BY <2>1, <2>2, FixedReferences DEF IInv, TypeOK, Answered, LoadedIsListed, CoverageAddsUp
<1>2. CASE ListCatalogue
  <2>1. PICK ms \in MarketLists(Part), cs \in CommodityLists(Part) :
          reader' = [reader EXCEPT !.at = "load",
                       !.listed = [markets |-> ms,
                                   codes |-> [c \in cs |-> commodities[c].code]]]
    BY <1>2 DEF ListCatalogue
  <2>2. ms \subseteq Markets
    BY DEF MarketLists, ActiveMarkets, KnownMarkets
  <2>3. cs \subseteq Commodities
    <3>1. ActiveCommodities \subseteq Commodities
      BY DEF ActiveCommodities, KnownCommodities
    <3>2. \A x \in {{c} : c \in KnownCommodities} : x \subseteq Commodities
      BY DEF KnownCommodities
    <3>3. cs \in {ActiveCommodities} \union {{c} : c \in KnownCommodities}
      BY DEF CommodityLists
    <3> QED
      BY <3>1, <3>2, <3>3
  <2>4. /\ reader'.at = "load" /\ reader'.kind = reader.kind
        /\ reader'.listed.markets = ms /\ DOMAIN reader'.listed.codes = cs
        /\ reader'.latest = reader.latest /\ reader'.parts = reader.parts /\ IsReader(reader')
    BY <2>1 DEF IInv, IsReader
  <2>5. UNCHANGED <<markets, commodities, index, now, open, changes>> /\ "load" \in Steps
    BY <1>2 DEF ListCatalogue, Stored, Steps
  <2> QED
    BY <2>2, <2>3, <2>4, <2>5, FixedReferences
       DEF IInv, TypeOK, Answered, LoadedIsListed, CoverageAddsUp
<1>3. CASE LoadLatest
  <2> DEFINE cells == reader.listed.markets \X DOMAIN reader.listed.codes
  <2>1. cells \subseteq Cells
    BY DEF IInv, TypeOK, Cells
  <2>2. /\ reader'.at = "answer" /\ reader'.kind = reader.kind /\ reader'.listed = reader.listed
        /\ DOMAIN reader'.latest = cells /\ reader'.parts = reader.parts /\ IsReader(reader')
    <3>1. PICK order \in Orders :
            reader' = [reader EXCEPT !.at = "answer",
                         !.latest = LatestCells(reader.listed.markets, DOMAIN reader.listed.codes,
                                                order)]
      BY <1>3 DEF LoadLatest
    <3> QED
      BY <3>1 DEF LatestCells, IInv, IsReader
  <2>3. UNCHANGED <<markets, commodities, index, now, open, changes>> /\ "answer" \in Steps
    BY <1>3 DEF LoadLatest, Stored, Steps
  <2> QED
    BY <2>1, <2>2, <2>3, FixedReferences
       DEF IInv, TypeOK, Answered, LoadedIsListed, CoverageAddsUp
<1>4. ASSUME NEW outcome \in Outcomes, Narrate(outcome)
      PROVE  IInv'
  <2>1. /\ reader'.at = "done" /\ reader'.kind = reader.kind /\ reader'.listed = reader.listed
        /\ reader'.latest = reader.latest /\ reader'.parts = reader.parts /\ IsReader(reader')
    BY <1>4 DEF Narrate, IInv, IsReader
  <2>2. UNCHANGED <<markets, commodities, index, now, open, changes>> /\ "done" \in Steps
    BY <1>4 DEF Narrate, Stored, Steps
  <2> QED
    BY <2>1, <2>2, FixedReferences DEF IInv, TypeOK, Answered, LoadedIsListed, CoverageAddsUp
<1> QED
  BY <1>1, <1>2, <1>3, <1>4

LEMMA NextKeeps == IInv /\ [Next]_vars => IInv'
<1> SUFFICES ASSUME IInv, [Next]_vars PROVE IInv'
  OBVIOUS
<1>1. CASE Tick
  <2>1. now \in Nat /\ now' = now + 1 /\ now' \in Instants
    BY <1>1, ValuesAssumption DEF Tick, IInv, TypeOK
  <2>2. UNCHANGED <<markets, commodities, index, open, reader, changes>>
    BY <1>1 DEF Tick
  <2>3. 0..now \subseteq 0..now'
    BY <2>1
  <2>4. \A cell \in Cells : IndexValues(index'[cell], 0..now')
    BY <2>2, <2>3 DEF IInv, TypeOK, IndexValues
  <2>5. TypeOK'
    BY <2>1, <2>2, <2>3, <2>4 DEF IInv, TypeOK
  <2> QED
    BY <2>2, <2>5, FixedReader, FixedReferences DEF IInv
<1>2. CASE UNCHANGED vars
  <2>1. TypeOK'
    BY <1>2 DEF vars, IInv, TypeOK, IndexValues
  <2> QED
    BY <1>2, <2>1, FixedReader, FixedReferences DEF vars, IInv
<1> QED
  BY <1>1, <1>2, EditKeeps, ComputeKeeps, RequestKeeps, AnswerKeeps DEF Next

LEMMA Invariant == Spec => []IInv
<1> QED
  BY InitKeeps, NextKeeps, PTL DEF Spec

-----------------------------------------------------------------------------

(* The catalogue, the index and every coverage have their types.            *)
THEOREM TypeCorrect == Spec => []TypeOK
<1>1. IInv => TypeOK
  BY DEF IInv
<1> QED
  BY <1>1, Invariant, PTL

(* The cells of an answer add up to what its catalogue expects, however the *)
(* catalogue is edited between its statements.                              *)
THEOREM CoveragesAddUp == Spec => []CoverageAddsUp
<1>1. IInv => CoverageAddsUp
  BY DEF IInv
<1> QED
  BY <1>1, Invariant, PTL

(* No transaction that can still commit began on a day that is over.        *)
LEMMA PastIsFixed ==
  ASSUME IInv, [Next]_vars, NEW d, Over(d)
  PROVE  \A m \in Markets, c \in Commodities :
           /\ RowsOn(m, c, d)' = RowsOn(m, c, d)
           /\ \A row \in RowsOn(m, c, d) : index'[<<m, c>>][row] = index[<<m, c>>][row]
<1>1. ASSUME NEW began \in open, NEW batch \in Batches, Publish(began, batch),
             NEW m \in Markets, NEW c \in Commodities
      PROVE  /\ RowsOn(m, c, d)' = RowsOn(m, c, d)
             /\ \A row \in RowsOn(m, c, d) : index'[<<m, c>>][row] = index[<<m, c>>][row]
  <2> DEFINE cell == <<m, c>>
             old == index[cell]
             new == index'[cell]
  <2>1. cell \in Cells
    BY DEF Cells
  <2>2. new = [row \in DOMAIN old \union {began} \X DOMAIN batch[cell] |->
                 IF row \in DOMAIN old THEN old[row] ELSE batch[cell][row[2]]]
    BY <1>1, <2>1 DEF Publish
  <2>3. Day(began) # d
    BY DEF Over
  <2> HIDE DEF old, new, cell
  <2>4. /\ DOMAIN new = DOMAIN old \union {began} \X DOMAIN batch[cell]
        /\ \A row \in DOMAIN old : new[row] = old[row]
    BY <2>2
  <2>5. \A row \in DOMAIN new : Day(row[1]) = d => row \in DOMAIN old
    BY <2>3, <2>4
  <2>6. /\ {row \in DOMAIN new : Day(row[1]) = d} = {row \in DOMAIN old : Day(row[1]) = d}
        /\ \A row \in {x \in DOMAIN old : Day(x[1]) = d} : new[row] = old[row]
    BY <2>4, <2>5
  <2>7. RowsOn(m, c, d)' = {row \in DOMAIN new : Day(row[1]) = d}
    BY DEF RowsOn, new, cell, Day
  <2>8. RowsOn(m, c, d) = {row \in DOMAIN old : Day(row[1]) = d}
    BY DEF RowsOn, old, cell
  <2> QED
    BY <2>6, <2>7, <2>8 DEF old, new, cell
<1>2. CASE UNCHANGED index
  BY <1>2 DEF RowsOn, Day
<1>3. Edit => UNCHANGED index
  BY DEF Edit, CreateMarket, UpdateMarket, CreateCommodity, UpdateCommodity
<1>4. Answer => UNCHANGED index
  <2>1. ASSUME NEW coverage, NEW data, Reply(coverage, data)
        PROVE  UNCHANGED index
    BY <2>1 DEF Reply, Stored
  <2> QED
    BY <2>1 DEF Answer, AnswerCurrent, AnswerCoverage, AnswerHeatmap, AnswerAlerts, AnswerSeries,
       AnswerSnapshots, AnswerSourcing, AnswerBenchmark, AnswerBusinessAsk, AnswerCostIndex,
       AnswerAffordability, AnswerFoodLine, AnswerReference, AnswerExport
<1>5. Next => \/ \E began \in open, batch \in Batches : Publish(began, batch)
              \/ UNCHANGED index
  BY <1>3, <1>4 DEF Next, Compute, Begin, RollBack, Tick, Ask, ListCatalogue, LoadLatest, Narrate,
                    Stored
<1> QED
  BY <1>1, <1>2, <1>5 DEF vars

(* What the reads make of the rows of such a day stays the same.            *)
LEMMA HistoryStep ==
  ASSUME IInv, [Next]_vars, NEW d, Over(d), NEW c \in Commodities, NEW order \in Orders
  PROVE  /\ CityMedianOn(c, d, order)' = CityMedianOn(c, d, order)
         /\ CityPoint(c, d)' = CityPoint(c, d)
         /\ \A m \in Markets : CellPoint(m, c, d, order)' = CellPoint(m, c, d, order)
<1>1. \A m \in Markets :
        /\ RowsOn(m, c, d)' = RowsOn(m, c, d)
        /\ \A row \in RowsOn(m, c, d) : index'[<<m, c>>][row] = index[<<m, c>>][row]
  BY PastIsFixed
<1>2. \A m \in Markets : /\ PublishedOn(m, c, d)' = PublishedOn(m, c, d)
                         /\ PublishedOn(m, c, d) \subseteq RowsOn(m, c, d)
  BY <1>1 DEF PublishedOn
<1>3. now \in Nat
  BY ValuesAssumption DEF IInv, TypeOK
<1>4. ASSUME NEW m \in Markets, NEW rows, rows # {}, rows \subseteq RowsOn(m, c, d)
      PROVE  LastRow(rows, order) \in rows
  <2>1. rows \subseteq (0..now) \X Ids
    BY <1>4 DEF RowsOn, IInv, TypeOK, IndexValues, Cells
  <2>2. IsFiniteSet(rows) /\ rows \subseteq Rows
    BY <1>3, <2>1, BoundedIsFinite
  <2> QED
    BY <1>4, <2>2, LastIsOne
<1>5. ASSUME NEW m \in Markets
      PROVE  CellPoint(m, c, d, order)' = CellPoint(m, c, d, order)
  <2> DEFINE rows == RowsOn(m, c, d)
             last == LastRow(rows, order)
  <2>1. rows' = rows
    BY <1>1
  <2>2. CASE rows = {}
    BY <2>1, <2>2 DEF CellPoint
  <2>3. CASE rows # {}
    <3>1. last \in rows
      BY <1>4, <2>3
    <3>2. index'[<<m, c>>][last] = index[<<m, c>>][last]
      BY <1>1, <3>1
    <3>3. CellPoint(m, c, d, order) = {index[<<m, c>>][last]}
      BY <2>3 DEF CellPoint
    <3>4. CellPoint(m, c, d, order)' = {index'[<<m, c>>][LastRow(rows', order)]}
      BY <2>1, <2>3 DEF CellPoint, LastRow, Before
    <3> HIDE DEF rows
    <3> QED
      BY <2>1, <3>2, <3>3, <3>4
  <2> QED
    BY <2>2, <2>3
<1>6. CityMedianOn(c, d, order)' = CityMedianOn(c, d, order)
  <2> DEFINE ms == {m \in Markets : PublishedOn(m, c, d) # {}}
             last == [m \in ms |-> index[<<m, c>>][LastRow(PublishedOn(m, c, d), order)]]
  <2>1. ms' = ms
    BY <1>2
  <2>2. ASSUME NEW m \in ms
        PROVE  index'[<<m, c>>][LastRow(PublishedOn(m, c, d)', order)]
                 = index[<<m, c>>][LastRow(PublishedOn(m, c, d), order)]
    <3>1. LastRow(PublishedOn(m, c, d), order) \in PublishedOn(m, c, d)
      BY <1>2, <1>4
    <3> QED
      BY <1>1, <1>2, <3>1
  <2>3. last' = [m \in ms' |-> index'[<<m, c>>][LastRow(PublishedOn(m, c, d)', order)]]
    BY DEF LastRow, Before
  <2>4. last' = last
    BY <2>1, <2>2, <2>3
  <2>5. CityMedianOn(c, d, order) = IF ms = {} THEN NoPrice ELSE Median2(last)
    BY DEF CityMedianOn
  <2>6. CityMedianOn(c, d, order)' = IF ms' = {} THEN NoPrice ELSE Median2(last')
    BY DEF CityMedianOn
  <2> HIDE DEF ms, last
  <2> QED
    BY <2>1, <2>4, <2>5, <2>6
<1>7. CityPoint(c, d)' = CityPoint(c, d)
  <2> DEFINE rows == UNION {{m} \X RowsOn(m, c, d) : m \in Markets}
             published == {x \in rows : x[2] \in PublishedOn(x[1], c, d)}
             value == [x \in published |-> index[<<x[1], c>>][x[2]]]
  <2>1. rows' = rows
    BY <1>1
  <2>2. \A x \in rows : x[1] \in Markets /\ x[2] \in RowsOn(x[1], c, d)
    OBVIOUS
  <2>3. published' = published
    BY <1>2, <2>1, <2>2
  <2>4. value' = value
    BY <1>1, <1>2, <2>2, <2>3
  <2>5. CityPoint(c, d) = CASE published # {} -> {Median2(value)}
                            [] published = {} /\ rows # {} -> {NoPrice}
                            [] OTHER -> {}
    BY DEF CityPoint
  <2>6. CityPoint(c, d)' = CASE published' # {} -> {Median2(value')}
                             [] published' = {} /\ rows' # {} -> {NoPrice}
                             [] OTHER -> {}
    BY DEF CityPoint
  <2> HIDE DEF rows, published, value
  <2> QED
    BY <2>1, <2>3, <2>4, <2>5, <2>6
<1> QED
  BY <1>5, <1>6, <1>7

(* The rows of one day in the panel are those of all cells, when no value   *)
(* lacks its market or its commodity.                                       *)
DayRows(values, d) == {row \in DOMAIN values : Day(row[1]) = d}

LEMMA PanelOfDay ==
  ASSUME NEW d \in Nat, NEW b \in Nat, NEW values, NEW known \in SUBSET Cells,
         \A cell \in Cells : DOMAIN values[cell] \subseteq (0..b) \X Ids,
         \A cell \in Cells : DOMAIN values[cell] # {} => cell \in known
  PROVE  UNION {{<<cell, row, values[cell][row]>> :
                   row \in {x \in DOMAIN values[cell] : d <= Day(x[1]) /\ Day(x[1]) <= d}} :
                cell \in known}
           = UNION {{<<cell, row, values[cell][row]>> : row \in DayRows(values[cell], d)} :
                    cell \in Cells}
<1>1. \A t \in Nat : Day(t) \in Nat
  BY ValuesAssumption, Z3 DEF Day
<1>2. ASSUME NEW cell \in Cells
      PROVE  {x \in DOMAIN values[cell] : d <= Day(x[1]) /\ Day(x[1]) <= d}
               = DayRows(values[cell], d)
  <2>1. \A x \in DOMAIN values[cell] : Day(x[1]) \in Nat
    BY <1>1
  <2>2. \A x \in DOMAIN values[cell] : d <= Day(x[1]) /\ Day(x[1]) <= d <=> Day(x[1]) = d
    BY <2>1
  <2> QED
    BY <2>2 DEF DayRows
<1>3. \A cell \in Cells : DayRows(values[cell], d) # {} => cell \in known
  BY DEF DayRows
<1>. DEFINE Shown(cell) == {<<cell, row, values[cell][row]>> : row \in DayRows(values[cell], d)}
<1>4. UNION {{<<cell, row, values[cell][row]>> :
                row \in {x \in DOMAIN values[cell] : d <= Day(x[1]) /\ Day(x[1]) <= d}} :
             cell \in known}
        = UNION {Shown(cell) : cell \in known}
  BY <1>2
<1>5. \A cell \in Cells : Shown(cell) # {} => cell \in known
  BY <1>3
<1>6. UNION {Shown(cell) : cell \in known} = UNION {Shown(cell) : cell \in Cells}
  <2>. HIDE DEF Shown
  <2>. QED
    BY <1>5
<1>. QED
  BY <1>4, <1>6

(* They stay the same on a day that is over.                                *)
LEMMA PanelStep ==
  ASSUME IInv, [Next]_vars, NEW d \in Nat, Over(d)
  PROVE  PanelRows(d, d)' = PanelRows(d, d)
<1>. DEFINE Of(values) == UNION {{<<cell, row, values[cell][row]>> :
                                    row \in DayRows(values[cell], d)} : cell \in Cells}
<1>1. IInv'
  BY NextKeeps
<1>2. PanelRows(d, d) = Of(index)
  <2>1. now \in Nat /\ KnownMarkets \X KnownCommodities \in SUBSET Cells
    BY ValuesAssumption DEF IInv, TypeOK, KnownMarkets, KnownCommodities, Cells
  <2>2. \A cell \in Cells : DOMAIN index[cell] \subseteq (0..now) \X Ids
    BY DEF IInv, TypeOK, IndexValues
  <2>3. \A cell \in Cells : DOMAIN index[cell] # {} => cell \in KnownMarkets \X KnownCommodities
    BY DEF IInv, Referenced
  <2> QED
    BY <2>1, <2>2, <2>3, PanelOfDay DEF PanelRows
<1>3. PanelRows(d, d)' = Of(index')
  <2>1. now' \in Nat /\ (KnownMarkets \X KnownCommodities)' \in SUBSET Cells
    BY <1>1, ValuesAssumption DEF IInv, TypeOK, KnownMarkets, KnownCommodities, Cells
  <2>2. \A cell \in Cells : DOMAIN index'[cell] \subseteq (0..now') \X Ids
    BY <1>1 DEF IInv, TypeOK, IndexValues
  <2>3. \A cell \in Cells :
          DOMAIN index'[cell] # {} => cell \in (KnownMarkets \X KnownCommodities)'
    BY <1>1 DEF IInv, Referenced
  <2> QED
    BY <2>1, <2>2, <2>3, PanelOfDay DEF PanelRows
<1>4. ASSUME NEW cell \in Cells
      PROVE  /\ DayRows(index'[cell], d) = DayRows(index[cell], d)
             /\ \A row \in DayRows(index[cell], d) : index'[cell][row] = index[cell][row]
  <2>1. PICK m \in Markets, c \in Commodities : cell = <<m, c>>
    BY DEF Cells
  <2> QED
    BY <2>1, PastIsFixed DEF RowsOn, DayRows
<1>5. Of(index') = Of(index)
  <2>1. ASSUME NEW cell \in Cells
        PROVE  {<<cell, row, index'[cell][row]>> : row \in DayRows(index'[cell], d)}
                 = {<<cell, row, index[cell][row]>> : row \in DayRows(index[cell], d)}
    BY <1>4
  <2> QED
    BY <2>1
<1> QED
  BY <1>2, <1>3, <1>5

(* No commit, however late, and no edit of the catalogue rewrites a day that *)
(* is over, in the panel, in the series or in the prior basket, whichever of *)
(* the values of a rebuild is read.                                         *)
THEOREM HistoryFixed == Spec => HistoryIsFixed
<1>1. ASSUME IInv, [Next]_vars, NEW d \in {Day(t) : t \in Instants}, Over(d)
      PROVE  /\ PanelRows(d, d)' = PanelRows(d, d)
             /\ \A code \in Codes, order \in Orders :
                  ByCode(code)' = ByCode(code) => Past(code, d, order)' = Past(code, d, order)
  <2>1. d \in Nat
    BY ValuesAssumption, Z3 DEF Day
  <2>2. PanelRows(d, d)' = PanelRows(d, d)
    BY <1>1, <2>1, PanelStep
  <2>3. ASSUME NEW code \in Codes, NEW order \in Orders, ByCode(code)' = ByCode(code)
        PROVE  Past(code, d, order)' = Past(code, d, order)
    <3>1. \A c \in ByCode(code) : c \in Commodities
      BY DEF ByCode, KnownCommodities
    <3>2. \A c \in ByCode(code) :
            /\ CityMedianOn(c, d, order)' = CityMedianOn(c, d, order)
            /\ CityPoint(c, d)' = CityPoint(c, d)
            /\ \A m \in Markets : CellPoint(m, c, d, order)' = CellPoint(m, c, d, order)
      BY <1>1, <3>1, HistoryStep
    <3> QED
      BY <2>3, <3>2 DEF Past
  <2> QED
    BY <2>2, <2>3
<1>2. IInv /\ [Next]_vars =>
        [Contents' # Contents =>
           \A d \in {Day(t) : t \in Instants} : Over(d) =>
             /\ PanelRows(d, d)' = PanelRows(d, d)
             /\ \A code \in Codes, order \in Orders :
                  ByCode(code)' = ByCode(code) => Past(code, d, order)' = Past(code, d, order)
        ]_Contents
  BY <1>1
<1> QED
  BY <1>2, Invariant, PTL DEF Spec, HistoryIsFixed

-----------------------------------------------------------------------------
(* Sums over a finite set.                                                 *)

(* The member that a fold over T takes first. *)
First(T) == CHOOSE x \in T : TRUE

(* f sums w over each subset of S, as MapThenSumSet does. *)
Sums(f, w, S) ==
  f = [T \in SUBSET S |-> IF T = {} THEN 0 ELSE w[First(T)] + f[T \ {First(T)}]]

(* The first member is a member.                                            *)
LEMMA FirstIn == \A T : T # {} => First(T) \in T
BY DEF First

(* How such a sum is recognised.                                            *)
LEMMA SumsFrom ==
  ASSUME NEW w, NEW S, NEW f, f = [T \in SUBSET S |-> f[T]],
         \A T \in SUBSET S : f[T] = IF T = {} THEN 0 ELSE w[First(T)] + f[T \ {First(T)}]
  PROVE  Sums(f, w, S)
BY DEF Sums

(* Two of them agree where both are defined.                                *)
LEMMA SumsAgree ==
  ASSUME NEW w, NEW S, NEW T, IsFiniteSet(S), NEW f, NEW g, Sums(f, w, S), Sums(g, w, T)
  PROVE  \A U \in SUBSET S : U \subseteq T => f[U] = g[U]
<1>. DEFINE G == {U \in SUBSET S : U \subseteq T => f[U] = g[U]}
<1>1. \A U \in SUBSET S : f[U] = IF U = {} THEN 0 ELSE w[First(U)] + f[U \ {First(U)}]
  BY DEF Sums
<1>2. \A U \in SUBSET T : g[U] = IF U = {} THEN 0 ELSE w[First(U)] + g[U \ {First(U)}]
  BY DEF Sums
<1>3. {} \in G
  BY <1>1, <1>2
<1>4. ASSUME NEW U \in SUBSET S, U # {}, \A x \in U : U \ {x} \in G
      PROVE  U \in G
  BY <1>1, <1>2, <1>4, FirstIn
<1>5. \A U \in SUBSET S : U \in G
  <2>. HIDE DEF G
  <2>. QED
    BY <1>3, <1>4, SetInduction
<1>. QED
  BY <1>5

(* There is one for every finite set.                                       *)
LEMMA SumsExist ==
  ASSUME NEW w, NEW S, IsFiniteSet(S)
  PROVE  \E f : Sums(f, w, S)
<1>. DEFINE G == {T \in SUBSET S : \A U \in SUBSET T : \E f : Sums(f, w, U)}
            Chosen(T) == CHOOSE f : Sums(f, w, T)
            V(T) == Chosen(T)[T]
<1>1. \A T : (\E f : Sums(f, w, T)) => Sums(Chosen(T), w, T)
  OBVIOUS
<1>2. \A T \in SUBSET S : IsFiniteSet(T)
  BY FS_Subset
<1>3. ASSUME NEW T \in SUBSET S, \E f : Sums(f, w, T)
      PROVE  V(T) = IF T = {} THEN 0 ELSE w[First(T)] + V(T \ {First(T)})
  <2>. DEFINE c == First(T)
              g == Chosen(T)
  <2>1. Sums(g, w, T)
    BY <1>1, <1>3
  <2>2. g[T] = IF T = {} THEN 0 ELSE w[c] + g[T \ {c}]
    BY <2>1 DEF Sums
  <2>3. Sums([U \in SUBSET (T \ {c}) |-> g[U]], w, T \ {c})
    <3>. DEFINE h == [U \in SUBSET (T \ {c}) |-> g[U]]
    <3>1. \A U \in SUBSET (T \ {c}) :
            h[U] = IF U = {} THEN 0 ELSE w[First(U)] + h[U \ {First(U)}]
      <4>1. \A U \in SUBSET T : g[U] = IF U = {} THEN 0 ELSE w[First(U)] + g[U \ {First(U)}]
        BY <2>1 DEF Sums
      <4>. HIDE DEF c, g
      <4>. QED
        BY <4>1
    <3>2. h = [U \in SUBSET (T \ {c}) |-> h[U]]
      OBVIOUS
    <3>3. Sums(h, w, T \ {c})
      <4>. HIDE DEF h
      <4>. QED
        BY <3>1, <3>2, SumsFrom
    <3>. QED
      BY <3>3
  <2>4. Sums(Chosen(T \ {c}), w, T \ {c})
    BY <1>1, <2>3
  <2>5. IsFiniteSet(T) /\ T \ {c} \in SUBSET T
    BY <1>2
  <2>6. g[T \ {c}] = Chosen(T \ {c})[T \ {c}]
    <3>. HIDE DEF c, g, Chosen
    <3>. QED
      BY <2>1, <2>4, <2>5, SumsAgree
  <2>. QED
    BY <2>2, <2>6
<1>4. ASSUME NEW T \in SUBSET S, \A x \in T : T \ {x} \in G
      PROVE  \E f : Sums(f, w, T)
  <2>. DEFINE f == [U \in SUBSET T |-> IF U = {} THEN 0 ELSE w[First(U)] + V(U \ {First(U)})]
  <2>1. ASSUME NEW U \in SUBSET T, U # T
        PROVE  f[U] = V(U)
    <3>1. \E x \in T : U \in SUBSET (T \ {x})
      BY <2>1
    <3>2. U \in SUBSET S /\ \E g : Sums(g, w, U)
      BY <1>4, <3>1
    <3>. HIDE DEF V
    <3>. QED
      BY <1>3, <3>2
  <2>2. \A U \in SUBSET T : U # {} => f[U \ {First(U)}] = V(U \ {First(U)})
    <3>. HIDE DEF f, V
    <3>. QED
      BY <2>1, FirstIn
  <2>3. \A U \in SUBSET T : f[U] = IF U = {} THEN 0 ELSE w[First(U)] + f[U \ {First(U)}]
    <3>. HIDE DEF V
    <3>. QED
      BY <2>2
  <2>4. f = [U \in SUBSET T |-> f[U]]
    OBVIOUS
  <2>. HIDE DEF f
  <2>. QED
    BY <2>3, <2>4 DEF Sums
<1>5. ASSUME NEW T \in SUBSET S, \A x \in T : T \ {x} \in G
      PROVE  T \in G
  <2>1. \A U \in SUBSET T : U # T => \E x \in T : U \in SUBSET (T \ {x})
    OBVIOUS
  <2>. QED
    BY <1>4, <1>5, <2>1
<1>6. \A T \in SUBSET S : T \in G
  <2>. HIDE DEF G
  <2>1. {} \in G
    BY <1>5
  <2>. QED
    BY <1>5, <2>1, SetInduction
<1>. QED
  BY <1>6

(* The terms are integers.                                                  *)
Whole(w, S) == \A x \in S : w[x] \in Int

(* A sum takes its terms in any order.                                      *)
LEMMA SumSteps ==
  ASSUME NEW S, IsFiniteSet(S), NEW w, Whole(w, S)
  PROVE  \A T \in SUBSET S :
           /\ SumFunctionOnSet(w, T) \in Int
           /\ T = {} => SumFunctionOnSet(w, T) = 0
           /\ \A x \in T : SumFunctionOnSet(w, T) = w[x] + SumFunctionOnSet(w, T \ {x})
<1>1. PICK f : Sums(f, w, S)
  BY SumsExist
<1>2. ASSUME NEW T \in SUBSET S PROVE SumFunctionOnSet(w, T) = f[T]
  <2>1. IsFiniteSet(T)
    BY FS_Subset
  <2>2. Sums((CHOOSE g : Sums(g, w, T)), w, T)
    BY <2>1, SumsExist
  <2>3. SumFunctionOnSet(w, T) = (CHOOSE g : Sums(g, w, T))[T]
    BY DEF SumFunctionOnSet, FoldFunctionOnSet, MapThenFoldSet, Sums, First
  <2>. QED
    BY <1>1, <2>1, <2>2, <2>3, SumsAgree
<1>3. \A T \in SUBSET S : f[T] = IF T = {} THEN 0 ELSE w[First(T)] + f[T \ {First(T)}]
  BY <1>1 DEF Sums
<1>4. /\ {} \in SUBSET S
      /\ \A T \in SUBSET S : \A x \in T : x \in S /\ T \ {x} \in SUBSET S
  OBVIOUS
<1>5. f[{}] = 0
  BY <1>3, <1>4
<1>6. \A T \in SUBSET S : f[T] \in Int
  <2>. DEFINE N == {T \in SUBSET S : f[T] \in Int}
  <2>1. {} \in N
    BY <1>4, <1>5
  <2>2. ASSUME NEW T \in SUBSET S, T # {}, \A x \in T : T \ {x} \in N
        PROVE  T \in N
    <3>1. f[T] = w[First(T)] + f[T \ {First(T)}] /\ First(T) \in T
      BY <1>3, <2>2, FirstIn
    <3>2. f[T \ {First(T)}] \in Int /\ w[First(T)] \in Int
      BY <1>4, <2>2, <3>1 DEF Whole
    <3>. QED
      BY <3>1, <3>2
  <2>3. \A T \in SUBSET S : T \in N
    <3>. HIDE DEF N
    <3>. QED
      BY <2>1, <2>2, SetInduction
  <2>. QED
    BY <2>3
<1>7. \A T \in SUBSET S : \A x \in T : f[T] = w[x] + f[T \ {x}]
  <2>. DEFINE G == {T \in SUBSET S : \A x \in T : f[T] = w[x] + f[T \ {x}]}
  <2>1. {} \in G
    BY <1>4
  <2>2. ASSUME NEW T \in SUBSET S, T # {}, \A x \in T : T \ {x} \in G
        PROVE  T \in G
    <3>1. PICK c \in T : f[T] = w[c] + f[T \ {c}]
      BY <1>3, <2>2, FirstIn
    <3>2. ASSUME NEW x \in T, x # c PROVE f[T] = w[x] + f[T \ {x}]
      <4>1. /\ f[T \ {c}] = w[x] + f[(T \ {c}) \ {x}]
            /\ f[T \ {x}] = w[c] + f[(T \ {x}) \ {c}]
        BY <2>2, <3>2
      <4>2. (T \ {c}) \ {x} = (T \ {x}) \ {c}
        OBVIOUS
      <4>3. /\ w[x] \in Int /\ w[c] \in Int
            /\ f[T \ {x}] \in Int /\ f[T \ {c}] \in Int /\ f[(T \ {x}) \ {c}] \in Int
        BY <1>6 DEF Whole
      <4>4. f[(T \ {c}) \ {x}] = f[(T \ {x}) \ {c}]
        BY <4>2
      <4>. QED
        BY <3>1, <4>1, <4>3, <4>4
    <3>. QED
      BY <3>1, <3>2
  <2>3. \A T \in SUBSET S : T \in G
    <3>. HIDE DEF G
    <3>. QED
      BY <2>1, <2>2, SetInduction
  <2>. QED
    BY <2>3
<1>. QED
  BY <1>2, <1>4, <1>5, <1>6, <1>7

(* Each term of e is the same combination of those of f, g and h.           *)
Combines(e, a, f, b, g, c, h, S) == \A x \in S : e[x] = a * f[x] + b * g[x] + c * h[x]

(* A sum of combinations is the combination of the sums.                    *)
LEMMA SumsCombine ==
  ASSUME NEW S, IsFiniteSet(S), NEW e, NEW f, NEW g, NEW h,
         Whole(e, S), Whole(f, S), Whole(g, S), Whole(h, S),
         NEW a \in Int, NEW b \in Int, NEW c \in Int,
         Combines(e, a, f, b, g, c, h, S)
  PROVE  SumFunctionOnSet(e, S) = a * SumFunctionOnSet(f, S) + b * SumFunctionOnSet(g, S)
                                    + c * SumFunctionOnSet(h, S)
<1>. DEFINE E(T) == SumFunctionOnSet(e, T)
            F(T) == SumFunctionOnSet(f, T)
            G(T) == SumFunctionOnSet(g, T)
            H(T) == SumFunctionOnSet(h, T)
            I == {T \in SUBSET S : E(T) = a * F(T) + b * G(T) + c * H(T)}
<1>1. \A T \in SUBSET S : /\ E(T) \in Int /\ F(T) \in Int /\ G(T) \in Int /\ H(T) \in Int
                          /\ T = {} => E(T) = 0 /\ F(T) = 0 /\ G(T) = 0 /\ H(T) = 0
                          /\ \A x \in T : /\ E(T) = e[x] + E(T \ {x})
                                          /\ F(T) = f[x] + F(T \ {x})
                                          /\ G(T) = g[x] + G(T \ {x})
                                          /\ H(T) = h[x] + H(T \ {x})
  BY SumSteps
<1>2. \A T \in SUBSET S : \A x \in T : x \in S /\ T \ {x} \in SUBSET S
  OBVIOUS
<1>. HIDE DEF E, F, G, H
<1>3. {} \in I
  <2>1. E({}) = 0 /\ F({}) = 0 /\ G({}) = 0 /\ H({}) = 0
    BY <1>1
  <2>2. E({}) = a * F({}) + b * G({}) + c * H({})
    BY <2>1
  <2>. QED
    BY <2>2
<1>4. ASSUME NEW T \in SUBSET S, T # {}, \A x \in T : T \ {x} \in I
      PROVE  T \in I
  <2>1. PICK x \in T : TRUE
    BY <1>4
  <2>2. E(T \ {x}) = a * F(T \ {x}) + b * G(T \ {x}) + c * H(T \ {x})
    BY <1>4
  <2>3. /\ E(T) = e[x] + E(T \ {x}) /\ F(T) = f[x] + F(T \ {x})
        /\ G(T) = g[x] + G(T \ {x}) /\ H(T) = h[x] + H(T \ {x})
    BY <1>1
  <2>4. e[x] = a * f[x] + b * g[x] + c * h[x]
    BY <1>2 DEF Combines
  <2>5. f[x] \in Int /\ g[x] \in Int /\ h[x] \in Int
    BY <1>2 DEF Whole
  <2>6. F(T \ {x}) \in Int /\ G(T \ {x}) \in Int /\ H(T \ {x}) \in Int
    BY <1>1, <1>2
  <2>7. \A p, q, r, u, v, z \in Int :
          (a * p + b * q + c * r) + (a * u + b * v + c * z)
             = a * (p + u) + b * (q + v) + c * (r + z)
    OBVIOUS
  <2>8. E(T) = a * F(T) + b * G(T) + c * H(T)
    BY <2>2, <2>3, <2>4, <2>5, <2>6, <2>7
  <2>. QED
    BY <2>8
<1>5. \A T \in SUBSET S : T \in I
  <2>. HIDE DEF I
  <2>. QED
    BY <1>3, <1>4, SetInduction
<1>6. E(S) = a * F(S) + b * G(S) + c * H(S)
  BY <1>5
<1>. QED
  BY <1>6 DEF E, F, G, H

(* Sums of terms that are equal are equal.                                  *)
LEMMA SumsSame ==
  ASSUME NEW S, IsFiniteSet(S), NEW e, NEW f, Whole(f, S), \A x \in S : e[x] = f[x]
  PROVE  SumFunctionOnSet(e, S) = SumFunctionOnSet(f, S)
<1>1. Whole(e, S)
  BY DEF Whole
<1>2. Combines(e, 1, f, 0, f, 0, f, S)
  BY DEF Whole, Combines
<1>3. SumFunctionOnSet(f, S) \in Int
  BY SumSteps
<1>4. SumFunctionOnSet(e, S) = 1 * SumFunctionOnSet(f, S) + 0 * SumFunctionOnSet(f, S)
                                 + 0 * SumFunctionOnSet(f, S)
  BY <1>1, <1>2, SumsCombine
<1>. QED
  BY <1>3, <1>4

(* A sum of terms none of which is negative is at least each of them.       *)
LEMMA SumAtLeast ==
  ASSUME NEW S, IsFiniteSet(S), NEW f, Whole(f, S), \A x \in S : f[x] >= 0
  PROVE  /\ SumFunctionOnSet(f, S) >= 0
         /\ \A x \in S : SumFunctionOnSet(f, S) >= f[x]
<1>. DEFINE F(T) == SumFunctionOnSet(f, T)
            G == {T \in SUBSET S : F(T) >= 0}
<1>1. \A T \in SUBSET S : /\ F(T) \in Int
                          /\ T = {} => F(T) = 0
                          /\ \A x \in T : F(T) = f[x] + F(T \ {x})
  BY SumSteps
<1>2. \A T \in SUBSET S : \A x \in T : x \in S /\ T \ {x} \in SUBSET S
  OBVIOUS
<1>. HIDE DEF F
<1>3. {} \in G
  BY <1>1
<1>4. ASSUME NEW T \in SUBSET S, T # {}, \A x \in T : T \ {x} \in G
      PROVE  T \in G
  <2>1. PICK x \in T : TRUE
    BY <1>4
  <2>2. F(T) = f[x] + F(T \ {x}) /\ F(T \ {x}) >= 0 /\ f[x] \in Int /\ f[x] >= 0
    BY <1>1, <1>2, <1>4 DEF Whole
  <2>3. F(T \ {x}) \in Int
    BY <1>1, <1>2
  <2>. QED
    BY <2>2, <2>3
<1>5. \A T \in SUBSET S : F(T) >= 0
  <2>1. \A T \in SUBSET S : T \in G
    <3>. HIDE DEF G
    <3>. QED
      BY <1>3, <1>4, SetInduction
  <2>. QED
    BY <2>1
<1>6. ASSUME NEW x \in S PROVE F(S) >= f[x]
  <2>1. F(S) = f[x] + F(S \ {x}) /\ F(S \ {x}) >= 0 /\ F(S \ {x}) \in Int /\ f[x] \in Int
    BY <1>1, <1>2, <1>5 DEF Whole
  <2>. QED
    BY <2>1
<1>. QED
  BY <1>5, <1>6 DEF F

-----------------------------------------------------------------------------
(* Ranks.                                                                  *)

(* How many members of T come before each.                                  *)
RankIn(T, order) == [t \in T |-> Cardinality({u \in T : Before(order, u, t)})]

Squared(w, S) == [t \in S |-> w[t] * w[t]]

(* A rank is a number.                                                      *)
LEMMA RankType ==
  ASSUME NEW T, IsFiniteSet(T), NEW order
  PROVE  \A t \in T : RankIn(T, order)[t] \in Nat
<1>. SUFFICES ASSUME NEW t \in T PROVE Cardinality({u \in T : Before(order, u, t)}) \in Nat
  BY DEF RankIn
<1>1. IsFiniteSet({u \in T : Before(order, u, t)})
  BY FS_Subset
<1>. QED
  BY <1>1, FS_CardinalityType

(* The last member comes after all others, and before none.                 *)
LEMMA RankWithoutLast ==
  ASSUME NEW order \in Orders, NEW T, IsFiniteSet(T), T \subseteq Rows, T # {}
  PROVE  LET others == T \ {LastRow(T, order)} IN
           /\ Cardinality(others) \in Nat /\ Cardinality(T) = Cardinality(others) + 1
           /\ RankIn(T, order)[LastRow(T, order)] = Cardinality(others)
           /\ \A t \in others : RankIn(T, order)[t] = RankIn(others, order)[t]
<1>. DEFINE l == LastRow(T, order)
            others == T \ {l}
<1>1. l \in T /\ \A x \in T \ {l} : Before(order, x, l)
  BY LastIsOne
<1>. HIDE DEF l
<1>3. \A x \in T : ~Before(order, l, x)
  BY <1>1, OrderIsTotal
<1>4. Cardinality(others) \in Nat /\ Cardinality(T) = Cardinality(others) + 1
  <2>1. IsFiniteSet(others) /\ Cardinality(others) = Cardinality(T) - 1 /\ Cardinality(T) \in Nat
    BY <1>1, FS_RemoveElement, FS_CardinalityType
  <2>2. Cardinality(others) \in Nat
    BY <2>1, FS_CardinalityType
  <2>. QED
    BY <2>1, <2>2
<1>5. {u \in T : Before(order, u, l)} = others
  BY <1>1, <1>3
<1>6. \A t \in others : {u \in T : Before(order, u, t)} = {u \in others : Before(order, u, t)}
  BY <1>3
<1>7. RankIn(T, order)[l] = Cardinality(others)
  BY <1>1, <1>5 DEF RankIn
<1>8. \A t \in others : RankIn(T, order)[t] = RankIn(others, order)[t]
  BY <1>6 DEF RankIn
<1>. QED
  BY <1>4, <1>7, <1>8 DEF l

(* The sums of the first m numbers and of their squares, with one more.     *)
LEMMA OneMore ==
  ASSUME NEW m \in Int, NEW x \in Int, NEW y \in Int,
         2 * x = m * (m - 1), 6 * y = m * (m - 1) * (2 * m - 1)
  PROVE  /\ 2 * (m + x) = (m + 1) * ((m + 1) - 1)
         /\ 6 * (m * m + y) = (m + 1) * ((m + 1) - 1) * (2 * (m + 1) - 1)
OBVIOUS

(* The sums of the first numbers and of their squares.                      *)
LEMMA RankSums ==
  ASSUME NEW order \in Orders, NEW P, IsFiniteSet(P), P \subseteq Rows
  PROVE  LET n == Cardinality(P) IN
           /\ 2 * SumFunctionOnSet(RankIn(P, order), P) = n * (n - 1)
           /\ 6 * SumFunctionOnSet(Squared(RankIn(P, order), P), P) = n * (n - 1) * (2 * n - 1)
<1>. DEFINE Ones(T) == SumFunctionOnSet(RankIn(T, order), T)
            Squares(T) == SumFunctionOnSet(Squared(RankIn(T, order), T), T)
            N(T) == Cardinality(T)
            G == {T \in SUBSET P : /\ 2 * Ones(T) = N(T) * (N(T) - 1)
                                   /\ 6 * Squares(T) = N(T) * (N(T) - 1) * (2 * N(T) - 1)}
<1>1. \A T \in SUBSET P : IsFiniteSet(T) /\ T \subseteq Rows
  BY FS_Subset
<1>2. ASSUME NEW T \in SUBSET P
      PROVE  Whole(RankIn(T, order), T) /\ Whole(Squared(RankIn(T, order), T), T)
  <2>1. \A t \in T : RankIn(T, order)[t] \in Nat
    BY <1>1, RankType
  <2>. QED
    BY <2>1 DEF Whole, Squared
<1>3. \A T \in SUBSET P : Ones(T) \in Int /\ Squares(T) \in Int
  BY <1>1, <1>2, SumSteps
<1>4. {} \in G
  <2>1. Ones({}) = 0 /\ Squares({}) = 0
    <3>1. {} \in SUBSET P /\ IsFiniteSet({})
      BY FS_EmptySet
    <3>2. Whole(RankIn({}, order), {}) /\ Whole(Squared(RankIn({}, order), {}), {})
      BY <1>2, <3>1
    <3>. QED
      BY <3>1, <3>2, SumSteps
  <2>2. N({}) = 0
    BY FS_EmptySet
  <2>. HIDE DEF Ones, Squares, N
  <2>. QED
    BY <2>1, <2>2
<1>5. ASSUME NEW T \in SUBSET P, T # {}, \A x \in T : T \ {x} \in G
      PROVE  T \in G
  <2>. DEFINE l == LastRow(T, order)
              U == T \ {l}
              m == N(U)
  <2>1. T \subseteq Rows /\ IsFiniteSet(T) /\ U \in SUBSET P /\ IsFiniteSet(U)
    BY <1>1
  <2>2. l \in T
    BY <2>1, <1>5, LastIsOne
  <2>3. /\ m \in Nat /\ N(T) = m + 1 /\ RankIn(T, order)[l] = m
        /\ \A t \in U : RankIn(T, order)[t] = RankIn(U, order)[t]
    BY <1>5, <2>1, RankWithoutLast
  <2>. HIDE DEF l
  <2>4. Ones(T) = m + Ones(U)
    <3>1. Ones(T) = RankIn(T, order)[l] + SumFunctionOnSet(RankIn(T, order), U)
      BY <1>2, <2>1, <2>2, SumSteps
    <3>2. SumFunctionOnSet(RankIn(T, order), U) = Ones(U)
      BY <1>2, <2>1, <2>3, SumsSame
    <3>. QED
      BY <2>3, <3>1, <3>2
  <2>5. Squares(T) = m * m + Squares(U)
    <3>1. Squares(T) = Squared(RankIn(T, order), T)[l]
                         + SumFunctionOnSet(Squared(RankIn(T, order), T), U)
      BY <1>2, <2>1, <2>2, SumSteps
    <3>2. \A t \in U : Squared(RankIn(T, order), T)[t] = Squared(RankIn(U, order), U)[t]
      BY <2>3 DEF Squared
    <3>3. SumFunctionOnSet(Squared(RankIn(T, order), T), U) = Squares(U)
      BY <1>2, <2>1, <3>2, SumsSame
    <3>4. Squared(RankIn(T, order), T)[l] = m * m
      BY <2>2, <2>3 DEF Squared
    <3>. QED
      BY <3>1, <3>3, <3>4
  <2>6. Ones(U) \in Int /\ Squares(U) \in Int
    BY <1>3, <2>1
  <2>7. 2 * Ones(U) = m * (m - 1) /\ 6 * Squares(U) = m * (m - 1) * (2 * m - 1)
    BY <1>5, <2>2
  <2>. HIDE DEF Ones, Squares, N, U, m
  <2>8. m \in Int /\ N(T) = m + 1
    BY <2>3
  <2>9. /\ 2 * Ones(T) = N(T) * (N(T) - 1)
        /\ 6 * Squares(T) = N(T) * (N(T) - 1) * (2 * N(T) - 1)
    BY <2>4, <2>5, <2>6, <2>7, <2>8, OneMore
  <2>. QED
    BY <2>9
<1>6. \A T \in SUBSET P : T \in G
  <2>. HIDE DEF G
  <2>. QED
    BY <1>1, <1>4, <1>5, SetInduction
<1>. QED
  BY <1>6

(* A one for each member counts them.                                       *)
LEMMA SumOfOnes ==
  ASSUME NEW P, IsFiniteSet(P)
  PROVE  SumFunctionOnSet([t \in P |-> 1], P) = Cardinality(P)
<1>. DEFINE one == [t \in P |-> 1]
            F(T) == SumFunctionOnSet(one, T)
            G == {T \in SUBSET P : F(T) = Cardinality(T)}
<1>1. Whole(one, P)
  BY DEF Whole
<1>2. \A T \in SUBSET P : /\ T = {} => F(T) = 0
                          /\ \A x \in T : F(T) = one[x] + F(T \ {x})
  BY <1>1, SumSteps
<1>3. \A x \in P : one[x] = 1
  OBVIOUS
<1>. HIDE DEF F, one
<1>4. {} \in G
  BY <1>2, FS_EmptySet
<1>5. ASSUME NEW T \in SUBSET P, T # {}, \A x \in T : T \ {x} \in G
      PROVE  T \in G
  <2>1. PICK x \in T : TRUE
    BY <1>5
  <2>2. F(T) = 1 + Cardinality(T \ {x})
    BY <1>2, <1>3, <1>5
  <2>3. IsFiniteSet(T)
    BY FS_Subset
  <2>4. Cardinality(T \ {x}) = Cardinality(T) - 1 /\ Cardinality(T) \in Nat
    BY <2>3, FS_RemoveElement, FS_CardinalityType
  <2>. QED
    BY <2>2, <2>4
<1>6. P \in G
  <2>. HIDE DEF G
  <2>. QED
    BY <1>4, <1>5, SetInduction
<1>. QED
  BY <1>6 DEF F, one

-----------------------------------------------------------------------------
(* The line through the points.                                            *)

(* The two equations of the line, over the integers.                        *)
LEMMA DistancesCancel ==
  ASSUME NEW n \in Int, NEW m \in Int, NEW s \in Int, NEW y \in Int, NEW k \in Int,
         2 * k = n * (n - 1)
  PROVE  2 * n * s * y + (-2 * n * m) * k + (n * m * (n - 1) - 2 * s * y) * n = 0
<1>1. (2 * k) * (n * m) = (n * (n - 1)) * (n * m)
  OBVIOUS
<1>. QED
  BY <1>1

(* The second equation: the distances weighted by their ranks.              *)
LEMMA WeightedCancel ==
  ASSUME NEW n \in Int, NEW m \in Int, NEW s \in Int, NEW y \in Int, NEW k \in Int,
         NEW q \in Int, NEW u \in Int, 2 * k = n * (n - 1), 6 * q = n * (n - 1) * (2 * n - 1),
         6 * s = n * (n * n - 1), m = 2 * u - (n - 1) * y
  PROVE  2 * n * s * u + (-2 * n * m) * q + (n * m * (n - 1) - 2 * s * y) * k = 0
<1>1. (6 * s) * (2 * n * u) = (n * (n * n - 1)) * (2 * n * u)
  OBVIOUS
<1>2. (6 * q) * (2 * n * m) = (n * (n - 1) * (2 * n - 1)) * (2 * n * m)
  OBVIOUS
<1>3. (2 * k) * (3 * n * m * (n - 1)) = (n * (n - 1)) * (3 * n * m * (n - 1))
  OBVIOUS
<1>4. (2 * k) * (6 * s * y) = (n * (n - 1)) * (6 * s * y)
  OBVIOUS
<1>5. (6 * s) * (y * n * (n - 1)) = (n * (n * n - 1)) * (y * n * (n - 1))
  OBVIOUS
<1>6. m * (n * n * (n * n - 1)) = (2 * u - (n - 1) * y) * (n * n * (n * n - 1))
  OBVIOUS
<1>. DEFINE x == 2 * n * s * u + (-2 * n * m) * q + (n * m * (n - 1) - 2 * s * y) * k
<1>7. 6 * x = (6 * s) * (2 * n * u) - (6 * q) * (2 * n * m) + (2 * k) * (3 * n * m * (n - 1))
                - (2 * k) * (6 * s * y)
  OBVIOUS
<1>8. 6 * x = m * (n * n * (n * n - 1)) - m * (n * n * (n * n - 1))
  BY <1>7, <1>1, <1>2, <1>3, <1>4, <1>5, <1>6
<1>. QED
  BY <1>8

(* A line fitted by least squares: y are the values, k their ranks, r their *)
(* distances from the line.                                                 *)
Fitted(P, k, y, s, r) ==
  LET n == Cardinality(P)
      total == SumFunctionOnSet(y, P)
      slope == 2 * SumFunctionOnSet([t \in P |-> k[t] * y[t]], P) - (n - 1) * total
  IN /\ 6 * s = n * (n * n - 1)
     /\ 2 * SumFunctionOnSet(k, P) = n * (n - 1)
     /\ 6 * SumFunctionOnSet(Squared(k, P), P) = n * (n - 1) * (2 * n - 1)
     /\ \A t \in P : r[t] = 2 * n * s * y[t]
                             - (2 * s * total + n * slope * (2 * k[t] - (n - 1)))

(* The distances balance, also when weighted by their ranks.                *)
LEMMA Balanced ==
  ASSUME NEW P, IsFiniteSet(P), NEW k, Whole(k, P), NEW y, Whole(y, P), NEW s \in Int,
         NEW r, Fitted(P, k, y, s, r)
  PROVE  /\ Whole(r, P)
         /\ SumFunctionOnSet(r, P) = 0
         /\ SumFunctionOnSet([t \in P |-> k[t] * r[t]], P) = 0
<1>. DEFINE n == Cardinality(P)
            one == [t \in P |-> 1]
            ky == [t \in P |-> k[t] * y[t]]
            kr == [t \in P |-> k[t] * r[t]]
            kk == Squared(k, P)
            y1 == SumFunctionOnSet(y, P)
            k1 == SumFunctionOnSet(k, P)
            yk == SumFunctionOnSet(ky, P)
            k2 == SumFunctionOnSet(kk, P)
            m == 2 * yk - (n - 1) * y1
            a == 2 * n * s
            b == -2 * n * m
            c == n * m * (n - 1) - 2 * s * y1
<1>1. n \in Nat
  BY FS_CardinalityType
<1>2. \A t \in P : k[t] \in Int /\ y[t] \in Int
  BY DEF Whole
<1>3. Whole(one, P) /\ Whole(ky, P) /\ Whole(kk, P)
  BY <1>2 DEF Whole, Squared
<1>4. y1 \in Int /\ k1 \in Int /\ yk \in Int /\ k2 \in Int
  BY <1>3, SumSteps
<1>5. SumFunctionOnSet(one, P) = n
  BY SumOfOnes
<1>6. /\ 6 * s = n * (n * n - 1) /\ 2 * k1 = n * (n - 1) /\ 6 * k2 = n * (n - 1) * (2 * n - 1)
      /\ \A t \in P : r[t] = 2 * n * s * y[t] - (2 * s * y1 + n * m * (2 * k[t] - (n - 1)))
  BY DEF Fitted
<1>7. \A t \in P : /\ one[t] = 1 /\ ky[t] = k[t] * y[t] /\ kk[t] = k[t] * k[t]
                   /\ kr[t] = k[t] * r[t]
  BY DEF Squared
<1>. HIDE DEF n, one, ky, kk, kr, y1, k1, yk, k2
<1>8. m \in Int
  BY <1>1, <1>4
<1>. HIDE DEF m
<1>9. a \in Int /\ b \in Int /\ c \in Int
  BY <1>1, <1>4, <1>8
<1>10. \A t \in P : /\ r[t] = a * y[t] + b * k[t] + c * one[t]
                    /\ kr[t] = a * ky[t] + b * kk[t] + c * k[t]
  <2>1. \A u, v \in Int : 2 * n * s * u - (2 * s * y1 + n * m * (2 * v - (n - 1)))
                              = a * u + b * v + c
    BY <1>1, <1>4, <1>8
  <2>. HIDE DEF a, b, c
  <2>2. \A t \in P : r[t] = a * y[t] + b * k[t] + c
    BY <1>2, <1>6, <2>1
  <2>3. \A u, v \in Int : v * (a * u + b * v + c) = a * (v * u) + b * (v * v) + c * v
    BY <1>9
  <2>. QED
    BY <1>2, <1>7, <1>9, <2>2, <2>3
<1>11. Whole(r, P)
  <2>. HIDE DEF a, b, c
  <2>. QED
    BY <1>2, <1>7, <1>9, <1>10 DEF Whole
<1>12. Whole(kr, P)
  BY <1>2, <1>7, <1>11 DEF Whole
<1>13. /\ SumFunctionOnSet(r, P) = a * y1 + b * k1 + c * n
       /\ SumFunctionOnSet(kr, P) = a * yk + b * k2 + c * k1
  <2>. HIDE DEF a, b, c
  <2>1. SumFunctionOnSet(r, P) = a * y1 + b * k1 + c * n
    <3>1. Combines(r, a, y, b, k, c, one, P)
      BY <1>10 DEF Combines
    <3>2. SumFunctionOnSet(r, P) = a * SumFunctionOnSet(y, P) + b * SumFunctionOnSet(k, P)
                                    + c * SumFunctionOnSet(one, P)
      BY <1>3, <1>9, <1>11, <3>1, SumsCombine
    <3>. QED
      BY <1>5, <3>2 DEF y1, k1
  <2>2. SumFunctionOnSet(kr, P) = a * SumFunctionOnSet(ky, P) + b * SumFunctionOnSet(kk, P)
                                   + c * SumFunctionOnSet(k, P)
    <3>1. Combines(kr, a, ky, b, kk, c, k, P)
      BY <1>10 DEF Combines
    <3>. QED
      BY <1>3, <1>9, <1>12, <3>1, SumsCombine
  <2>. QED
    BY <2>1, <2>2 DEF yk, k1, k2
<1>14. a * y1 + b * k1 + c * n = 0
  <2>1. 2 * k1 = n * (n - 1) /\ n \in Int
    BY <1>1, <1>6
  <2>. QED
    BY <1>4, <1>8, <2>1, DistancesCancel
<1>15. a * yk + b * k2 + c * k1 = 0
  BY <1>1, <1>4, <1>6, <1>8, WeightedCancel DEF m
<1>. QED
  BY <1>11, <1>13, <1>14, <1>15 DEF kr

(* Arithmetic: the sum of the squares of 6 k - 2 n + 4 over the ranks k.    *)
LEMMA SquaresOfOffsets ==
  ASSUME NEW n \in Int, NEW k \in Int, NEW q \in Int,
         2 * k = n * (n - 1), 6 * q = n * (n - 1) * (2 * n - 1)
  PROVE  36 * q + 12 * (4 - 2 * n) * k + (4 - 2 * n) * (4 - 2 * n) * n = n * (n + 1) * (4 * n - 2)
<1>1. (2 * k) * (6 * (4 - 2 * n)) = (n * (n - 1)) * (6 * (4 - 2 * n))
  OBVIOUS
<1>. QED
  BY <1>1

(* What times a positive number is not negative is not negative.            *)
LEMMA Signs ==
  ASSUME NEW c \in Int, c > 0, NEW x \in Int, c * x >= 0
  PROVE  x >= 0
OBVIOUS

(* A square among the squares that sum to c^2 Q + p^2 (...) bounds p by Q.  *)
LEMMA BoundOfLast ==
  ASSUME NEW n \in Int, n >= 3, NEW Q \in Int, NEW p \in Int,
         ((n - 1) * (n - 2)) * ((n - 1) * (n - 2)) * Q + p * p * (n * (n + 1) * (4 * n - 2))
           >= (n * (n + 1) * p) * (n * (n + 1) * p)
  PROVE  (n - 1) * (n - 2) * Q >= n * (n + 1) * (p * p)
<1>. DEFINE c == (n - 1) * (n - 2)
            x == c * Q - n * (n + 1) * (p * p)
<1>1. c \in Int /\ x \in Int
  OBVIOUS
<1>2. c > 0
  <2>1. \A u, v \in Int : u > 0 /\ v > 0 => u * v > 0
    OBVIOUS
  <2>. QED
    BY <2>1
<1>3. c * x >= 0
  <2>1. c * x = ((n - 1) * (n - 2)) * ((n - 1) * (n - 2)) * Q
                  + p * p * (n * (n + 1) * (4 * n - 2)) - (n * (n + 1) * p) * (n * (n + 1) * p)
    OBVIOUS
  <2>2. \A u, v, w \in Int : u + v >= w => u + v - w >= 0
    OBVIOUS
  <2>. HIDE DEF c, x
  <2>. QED
    BY <2>1, <2>2
<1>4. x >= 0
  <2>. HIDE DEF c, x
  <2>. QED
    BY <1>1, <1>2, <1>3, Signs
<1>. QED
  BY <1>4

(* The square of the z-score is below 4 up to seven points, and below 9 up to *)
(* twelve.                                                                  *)
LEMMA BoundOfScore ==
  ASSUME NEW n \in Int, n >= 3, NEW Q \in Int, Q > 0, NEW z \in Int, z >= 0,
     (n - 1) * (n - 2) * Q >= n * (n + 1) * z
  PROVE  /\ n <= 7 => n * z < 4 * Q
         /\ n <= 12 => n * z < 9 * Q
<1>. DEFINE v == n * z
<1>1. v \in Int
  OBVIOUS
<1>2. (n - 1) * (n - 2) * Q >= (n + 1) * v
  OBVIOUS
<1>3. ASSUME n <= 7 PROVE v < 4 * Q
  <2>1. n \in {3, 4, 5, 6, 7}
    BY <1>3
  <2>. HIDE DEF v
  <2>. QED
    BY <1>1, <1>2, <2>1
<1>4. ASSUME n <= 12 PROVE v < 9 * Q
  <2>1. n \in {3, 4, 5, 6, 7, 8, 9, 10, 11, 12}
    BY <1>4
  <2>. HIDE DEF v
  <2>. QED
    BY <1>1, <1>2, <2>1
<1>. QED
  BY <1>3, <1>4

(* The last point is one of those the line is fitted to: the distances of   *)
(* all of them are so large, together, as its own requires.                 *)
LEMMA LastIsNear ==
  ASSUME NEW P, IsFiniteSet(P), Cardinality(P) >= 3, NEW k, Whole(k, P), NEW y, Whole(y, P),
         NEW s \in Int, NEW r, Fitted(P, k, y, s, r),
         NEW l \in P, k[l] = Cardinality(P) - 1
  PROVE  LET n == Cardinality(P)
             squares == SumFunctionOnSet(Squared(r, P), P)
         IN /\ squares \in Int /\ squares >= r[l] * r[l]
            /\ (n - 1) * (n - 2) * squares >= n * (n + 1) * (r[l] * r[l])
<1>. DEFINE n == Cardinality(P)
            p == r[l]
            c == (n - 1) * (n - 2)
            h == 4 - 2 * n
            one == [t \in P |-> 1]
            kr == [t \in P |-> k[t] * r[t]]
            kk == Squared(k, P)
            rr == Squared(r, P)
            e == [t \in P |-> 6 * k[t] + h]
            er == [t \in P |-> e[t] * r[t]]
            ee == Squared(e, P)
            d == [t \in P |-> c * r[t] + e[t] * p]
            dd == Squared(d, P)
            k1 == SumFunctionOnSet(k, P)
            k2 == SumFunctionOnSet(kk, P)
            q == SumFunctionOnSet(rr, P)
            e2 == SumFunctionOnSet(ee, P)
            d2 == SumFunctionOnSet(dd, P)
<1>1. n \in Nat /\ n >= 3 /\ c \in Int /\ h \in Int
  BY FS_CardinalityType
<1>2. /\ Whole(r, P) /\ SumFunctionOnSet(r, P) = 0 /\ SumFunctionOnSet(kr, P) = 0
  BY Balanced
<1>3. /\ 2 * k1 = n * (n - 1) /\ 6 * k2 = n * (n - 1) * (2 * n - 1)
  BY DEF Fitted
<1>4. SumFunctionOnSet(one, P) = n
  BY SumOfOnes
<1>5. p \in Int /\ \A t \in P : k[t] \in Int /\ r[t] \in Int
  BY <1>2 DEF Whole
<1>6. \A t \in P : /\ one[t] = 1 /\ kr[t] = k[t] * r[t] /\ kk[t] = k[t] * k[t]
                   /\ rr[t] = r[t] * r[t] /\ e[t] = 6 * k[t] + h /\ er[t] = e[t] * r[t]
                   /\ ee[t] = e[t] * e[t] /\ d[t] = c * r[t] + e[t] * p /\ dd[t] = d[t] * d[t]
  BY DEF Squared
<1>7. k[l] = n - 1
  OBVIOUS
<1>. HIDE DEF n, p, one, kr, kk, rr, e, er, ee, d, dd, k1, k2, q, e2, d2
<1>8. \A t \in P : e[t] \in Int /\ d[t] \in Int
  <2>. HIDE DEF c, h
  <2>. QED
    BY <1>1, <1>5, <1>6
<1>9. /\ Whole(one, P) /\ Whole(kr, P) /\ Whole(kk, P) /\ Whole(rr, P) /\ Whole(e, P)
      /\ Whole(er, P) /\ Whole(ee, P) /\ Whole(d, P) /\ Whole(dd, P)
  <2>. HIDE DEF c, h
  <2>. QED
    BY <1>5, <1>6, <1>8 DEF Whole
<1>10. k1 \in Int /\ k2 \in Int /\ q \in Int /\ e2 \in Int /\ d2 \in Int
  BY <1>9, SumSteps DEF k1, k2, q, e2, d2
<1>11. SumFunctionOnSet(er, P) = 0
  <2>1. Combines(er, 6, kr, h, r, 0, r, P)
    <3>. HIDE DEF c, h
    <3>1. \A u, v \in Int : (6 * u + h) * v = 6 * (u * v) + h * v + 0 * v
      BY <1>1
    <3>. QED
      BY <1>5, <1>6, <3>1 DEF Combines
  <2>2. SumFunctionOnSet(er, P) = 6 * SumFunctionOnSet(kr, P) + h * SumFunctionOnSet(r, P)
                                   + 0 * SumFunctionOnSet(r, P)
    <3>. HIDE DEF c, h
    <3>. QED
      BY <1>1, <1>2, <1>9, <2>1, SumsCombine
  <2>. HIDE DEF h
  <2>. QED
    BY <1>1, <1>2, <2>2
<1>12. e2 = n * (n + 1) * (4 * n - 2)
  <2>1. Combines(ee, 36, kk, 12 * h, k, h * h, one, P)
    <3>. HIDE DEF c, h
    <3>1. \A u \in Int : (6 * u + h) * (6 * u + h) = 36 * (u * u) + (12 * h) * u + (h * h) * 1
      BY <1>1
    <3>. QED
      BY <1>5, <1>6, <3>1 DEF Combines
  <2>2. e2 = 36 * k2 + (12 * h) * k1 + (h * h) * n
    <3>. HIDE DEF c, h
    <3>1. 36 \in Int /\ 12 * h \in Int /\ h * h \in Int
      BY <1>1
    <3>. QED
      BY <1>4, <1>9, <2>1, <3>1, SumsCombine DEF e2, k1, k2
  <2>3. 36 * k2 + 12 * (4 - 2 * n) * k1 + (4 - 2 * n) * (4 - 2 * n) * n = n * (n + 1) * (4 * n - 2)
    BY <1>1, <1>3, <1>10, SquaresOfOffsets
  <2>. QED
    BY <2>2, <2>3
<1>13. d2 = (c * c) * q + (p * p) * e2
  <2>1. Combines(dd, c * c, rr, 2 * c * p, er, p * p, ee, P)
    <3>. HIDE DEF c, h
    <3>1. \A u, v \in Int : (c * u + v * p) * (c * u + v * p)
                             = (c * c) * (u * u) + (2 * c * p) * (v * u) + (p * p) * (v * v)
      BY <1>1, <1>5
    <3>. QED
      BY <1>5, <1>6, <1>8, <3>1 DEF Combines
  <2>2. d2 = (c * c) * q + (2 * c * p) * SumFunctionOnSet(er, P) + (p * p) * e2
    <3>. HIDE DEF c, h
    <3>1. c * c \in Int /\ 2 * c * p \in Int /\ p * p \in Int
      BY <1>1, <1>5
    <3>. QED
      BY <1>9, <2>1, <3>1, SumsCombine DEF d2, q, e2
  <2>. HIDE DEF c
  <2>. QED
    BY <1>1, <1>5, <1>10, <1>11, <2>2
<1>14. dd[l] = (n * (n + 1) * p) * (n * (n + 1) * p)
  <2>1. e[l] = 4 * n - 2
    BY <1>1, <1>6, <1>7
  <2>2. d[l] = c * p + (4 * n - 2) * p
    BY <1>6, <2>1 DEF p
  <2>3. d[l] = n * (n + 1) * p
    BY <1>1, <1>5, <2>2
  <2>. QED
    BY <1>6, <2>3
<1>15. d2 >= dd[l] /\ q >= rr[l]
  <2>1. \A u \in Int : u * u >= 0
    OBVIOUS
  <2>2. \A t \in P : dd[t] >= 0 /\ rr[t] >= 0
    <3>. HIDE DEF c, h
    <3>. QED
      BY <1>5, <1>6, <1>8, <2>1
  <2>. QED
    BY <1>9, <2>2, SumAtLeast DEF d2, q
<1>16. (n - 1) * (n - 2) * q >= n * (n + 1) * (p * p)
  <2>1. c * c * q + p * p * (n * (n + 1) * (4 * n - 2)) >= (n * (n + 1) * p) * (n * (n + 1) * p)
    <3>. HIDE DEF c, h
    <3>. QED
      BY <1>12, <1>13, <1>14, <1>15
  <2>. QED
    BY <1>1, <1>5, <1>10, <2>1, BoundOfLast
<1>. QED
  BY <1>6, <1>10, <1>15, <1>16 DEF n, p, q, rr

-----------------------------------------------------------------------------
(* Alerts.                                                                 *)

(* A quotient is below k when its dividend is below k times the divisor.    *)
LEMMA Quotient ==
  ASSUME NEW x \in Nat, NEW q \in Nat, q > 0, NEW k \in Nat, x < k * q
  PROVE  x \div q \in Int /\ x \div q < k
<1>. DEFINE z == x \div q
<1>1. z \in Int /\ x = z * q + (x % q) /\ x % q \in 0..q - 1
  BY Z3
<1>2. z * q < k * q
  <2>. HIDE DEF z
  <2>. QED
    BY <1>1
<1>. HIDE DEF z
<1>3. SUFFICES ASSUME z >= k PROVE FALSE
  BY <1>1 DEF z
<1>4. z * q >= k * q
  <2>1. \A u, v \in Int : u >= 0 /\ v >= 0 => u * v >= 0
    OBVIOUS
  <2>2. (z - k) * q >= 0
    BY <1>1, <1>3, <2>1
  <2>. QED
    BY <1>1, <2>2
<1>. QED
  BY <1>1, <1>2, <1>4

(* The division by six in a trend leaves no rest.                           *)
LEMMA SpreadIsExact ==
  ASSUME NEW n \in 3..12
  PROVE  LET s == (n * (n * n - 1)) \div 6 IN s \in Int /\ 6 * s = n * (n * n - 1)
<1>1. n \in {3, 4, 5, 6, 7, 8, 9, 10, 11, 12}
  OBVIOUS
<1>. QED
  BY <1>1, Z3

(* The score of a value that is the last of its own points: it cannot leave *)
(* a short history behind.                                                  *)
LEMMA ShortHistory ==
  ASSUME NEW order \in Orders, NEW P, IsFiniteSet(P), P \subseteq Rows, Cardinality(P) \in 3..12,
         NEW cell, \A t \in P : index[cell][t] \in Nat
  PROVE  LET band == ZBand(Trend(cell, P, order, index[cell][LastRow(P, order)]))
         IN /\ Cardinality(P) <= 7 => band \in {"normal", "stress"}
            /\ band \in {"normal", "stress", "alert"}
<1> DEFINE n == Cardinality(P)
           l == LastRow(P, order)
           value == [t \in P |-> index[cell][t]]
           rank == RankIn(P, order)
           moment == [t \in P |-> rank[t] * value[t]]
           total == SumFunctionOnSet(value, P)
           s == (n * (n * n - 1)) \div 6
           slope == 2 * SumFunctionOnSet(moment, P) - (n - 1) * total
           line == [t \in P |-> 2 * s * total + n * slope * (2 * rank[t] - (n - 1))]
           r == [t \in P |-> 2 * n * s * value[t] - line[t]]
           q == SumFunctionOnSet(Squared(r, P), P)
           off == Magnitude(2 * n * s * index[cell][l] - line[l])
           trend == [n |-> n, expected |-> line[l], off |-> off, squares |-> q]
<1>1. Trend(cell, P, order, index[cell][l]) = trend
  BY DEF Trend, SumFunction, RankIn, Squared
<1>2. n \in Nat /\ n >= 3 /\ n <= 12 /\ n \in 3..12
  <2>1. n \in 3..12
    OBVIOUS
  <2> HIDE DEF n
  <2> QED
    BY <2>1
<1>3. P # {}
  BY <1>2, FS_EmptySet
<1>4. l \in P
  BY <1>3, LastIsOne
<1>5. Whole(rank, P) /\ Whole(value, P)
  BY <1>2, RankType DEF Whole
<1>6. s \in Int /\ 6 * s = n * (n * n - 1)
  BY <1>2, SpreadIsExact
<1>7. /\ 2 * SumFunctionOnSet(rank, P) = n * (n - 1)
      /\ 6 * SumFunctionOnSet(Squared(rank, P), P) = n * (n - 1) * (2 * n - 1)
  BY RankSums
<1>8. Fitted(P, rank, value, s, r)
  <2>1. \A t \in P : r[t] = 2 * n * s * value[t]
                              - (2 * s * total + n * slope * (2 * rank[t] - (n - 1)))
    OBVIOUS
  <2> QED
    BY <1>6, <1>7, <2>1 DEF Fitted
<1>9. rank[l] = n - 1
  <2>1. n = Cardinality(P \ {l}) + 1 /\ rank[l] = Cardinality(P \ {l})
    BY <1>3, RankWithoutLast
  <2>2. Cardinality(P \ {l}) \in Nat
    BY <1>3, RankWithoutLast
  <2> QED
    BY <2>1, <2>2
<1>10. off = Magnitude(r[l])
  BY <1>4
<1> HIDE DEF n, l, value, rank, s, r, q, off
<1>11. /\ q \in Int /\ q >= r[l] * r[l] /\ r[l] \in Int
       /\ (n - 1) * (n - 2) * q >= n * (n + 1) * (r[l] * r[l])
  <2>1. Whole(r, P)
    BY <1>2, <1>5, <1>6, <1>8, Balanced
  <2>2. r[l] \in Int
    BY <1>4, <2>1 DEF Whole
  <2>3. /\ q \in Int /\ q >= r[l] * r[l]
        /\ (n - 1) * (n - 2) * q >= n * (n + 1) * (r[l] * r[l])
    BY <1>2, <1>4, <1>5, <1>6, <1>8, <1>9, LastIsNear DEF q, n
  <2> QED
    BY <2>2, <2>3
<1> DEFINE z == r[l] * r[l]
<1>12. z \in Nat /\ n * off * off = n * z
  <2>1. \A u \in Int : u * u >= 0 /\ Magnitude(u) * Magnitude(u) = u * u /\ Magnitude(u) \in Int
    BY DEF Magnitude
  <2>2. off \in Int /\ off * off = z /\ z \in Nat
    BY <1>10, <1>11, <2>1
  <2> HIDE DEF z
  <2>3. n * off * off = n * (off * off)
    BY <1>2, <2>2
  <2> QED
    BY <2>2, <2>3
<1> DEFINE z2 == IF q = 0 THEN 0 ELSE (n * off * off) \div q
<1>13. ZBand(trend) = CASE z2 < 1 -> "normal" [] z2 >= 1 /\ z2 < 4 -> "stress"
                        [] z2 >= 4 /\ z2 < 9 -> "alert" [] OTHER -> "crisis"
  BY DEF ZBand
<1>14. z2 \in Int /\ z2 < 9 /\ (n <= 7 => z2 < 4)
  <2>1. CASE q = 0
    BY <2>1
  <2>2. CASE q # 0
    <3>1. q \in Nat /\ q > 0
      BY <1>11, <1>12, <2>2
    <3>2. n * z < 9 * q /\ (n <= 7 => n * z < 4 * q)
      BY <1>2, <1>11, <1>12, <3>1, BoundOfScore
    <3>3. n * z \in Nat
      BY <1>2, <1>12
    <3> HIDE DEF z
    <3>4. (n * z) \div q \in Int /\ (n * z) \div q < 9 /\ (n <= 7 => (n * z) \div q < 4)
      BY <3>1, <3>2, <3>3, Quotient
    <3>5. z2 = (n * z) \div q
      BY <1>12, <2>2
    <3> QED
      BY <3>4, <3>5
  <2> QED
    BY <2>1, <2>2
<1> HIDE DEF z2, trend
<1>15. /\ n <= 7 => ZBand(trend) \in {"normal", "stress"}
       /\ ZBand(trend) \in {"normal", "stress", "alert"}
  BY <1>2, <1>13, <1>14
<1> QED
  BY <1>1, <1>15 DEF n, l

(* The weaker of two bands is no stronger than the first.                   *)
LEMMA WeakerThanEither ==
  ASSUME NEW left \in DOMAIN SpikeRank, NEW right \in DOMAIN SpikeRank
  PROVE  SpikeRank[WeakerBand(left, right)] <= SpikeRank[left]
BY DEF WeakerBand, SpikeRank

(* Every band has a rank.                                                   *)
LEMMA BandsHaveRanks ==
  ASSUME NEW trend
  PROVE  ZBand(trend) \in DOMAIN SpikeRank /\ DeviationBand(trend) \in DOMAIN SpikeRank
BY DEF ZBand, DeviationBand, SpikeRank

(* A current value that is the last of its own points is no alert below     *)
(* eight points and no crisis below thirteen, however high it is.           *)
THEOREM SpikesHaveHistory == Spec => []SpikesNeedHistory
<1>1. IInv => SpikesNeedHistory
  <2> SUFFICES ASSUME IInv, reader.at = "answer", NEW order \in Orders,
                      NEW cell \in DOMAIN Alerts(reader.latest, order),
                      reader.latest[cell].value = index[cell][LastRow(SpikePoints(cell), order)]
               PROVE  LET band == Alerts(reader.latest, order)[cell]
                      IN /\ band = "alert" => Cardinality(SpikePoints(cell)) >= 8
                         /\ band = "crisis" => Cardinality(SpikePoints(cell)) >= 13
    BY DEF SpikesNeedHistory
  <2> DEFINE latest == reader.latest
             P == SpikePoints(cell)
             trend == Trend(cell, P, order, latest[cell].value)
             alert == Alerts(latest, order)[cell]
  <2>1. /\ cell \in Published(latest) /\ Cardinality(P) >= MinPoints
        /\ alert = WeakerBand(ZBand(trend), DeviationBand(trend))
    BY DEF Alerts
  <2>2. cell \in Cells /\ now \in Nat
    BY <2>1, ValuesAssumption DEF Published, IInv, TypeOK
  <2>3. P \subseteq (0..now) \X Ids /\ \A row \in P : index[cell][row] \in Nat
    BY <2>2, ValuesAssumption DEF SpikePoints, PublishedBetween, IInv, TypeOK, IndexValues
  <2>4. IsFiniteSet(P) /\ P \subseteq Rows
    BY <2>2, <2>3, BoundedIsFinite
  <2>5. Cardinality(P) \in Nat /\ Cardinality(P) >= 3
    BY <2>1, <2>4, FS_CardinalityType, PointsAssumption
  <2>6. latest[cell].value = index[cell][LastRow(P, order)]
    OBVIOUS
  <2> HIDE DEF P, latest, alert
  <2>7. /\ Cardinality(P) <= 7 => ZBand(trend) \in {"normal", "stress"}
        /\ Cardinality(P) <= 12 => ZBand(trend) \in {"normal", "stress", "alert"}
    <3>1. ASSUME Cardinality(P) <= 12
          PROVE  /\ Cardinality(P) <= 7 => ZBand(trend) \in {"normal", "stress"}
                 /\ ZBand(trend) \in {"normal", "stress", "alert"}
      <4>1. Cardinality(P) \in 3..12
        BY <2>5, <3>1
      <4> QED
        BY <2>3, <2>4, <2>6, <4>1, ShortHistory
    <3> QED
      BY <2>5, <3>1
  <2> HIDE DEF trend
  <2>8. SpikeRank[alert] <= SpikeRank[ZBand(trend)]
    BY <2>1, WeakerThanEither, BandsHaveRanks
  <2>9. /\ alert = "alert" => ~(ZBand(trend) \in {"normal", "stress"})
        /\ alert = "crisis" => ~(ZBand(trend) \in {"normal", "stress", "alert"})
    BY <2>8 DEF SpikeRank
  <2>10. /\ alert = "alert" => Cardinality(P) >= 8
         /\ alert = "crisis" => Cardinality(P) >= 13
    BY <2>5, <2>7, <2>9
  <2> QED
    BY <2>10 DEF P, latest, alert
<1> QED
  BY <1>1, Invariant, PTL
=============================================================================
