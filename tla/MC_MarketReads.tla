---------------------------- MODULE MC_MarketReads ----------------------------
(* Two markets and two commodities.  The index starts with up to two values  *)
(* of each cell, of the day before and of today, with the values of a rebuild, *)
(* or with the long history of one cell from which alerts are computed.  Of    *)
(* the day before a transaction may still be open.                           *)
EXTENDS MarketReads, TLC

MCBasket == [teff |-> 2, oil |-> 1]

Row(code) == [code |-> code, active |-> TRUE]

Both == [markets |-> <<"active", "active">>, commodities |-> <<Row("teff"), Row("oil")>>]
Young == [markets |-> <<"active", "absent">>, commodities |-> <<Row("teff"), NoRow>>]

OfEachCell(values, none) ==
  [cell \in Cells |-> IF cell \in DOMAIN values THEN values[cell] ELSE none]

Holding(catalogue, values, began) ==
  [markets |-> catalogue.markets, commodities |-> catalogue.commodities,
   index |-> OfEachCell(values, [row \in {} |-> NoPrice]), open |-> began]

Yesterday == <<4, 1>> :> 1
Today == <<6, 1>> :> 2
Falling == <<4, 1>> :> 2 @@ <<6, 1>> :> 1
Lost == <<4, 1>> :> 2 @@ <<6, 1>> :> NoPrice
Rebuilt(t) == <<t, 1>> :> 1 @@ <<t, 2>> :> 2

Short == {Holding(Both, <<1, 1>> :> a @@ <<1, 2>> :> b @@ <<2, 1>> :> Yesterday, {}) :
            a \in {Falling, Lost}, b \in {Falling, Today}}
           \union {Holding(Young, <<1, 1>> :> Falling, {})}

Rebuilds == {Holding(Both, <<1, 1>> :> Rebuilt(4) @@ <<1, 2>> :> Falling, {5}),
             Holding(Both, <<1, 1>> :> Rebuilt(6) @@ <<2, 1>> :> Yesterday, {})}

History(values) == [row \in (DOMAIN values) \X {1} |-> values[row[1]]]
Peak(at) == History([t \in 0..6 |-> IF t = at THEN 2 ELSE 1])

\* Five values, or seven of which one stands out; this one may be computed twice.
Long == {Holding(Both, <<1, 1>> :> values, {}) :
           values \in {History(f) : f \in {g \in [0..4 -> {1, 2}] : g[0] = 1 /\ g[2] = 1}}
                        \union {Peak(3), Peak(6), Peak(6) @@ <<6, 2>> :> 1}}

MCDatabases == Short \union Rebuilds \union Long

\* A review's value, a rebuild of a cell, a rebuild of two.
MCBatches ==
  {OfEachCell(values, <<>>) :
     values \in {cell :> (1 :> v) : cell \in Cells, v \in {2, NoPrice}}
                  \union {<<1, 1>> :> <<1, 2>>, <<1, 1>> :> (1 :> 2) @@ <<2, 1>> :> (1 :> 2)}}
=============================================================================
