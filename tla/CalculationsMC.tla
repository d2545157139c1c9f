--------------------------- MODULE CalculationsMC ---------------------------
(***************************************************************************)
(* A small instance of Calculations: requests that are right and ones with *)
(* a single thing wrong, of a few bars, observations or events each.       *)
(***************************************************************************)
EXTENDS Calculations

(* Bars of the engine's batches, and lists of its profiles. *)
Up   == [open |-> 1, high |-> 3, low |-> 1, close |-> 2, volume |-> 1]
Flat == [open |-> 2, high |-> 2, low |-> 2, close |-> 2, volume |-> 0]
Bad  == [open |-> 1, high |-> 1, low |-> 3, close |-> 1, volume |-> 1]

BarOf(closed, available, candle) ==
  [closed |-> closed, available |-> available, candle |-> candle]

Offered == {BarOf(1, 1, Up), BarOf(1, 2, Flat), BarOf(2, 2, Up), BarOf(2, 3, Flat),
            BarOf(3, 3, Up), BarOf(2, 1, Up), BarOf(3, 3, Bad)}

MCOffers == {<<>>} \cup {<<b>> : b \in Offered} \cup {<<b, c>> : b, c \in Offered}
            \cup {<<b, c, d>> : b, c, d \in Offered}

MCLists == {<<>>} \cup {<<p>> : p \in Profiles} \cup {<<p, q>> : p, q \in Profiles}
           \cup {<<"vwma", "obv", "vwma">>, <<"obv", "rsi", "vwma">>}

MCMinimumBars == [p \in Profiles |-> IF p \in {"obv", "ema"} THEN 1 ELSE 2]

(* Bars of the native batches: prices some bricks apart. *)
Priced(p, v) == [open |-> p, high |-> p + 1, low |-> p, close |-> p, volume |-> v]

Prices == {2, 3, 4, 8, 15}

MCCandles == {Up, Flat, Bad} \cup {Priced(p, v) : p \in Prices, v \in 1 .. 3}

MCNativeOffers ==
  {<<>>, <<BarOf(2, 2, Up), BarOf(1, 2, Up)>>, <<BarOf(2, 3, Up), BarOf(3, 2, Up)>>}
  \cup {<<BarOf(1, 1, Priced(p, 1)), BarOf(2, 2, Priced(q, 2)),
          BarOf(3, 4, Priced(r, 1)), BarOf(4, 4, Priced(s, 3))>> :
          p \in {2, 4, 8}, q \in Prices, r \in Prices, s \in Prices}

Op(id, period) == [id |-> id, period |-> period, part |-> 0, whole |-> 1]

RenkoBy(part, whole) == [id |-> "renko", period |-> 0, part |-> part, whole |-> whole]

MCNativeLists ==
  {<<>>, <<Op("past", 2), RenkoBy(1, 2), Op("collapse", 2)>>, <<RenkoBy(1, 2), RenkoBy(1, 3)>>,
   <<Op("collapse", 3), Op("past", 1)>>, <<Op("past", 0)>>, <<RenkoBy(1, 1)>>, <<Op("scalar", 1)>>,
   <<Op("past", 1), Op("unknown", 1)>>}

(* Observations of a split about the boundaries of two folds. *)
LabelOf(id, at, end, available) ==
  [id |-> id, at |-> at, features |-> at, end |-> end, available |-> available]

FoldOf(start, train, calibration, validation) ==
  [start |-> start, train |-> train, calibration |-> calibration, validation |-> validation]

Labels == {LabelOf(id, at, at + 1, at + 1 + late) : id \in 1 .. 2, at \in 1 .. 8, late \in 0 .. 1}

MCSplits ==
  LET four  == [i \in 1 .. 4 |-> LabelOf(i, i, i + 1, i + 1)]
      lists == {<<>>, four, <<LabelOf(1, 3, 3, 4)>>, <<LabelOf(1, 4, 6, 5)>>}
               \cup {<<o, p>> : o, p \in Labels}
               \cup {<<LabelOf(3, 4, 5, 5), o, p>> : o, p \in Labels}
      folds == {<<>>, <<FoldOf(1, 4, 7, 9)>>, <<FoldOf(1, 3, 4, 7)>>,
                <<FoldOf(1, 4, 7, 9), FoldOf(2, 5, 8, 10)>>,
                <<FoldOf(1, 4, 7, 9), FoldOf(1, 4, 8, 10)>>}
  IN  {[asOf |-> 9, cutoff |-> cutoff, gap |-> gap, minimum |-> 1, folds |-> f, labels |-> l] :
         cutoff \in {7, 9, 10}, gap \in {0, 1}, f \in folds, l \in lists}

(* Intervals of two milliseconds that touch, overlap or are late. *)
ItemOf(id, start, end, available, matches, label) ==
  [id |-> id, start |-> start, end |-> end, available |-> available, known |-> start,
   matches |-> matches, label |-> label]

Items == {ItemOf(id, start, start + 2, start + 2 + late, TRUE, label) :
            id \in 1 .. 2, start \in 2 .. 4, late \in 0 .. 1, label \in {"hit", "none"}}
         \cup {ItemOf(3, 3, 5, 5, FALSE, "none"), ItemOf(3, 2, 3, 3, TRUE, "miss")}

MCEstimates ==
  LET lists == {<<>>} \cup {<<e>> : e \in Items} \cup {<<e, f>> : e, f \in Items}
               \cup {<<e, f, ItemOf(4, 5, 7, 7, TRUE, "miss")>> : e, f \in Items}
      request(kind, cutoff, horizon, from, to, list) ==
        [kind |-> kind, asOf |-> 8, cutoff |-> cutoff, horizon |-> horizon, from |-> from,
         to |-> to, model |-> 1, baseline |-> 1, items |-> list]
  IN  {request("probability", cutoff, 2, 0, 0, list) : cutoff \in {5, 7, 9}, list \in lists}
      \cup {request("calibration", 7, 2, 2, to, list) : to \in {4, 6}, list \in lists}
      \cup {request("probability", 7, 0, 0, 0, <<>>), request("calibration", 7, 2, 1, 4, <<>>)}

MCInputs == UNION {[1 .. n -> {"byte", "end"}] : n \in 0 .. 8}
=============================================================================
