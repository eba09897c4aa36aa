-------------------------- MODULE AccountingProofs --------------------------
(***************************************************************************)
(* Proofs about Accounting, for any number of keys, requests, records,     *)
(* edits and faults.                                                       *)
(*                                                                         *)
(* The invariant has a part for the settings document, one for the usage   *)
(* records and one for the requests; a request's step disturbs one of the  *)
(* first two at a time.                                                    *)
(***************************************************************************)
EXTENDS Accounting, SumProofs, SequenceTheorems, FiniteSetTheorems, TLAPS
----------------------------------------------------------------------------
(* The rollups of Usage, for any set of records *)

Columns == {"requests", "success", "tokens"}

----------------------------------------------------------------------------
(* The folds of Cell and Merged as sums *)

\* The tokens of a cell.
LEMMA TokensSum ==
    ASSUME NEW S, IsFiniteSet(S), \A x \in S : x.tokens \in Nat,
           NEW f \in [S -> Nat], \A x \in S : f[x] = x.tokens, NEW g, IsSum(f, S, g),
           NEW T \in SUBSET S
    PROVE  MapThenSumSet(LAMBDA x : x.tokens, T) = g[T]
<1>2. PICK h \in [T -> Nat] : h = [x \in T |-> x.tokens]
    OBVIOUS
<1> DEFINE Folds(k) == k = [s \in SUBSET T |-> IF s = {} THEN 0 ELSE First(s).tokens + k[s \ {First(s)}]]
           k == CHOOSE k : Folds(k)
<1>3. ASSUME NEW p PROVE Folds(p) <=> IsSum(h, T, p)
    <2>1. \A s \in SUBSET T : s # {} => h[First(s)] = First(s).tokens
        BY <1>2, FirstIn
    <2> QED BY <2>1 DEF IsSum, Adds
<1>4. IsFiniteSet(T)
    BY FS_Subset
<1>5. \E p : Folds(p)
    BY <1>3, <1>4, SumExists
<1>6. Folds(k)
    BY <1>5
<1>7. IsSum(h, T, k)
    BY <1>3, <1>6
<1>8. MapThenSumSet(LAMBDA x : x.tokens, T) = k[T]
    BY DEF MapThenSumSet, MapThenFoldSet, First
<1> HIDE DEF k
<1>9. \A x \in T : h[x] = f[x]
    BY <1>2
<1>10. g[T] = k[T]
    BY <1>7, <1>9, SumPart
<1> QED BY <1>8, <1>10

ColumnTotal(cells, f, W) == MapThenSumSet(LAMBDA v : cells[v][f], W)

Column(cells, f, W) == [w \in W |-> cells[w][f]]

\* A column of merged cells.
LEMMA ColumnSum ==
    ASSUME NEW W, IsFiniteSet(W), NEW cells, NEW f, \A w \in W : cells[w][f] \in Nat
    PROVE  ColumnTotal(cells, f, W) = SumOver(Column(cells, f, W), W)
<1>1. PICK h \in [W -> Nat] : h = Column(cells, f, W)
    BY DEF Column
<1> DEFINE Folds(k) == k = [s \in SUBSET W |-> IF s = {} THEN 0 ELSE cells[First(s)][f] + k[s \ {First(s)}]]
           k == CHOOSE k : Folds(k)
<1>2. ASSUME NEW p PROVE Folds(p) <=> IsSum(h, W, p)
    <2>1. \A s \in SUBSET W : s # {} => h[First(s)] = cells[First(s)][f]
        BY <1>1, FirstIn DEF Column
    <2> QED BY <2>1 DEF IsSum, Adds
<1>3. \E p : Folds(p)
    BY <1>2, SumExists
<1>4. Folds(k)
    BY <1>3
<1>5. IsSum(h, W, k)
    BY <1>2, <1>4
<1>6. ColumnTotal(cells, f, W) = k[W]
    BY DEF ColumnTotal, MapThenSumSet, MapThenFoldSet, First
<1> HIDE DEF k
<1>7. PICK p : IsSum(h, W, p) /\ SumOver(h, W) = p[W]
    BY SumIs
<1>8. W \in SUBSET W /\ \A w \in W : h[w] = h[w]
    OBVIOUS
<1>9. k[W] = p[W]
    BY <1>5, <1>7, <1>8, SumPart
<1> QED BY <1>1, <1>6, <1>7, <1>9

\* The column f of the cells of S is the sum g of what the records contribute.
IsColumn(S, f, a, g) ==
    a \in [S -> Nat] /\ IsSum(a, S, g) /\ \A T \in SUBSET S : Cell(T)[f] = g[T]

\* Every column of a cell is a sum of what its records contribute to it.
LEMMA CellColumn ==
    ASSUME NEW S, IsFiniteSet(S), \A x \in S : x.tokens \in Nat, NEW f \in Columns
    PROVE  \E a, g : IsColumn(S, f, a, g)
<1>1. CASE f = "tokens"
    <2>1. PICK a \in [S -> Nat] : a = [x \in S |-> x.tokens]
        OBVIOUS
    <2>2. PICK g : IsSum(a, S, g)
        BY SumExists
    <2>3. ASSUME NEW T \in SUBSET S PROVE Cell(T)[f] = g[T]
        <3>1. MapThenSumSet(LAMBDA x : x.tokens, T) = g[T]
            BY <2>1, <2>2, TokensSum
        <3> QED BY <1>1, <3>1 DEF Cell
    <2> QED BY <2>1, <2>2, <2>3 DEF IsColumn
<1>2. ASSUME NEW P, \A T \in SUBSET S : Cell(T)[f] = Cardinality(T \cap P)
      PROVE  \E a, g : IsColumn(S, f, a, g)
    <2>1. PICK a \in [S -> Nat] : a = [x \in S |-> IF x \in P THEN 1 ELSE 0]
        OBVIOUS
    <2>2. PICK g : IsSum(a, S, g)
        BY SumExists
    <2>3. Indicates(a, S, P)
        BY <2>1 DEF Indicates
    <2>4. \A T \in SUBSET S : g[T] = Cardinality(T \cap P)
        <3>1. IsFiniteSet(S) /\ a \in [S -> Nat]
            OBVIOUS
        <3> QED BY ONLY <2>2, <2>3, <3>1, SumCounts
    <2>5. IsColumn(S, f, a, g)
        BY <1>2, <2>2, <2>4 DEF IsColumn
    <2> QED BY <2>5
<1>3. CASE f = "requests"
    <2>1. ASSUME NEW T \in SUBSET S PROVE Cell(T)[f] = Cardinality(T \cap S)
        <3>1. T \cap S = T
            OBVIOUS
        <3> QED BY <1>3, <3>1 DEF Cell
    <2> QED BY <1>2, <2>1
<1>4. CASE f = "success"
    <2> DEFINE P == {x \in S : x.status = "success"}
    <2>1. ASSUME NEW T \in SUBSET S PROVE Cell(T)[f] = Cardinality(T \cap P)
        <3>1. T \cap P = {x \in T : x.status = "success"}
            OBVIOUS
        <3> QED BY <1>4, <3>1 DEF Cell
    <2> HIDE DEF P
    <2> QED BY <1>2, <2>1
<1> QED BY <1>1, <1>3, <1>4 DEF Columns
----------------------------------------------------------------------------
(* Groupings *)

\* The cells of the records of R by value add up to the cell of R.
LEMMA CellsAddUp ==
    ASSUME NEW S, IsFiniteSet(S), \A x \in S : x.tokens \in Nat,
           NEW R \in SUBSET S, NEW W, IsFiniteSet(W), NEW value, \A x \in R : value[x] \in W,
           NEW cells, \A w \in W, f \in Columns : cells[w][f] = Cell(Valued(R, value, w))[f]
    PROVE  Merged(cells, W) = Cell(R)
<1>1. ASSUME NEW f \in Columns
      PROVE  ColumnTotal(cells, f, W) = Cell(R)[f]
    <2>1. PICK a, g : a \in [S -> Nat] /\ IsSum(a, S, g) /\ \A T \in SUBSET S : Cell(T)[f] = g[T]
        BY CellColumn DEF IsColumn
    <2>2. \A T \in SUBSET S : g[T] \in Nat
        BY <2>1, SumSplits DEF Splits
    <2>3. ASSUME NEW w \in W
          PROVE  cells[w][f] = g[Valued(R, value, w)] /\ cells[w][f] \in Nat
        <3>1. Valued(R, value, w) \in SUBSET S
            BY DEF Valued
        <3> QED BY <2>1, <2>2, <3>1
    <2>4. ColumnTotal(cells, f, W) = SumOver(Column(cells, f, W), W)
        BY <2>3, ColumnSum
    <2>5. Column(cells, f, W) = ByValue(g, R, value, W)
        BY <2>3 DEF Column, ByValue
    <2>6. SumOver(ByValue(g, R, value, W), W) = g[R]
        BY <2>1, SumByValue
    <2>7. Cell(R)[f] = g[R]
        BY <2>1
    <2> QED BY <2>4, <2>5, <2>6, <2>7
<1>2. Cell(R) = [f \in Columns |-> Cell(R)[f]]
    BY DEF Cell, Columns
<1>3. Merged(cells, W) = [f \in Columns |-> ColumnTotal(cells, f, W)]
    BY DEF Merged, Columns, ColumnTotal
<1> QED BY <1>1, <1>2, <1>3

\* The values of a dimension.
LEMMA ValuesFinite ==
    ASSUME NEW S, IsFiniteSet(S), NEW value
    PROVE  IsFiniteSet({value[x] : x \in S})
<1> DEFINE W == {value[x] : x \in S}
           f == [x \in S |-> value[x]]
<1>1. f \in Surjection(S, W)
    BY DEF Surjection
<1> HIDE DEF f, W
<1>2. IsFiniteSet(W)
    BY <1>1, FS_Surjection
<1> QED BY <1>2 DEF W

\* applyToAggregate: one dimension.
LEMMA DimensionAddsUp ==
    ASSUME NEW S, IsFiniteSet(S), \A x \in S : x.tokens \in Nat, NEW value
    PROVE  Merged(CellsBy(S, value), DOMAIN CellsBy(S, value)) = Cell(S)
<1> DEFINE W == {value[x] : x \in S}
           cells == CellsBy(S, value)
<1>1. DOMAIN cells = W /\ \A w \in W : cells[w] = Cell(Valued(S, value, w))
    BY DEF CellsBy, Valued
<1>2. \A x \in S : value[x] \in W
    OBVIOUS
<1>3. IsFiniteSet(W)
    BY ValuesFinite
<1> HIDE DEF W, cells
<1>4. S \in SUBSET S
    OBVIOUS
<1>5. Merged(cells, W) = Cell(S)
    BY <1>1, <1>2, <1>3, <1>4, CellsAddUp
<1> QED BY <1>1, <1>5 DEF cells
\* handlers.go: the models of all accounts, merged from the cells of pairs.
LEMMA ModelsAddUp ==
    ASSUME NEW S, IsFiniteSet(S), \A x \in S : x.tokens \in Nat,
           NEW agg, agg.byCredModel = CellsBy(S, [x \in S |-> <<x.cred, x.model>>])
    PROVE  Merged(handleUsage("model", agg), DOMAIN handleUsage("model", agg)) = Cell(S)
<1> DEFINE value == [x \in S |-> <<x.cred, x.model>>]
           pairs == {value[x] : x \in S}
           cells == CellsBy(S, value)
           second == [p \in pairs |-> p[2]]
           models == {second[p] : p \in pairs}
           rows == handleUsage("model", agg)
           model == [x \in S |-> x.model]
           Of(m) == {p \in pairs : p[2] = m}
           With(m) == Valued(S, model, m)
<1>1. DOMAIN cells = pairs /\ \A w \in pairs : cells[w] = Cell(Valued(S, value, w))
    BY DEF CellsBy, Valued
<1>2. agg.byCredModel = cells
    OBVIOUS
<1>3. DOMAIN rows = models /\ \A m \in models : rows[m] = Merged(cells, Of(m))
    <2> HIDE DEF cells
    <2>1. rows = [m \in {p[2] : p \in DOMAIN cells} |-> Merged(cells, {p \in DOMAIN cells : p[2] = m})]
        BY <1>2 DEF handleUsage
    <2> QED BY <1>1, <2>1
<1>4. IsFiniteSet(pairs) /\ IsFiniteSet(models)
    <2>1. IsFiniteSet(pairs)
        BY ValuesFinite
    <2> HIDE DEF pairs
    <2>2. IsFiniteSet(models)
        BY <2>1, ValuesFinite
    <2> QED BY <2>1, <2>2
<1>5. \A x \in S : value[x] \in pairs /\ value[x][2] = x.model /\ model[x] = x.model
    OBVIOUS
<1>6. \A x \in S : model[x] \in models
    BY <1>5
<1> HIDE DEF value, pairs, cells, rows, model, models
<1>7. ASSUME NEW m \in models PROVE rows[m] = Cell(With(m))
    <2>1. IsFiniteSet(Of(m)) /\ With(m) \in SUBSET S
        BY <1>4, FS_Subset DEF Valued
    <2>2. \A x \in With(m) : value[x] \in Of(m)
        BY <1>5 DEF Valued
    <2>3. ASSUME NEW w \in Of(m) PROVE cells[w] = Cell(Valued(With(m), value, w))
        <3>1. Valued(S, value, w) = Valued(With(m), value, w)
            BY <1>5 DEF Valued
        <3> QED BY <1>1, <3>1
    <2>4. \A w \in Of(m), f \in Columns : cells[w][f] = Cell(Valued(With(m), value, w))[f]
        BY <2>3
    <2> HIDE DEF Of, With
    <2>5. Merged(cells, Of(m)) = Cell(With(m))
        BY <2>1, <2>2, <2>4, CellsAddUp
    <2> QED BY <1>3, <2>5
<1>8. \A m \in models, f \in Columns : rows[m][f] = Cell(Valued(S, model, m))[f]
    BY <1>7
<1>9. S \in SUBSET S
    OBVIOUS
<1>10. IsFiniteSet(S) /\ IsFiniteSet(models) /\ \A x \in S : x.tokens \in Nat
    BY <1>4
<1>11. Merged(rows, models) = Cell(S)
    BY ONLY <1>6, <1>8, <1>9, <1>10, CellsAddUp
<1> QED BY <1>3, <1>11 DEF rows

\* The bucket of a moment is one of the timeline's.
LEMMA BucketInRange ==
    ASSUME NEW n \in Nat, NEW m \in Nat, n < m
    PROVE  (n \div 2) + 1 \in 1..((m + 2 - 1) \div 2)
OBVIOUS

\* store_memory.go, store_postgres.go: the buckets, with the part that a window
\* may end with.
LEMMA TimelineAddsUp ==
    ASSUME NEW S, IsFiniteSet(S), \A x \in S : x.tokens \in Nat,
           NEW window, window.start \in Nat, window.end \in Nat, window.bucket = 2,
           \A x \in S : x.ts \in Nat /\ inWindow(x, window)
    PROVE  Merged(Timeline(S, window), DOMAIN Timeline(S, window)) = Cell(S)
<1> DEFINE W == 1..Buckets(window)
           value == [x \in S |-> BucketOf(x, window) + 1]
           cells == Timeline(S, window)
<1>1. ASSUME NEW x \in S PROVE value[x] \in W /\ BucketOf(x, window) \in Int
    <2>1. x.ts - window.start \in Nat /\ window.end - window.start \in Nat
          /\ x.ts - window.start < window.end - window.start
        BY DEF inWindow
    <2>2. (x.ts - window.start) \div 2 + 1 \in 1..(((window.end - window.start) + 2 - 1) \div 2)
        BY <2>1, BucketInRange
    <2> QED BY <2>1, <2>2 DEF Buckets, BucketOf
<1>2. DOMAIN cells = W /\ \A i \in W : cells[i] = Cell({x \in S : BucketOf(x, window) = i - 1})
    BY DEF Timeline
<1>3. Buckets(window) \in Int
    BY DEF Buckets
<1>4. IsFiniteSet(W)
    BY <1>3, FS_Interval
<1>5. ASSUME NEW i \in W PROVE cells[i] = Cell(Valued(S, value, i))
    <2>1. i \in Int
        BY <1>3
    <2>2. {x \in S : BucketOf(x, window) = i - 1} = Valued(S, value, i)
        BY <1>1, <2>1 DEF Valued
    <2> QED BY <1>2, <2>2
<1>6. \A i \in W, f \in Columns : cells[i][f] = Cell(Valued(S, value, i))[f]
    BY <1>5
<1>7. S \in SUBSET S /\ \A x \in S : value[x] \in W
    BY <1>1
<1> HIDE DEF W, value, cells
<1>8. Merged(cells, W) = Cell(S)
    BY <1>4, <1>6, <1>7, CellsAddUp
<1> QED BY <1>2, <1>8 DEF cells

\* Query's answer: every view of it adds up to its totals.
LEMMA RollupAddsUp ==
    ASSUME NEW recs, IsFiniteSet(recs), \A x \in recs : x.tokens \in Nat /\ x.ts \in Nat,
           NEW filter, NEW window,
           window.start \in Nat, window.end \in Nat, window.bucket = 2,
           NEW agg, agg = Rollup(recs, filter, window)
    PROVE  /\ \A group \in {"model", "api_key", "device"} :
                Merged(handleUsage(group, agg), DOMAIN handleUsage(group, agg)) = agg.totals
           /\ Merged(handleUsageTimeline(agg), DOMAIN handleUsageTimeline(agg)) = agg.totals
<1> DEFINE S == {x \in recs : inWindow(x, window) /\ matchFilter(x, filter)}
<1>1. IsFiniteSet(S) /\ \A x \in S : x.tokens \in Nat /\ x.ts \in Nat /\ inWindow(x, window)
    BY FS_Subset
<1>2. agg = [applyToAggregate(S) EXCEPT !.timeline = Timeline(S, window)]
    BY DEF Rollup
<1> HIDE DEF S
<1>3. /\ agg.totals = Cell(S)
      /\ agg.byCredModel = CellsBy(S, [x \in S |-> <<x.cred, x.model>>])
      /\ agg.byAPIKey = CellsBy(S, [x \in S |-> x.key])
      /\ agg.byDevice = CellsBy(S, [x \in S |-> x.device])
      /\ agg.timeline = Timeline(S, window)
    BY <1>2 DEF applyToAggregate
<1>4. Merged(handleUsage("model", agg), DOMAIN handleUsage("model", agg)) = Cell(S)
    BY <1>1, <1>3, ModelsAddUp
<1>5. handleUsage("api_key", agg) = agg.byAPIKey /\ handleUsage("device", agg) = agg.byDevice
    BY DEF handleUsage
<1>6. Merged(agg.byAPIKey, DOMAIN agg.byAPIKey) = Cell(S)
    BY <1>1, <1>3, DimensionAddsUp
<1>7. Merged(agg.byDevice, DOMAIN agg.byDevice) = Cell(S)
    BY <1>1, <1>3, DimensionAddsUp
<1>8. Merged(agg.timeline, DOMAIN agg.timeline) = Cell(S)
    BY <1>1, <1>3, TimelineAddsUp
<1> QED BY <1>3, <1>4, <1>5, <1>6, <1>7, <1>8 DEF handleUsageTimeline
----------------------------------------------------------------------------
(* The invariant *)

\* The tokens by which requests in flight together can pass a quota.
Margin == MaxTokens * Cardinality(Requests)

\* What holds of a key in the document the process serves from and in the one
\* that is stored.  ch, db, pk and is are charged, doubtful, peak and issued.
KeyOK(k, key, ch, db, pk, is) ==
    /\ k \in is
    /\ ch[k] <= key.used /\ key.used <= ch[k] + db[k]
    /\ pk[k] > 0 => key.quota > 0 /\ key.quota <= pk[k] /\ key.used < pk[k] + Margin

DocOK(doc, ch, db, pk, is) ==
    /\ IsDocument(doc)
    /\ \A k \in DOMAIN doc.keys : KeyOK(k, doc.keys[k], ch, db, pk, is)

\* An id that was never issued has no history.
Histories(ch, db, pk, is) ==
    /\ ch \in [KeyIds -> Nat] /\ db \in [KeyIds -> Nat] /\ pk \in [KeyIds -> Nat]
    /\ \A k \in KeyIds \ is : ch[k] = 0 /\ db[k] = 0

\* The counters of doc are those of d, or new; pk and pk2 are the peaks before
\* and after.
Carried(doc, d, pk, pk2) ==
    \A k \in DOMAIN doc.keys :
        \/ doc.keys[k].used = 0
        \/ /\ k \in DOMAIN d.keys /\ doc.keys[k].used = d.keys[k].used
           /\ pk2[k] = 0 \/ (pk[k] > 0 /\ pk[k] <= pk2[k])

SettingsInv ==
    /\ Histories(charged, doubtful, peak, issued)
    /\ row # None => DocOK(row, charged, doubtful, peak, issued)
    /\ cur # None => /\ DocOK(cur, charged, doubtful, peak, issued) /\ Loadable(cur)
                     /\ row # None /\ Loadable(row)
                     /\ ~unsure => row = cur
-----------------------------------------------------------------------------
(***************************************************************************)
(* The settings document                                                   *)
(***************************************************************************)

\* What the bounds are.
LEMMA Constants ==
  /\ MaxTokens \in Nat /\ Cardinality(Requests) \in Nat /\ Margin \in Nat
  /\ IsFiniteSet(Requests)
<1>1. MaxTokens \in Nat /\ IsFiniteSet(Requests)
  BY AccountingAssumption
<1>2. Cardinality(Requests) \in Nat
  BY <1>1, FS_CardinalityType
<1> QED BY <1>1, <1>2 DEF Margin

\* The shape of a document.
LEMMA Documents ==
  ASSUME NEW doc, IsDocument(doc)
  PROVE  /\ doc # None
         /\ DOMAIN doc.keys \subseteq KeyIds
         /\ doc.keys \in [DOMAIN doc.keys -> APIKeys]
         /\ doc.reports \in Reports
         /\ doc = [keys |-> doc.keys, reports |-> doc.reports]
<1>1. doc # None
  BY SettingsAssumption
<1>2. PICK ids \in SUBSET KeyIds : doc \in [keys : [ids -> APIKeys], reports : Reports]
  BY DEF IsDocument
<1>3. doc.keys \in [ids -> APIKeys] /\ doc.reports \in Reports
  BY <1>2
<1>4. DOMAIN doc.keys = ids
  BY <1>3
<1>5. doc = [keys |-> doc.keys, reports |-> doc.reports]
  BY <1>2
<1> QED BY <1>1, <1>3, <1>4, <1>5

\* A document made from its two parts.
LEMMA MakeDocument ==
  ASSUME NEW ids \in SUBSET KeyIds, NEW ks \in [ids -> APIKeys], NEW rs \in Reports
  PROVE  LET doc == [keys |-> ks, reports |-> rs]
         IN  IsDocument(doc) /\ doc.keys = ks /\ doc.reports = rs /\ DOMAIN doc.keys = ids
BY DEF IsDocument

\* Histories only grow: what held of a document goes on holding.
LEMMA HistoriesGrow ==
  ASSUME NEW doc, NEW ch, NEW db, NEW pk, NEW is, NEW db2, NEW pk2, NEW is2,
         Histories(ch, db, pk, is), Histories(ch, db2, pk2, is2),
         DocOK(doc, ch, db, pk, is),
         is \subseteq is2,
         \A k \in is \cap KeyIds : db[k] <= db2[k] /\ (pk2[k] = 0 \/ (pk[k] > 0 /\ pk[k] <= pk2[k]))
  PROVE  DocOK(doc, ch, db2, pk2, is2)
<1>1. SUFFICES ASSUME NEW k \in DOMAIN doc.keys
               PROVE  KeyOK(k, doc.keys[k], ch, db2, pk2, is2)
  BY DEF DocOK
<1> DEFINE key == doc.keys[k]
<1>2. KeyOK(k, key, ch, db, pk, is) /\ k \in KeyIds /\ key \in APIKeys
  BY Documents DEF DocOK
<1>3. key.used \in Nat /\ key.quota \in Nat
  BY <1>2, SettingsAssumption DEF APIKeys
<1>4. ch[k] \in Nat /\ db[k] \in Nat /\ db2[k] \in Nat /\ pk[k] \in Nat /\ pk2[k] \in Nat
  BY <1>2 DEF Histories
<1>5. k \in is2 /\ db[k] <= db2[k] /\ (pk2[k] = 0 \/ (pk[k] > 0 /\ pk[k] <= pk2[k]))
  BY <1>2 DEF KeyOK
<1> HIDE DEF key
<1>6. ch[k] <= key.used /\ key.used <= ch[k] + db2[k]
  BY <1>2, <1>3, <1>4, <1>5 DEF KeyOK
<1>7. pk2[k] > 0 => key.quota > 0 /\ key.quota <= pk2[k] /\ key.used < pk2[k] + Margin
  BY <1>2, <1>3, <1>4, <1>5, Constants DEF KeyOK
<1> QED BY <1>5, <1>6, <1>7 DEF KeyOK, key

\* Other keys in a document.
LEMMA KeysReplaced ==
  ASSUME NEW d, IsDocument(d), NEW ids \in SUBSET KeyIds, NEW ks \in [ids -> APIKeys]
  PROVE  LET doc == [d EXCEPT !.keys = ks]
         IN  IsDocument(doc) /\ doc.keys = ks /\ doc.reports = d.reports /\ DOMAIN doc.keys = ids
<1>1. [d EXCEPT !.keys = ks] = [keys |-> ks, reports |-> d.reports] /\ d.reports \in Reports
  BY Documents
<1> QED BY <1>1, MakeDocument

\* One key changed.
LEMMA KeyReplaced ==
  ASSUME NEW d, IsDocument(d), NEW id \in DOMAIN d.keys, NEW key \in APIKeys
  PROVE  LET doc == [d EXCEPT !.keys[id] = key]
         IN  /\ IsDocument(doc) /\ doc.reports = d.reports /\ DOMAIN doc.keys = DOMAIN d.keys
             /\ doc.keys[id] = key
             /\ \A k \in DOMAIN d.keys \ {id} : doc.keys[k] = d.keys[k]
<1> DEFINE ks == [d.keys EXCEPT ![id] = key]
<1>1. DOMAIN d.keys \in SUBSET KeyIds /\ d.keys \in [DOMAIN d.keys -> APIKeys]
  BY Documents
<1>2. ks \in [DOMAIN d.keys -> APIKeys] /\ ks[id] = key
      /\ \A k \in DOMAIN d.keys \ {id} : ks[k] = d.keys[k]
  BY <1>1
<1>3. [d EXCEPT !.keys[id] = key] = [d EXCEPT !.keys = ks]
  BY Documents
<1> HIDE DEF ks
<1> QED BY <1>1, <1>2, <1>3, KeysReplaced

\* Store.Update: the new document has to fit the histories after the step, and
\* so has the old one where it stays.
LEMMA UpdateOK ==
  ASSUME SettingsInv, NEW doc, NEW outcome \in {"saved", "failed", "lost"}, Update(doc, outcome),
         Histories(charged', doubtful', peak', issued'),
         DocOK(doc, charged', doubtful', peak', issued'), Loadable(doc),
         outcome # "saved" => DocOK(cur, charged', doubtful', peak', issued'),
         outcome = "failed" => DocOK(row, charged', doubtful', peak', issued')
  PROVE  SettingsInv' /\ cur' # None
<1>1. cur # None /\ Loadable(cur) /\ row # None /\ Loadable(row) /\ (~unsure => row = cur)
  BY DEF Update, SettingsInv
<1>2. doc # None
  BY Documents DEF DocOK
<1>3. CASE outcome = "saved"
  <2>1. cur' = doc /\ row' = doc
    BY <1>3 DEF Update
  <2> QED BY <1>2, <2>1 DEF SettingsInv
<1>4. CASE outcome = "failed"
  <2>1. cur' = cur /\ row' = row /\ (unsure' <=> unsure)
    BY <1>4 DEF Update
  <2> QED BY <1>1, <1>4, <2>1 DEF SettingsInv
<1>5. CASE outcome = "lost"
  <2>1. cur' = cur /\ row' = doc
    BY <1>5 DEF Update
  <2>2. ~unsure' => row' = cur'
    BY <1>1, <1>5 DEF Update
  <2> QED BY <1>1, <1>2, <1>5, <2>1, <2>2 DEF SettingsInv
<1> QED BY <1>3, <1>4, <1>5

\* The same where no charge is made.
LEMMA EditOK ==
  ASSUME SettingsInv, NEW doc, NEW outcome \in {"saved", "failed", "lost"}, Update(doc, outcome),
         UNCHANGED <<charged, doubtful>>,
         Histories(charged, doubtful, peak', issued'), issued \subseteq issued',
         \A k \in issued \cap KeyIds : peak'[k] = 0 \/ (peak[k] > 0 /\ peak[k] <= peak'[k]),
         DocOK(doc, charged, doubtful, peak', issued'), Loadable(doc),
         Carried(doc, cur, peak, peak')
  PROVE  SettingsInv' /\ cur' # None /\ Carried(cur', cur, peak, peak')
<1>1. /\ Histories(charged, doubtful, peak, issued)
      /\ DocOK(cur, charged, doubtful, peak, issued)
      /\ DocOK(row, charged, doubtful, peak, issued)
  BY DEF SettingsInv, Update
<1>2. \A k \in issued \cap KeyIds : doubtful[k] <= doubtful[k]
  BY <1>1 DEF Histories
<1>3. /\ DocOK(cur, charged, doubtful, peak', issued')
      /\ DocOK(row, charged, doubtful, peak', issued')
  BY <1>1, <1>2, HistoriesGrow
<1>4. SettingsInv' /\ cur' # None
  BY <1>3, UpdateOK
<1>5. \A k \in DOMAIN cur.keys : k \in issued \cap KeyIds
  BY <1>1, Documents DEF DocOK, KeyOK
<1>6. Carried(cur, cur, peak, peak')
  BY <1>5 DEF Carried
<1>7. cur' \in {doc, cur}
  BY DEF Update
<1> QED BY <1>4, <1>6, <1>7

\* AddAPIKey: a new id has no history, so the new key starts with none.
LEMMA AddAPIKeyOK ==
  ASSUME SettingsInv, NEW id \in KeyIds, NEW secret \in Secrets, NEW expires \in Expiries,
         NEW quota \in Quotas, NEW outcome \in {"saved", "failed", "lost"},
         AddAPIKey(id, secret, expires, quota, outcome)
  PROVE  SettingsInv' /\ cur' # None /\ Carried(cur', cur, peak, peak')
<1> DEFINE key == NewKey(secret, expires, quota)
           ids == DOMAIN cur.keys \cup {id}
           ks == [k \in ids |-> IF k = id THEN key ELSE cur.keys[k]]
           doc == [cur EXCEPT !.keys = ks]
<1>1. /\ cur # None /\ IsDocument(cur) /\ DocOK(cur, charged, doubtful, peak, issued) /\ Loadable(cur)
      /\ Histories(charged, doubtful, peak, issued)
  BY DEF AddAPIKey, SettingsInv, DocOK
<1>2. DOMAIN cur.keys \subseteq KeyIds /\ cur.keys \in [DOMAIN cur.keys -> APIKeys]
  BY <1>1, Documents
<1>3. key \in APIKeys /\ key.used = 0 /\ key.quota = quota
  BY DEF NewKey, APIKeys
<1>4. quota \in Nat
  BY SettingsAssumption
<1>5. id \notin issued /\ id \notin DOMAIN cur.keys /\ Update(doc, outcome)
      /\ peak' = [peak EXCEPT ![id] = quota] /\ issued' = issued \cup {id, secret}
      /\ UNCHANGED <<charged, doubtful>>
  BY DEF AddAPIKey, MayAdd
<1> HIDE DEF key
<1>6. ids \in SUBSET KeyIds /\ ks \in [ids -> APIKeys] /\ ks[id] = key
      /\ \A k \in DOMAIN cur.keys : ks[k] = cur.keys[k]
  BY <1>2, <1>3, <1>5
<1>7. Histories(charged, doubtful, peak', issued')
  BY <1>1, <1>4, <1>5 DEF Histories
<1>8. \A k \in issued \cap KeyIds : peak'[k] = peak[k]
  BY <1>1, <1>5 DEF Histories
<1>9. \A k \in issued \cap KeyIds : peak[k] \in Nat /\ doubtful[k] \in Nat
  BY <1>1 DEF Histories
<1>10. \A k \in issued \cap KeyIds : peak'[k] = 0 \/ (peak[k] > 0 /\ peak[k] <= peak'[k])
  BY <1>8, <1>9
<1>11. DocOK(cur, charged, doubtful, peak', issued')
  <2>1. issued \subseteq issued'
    BY <1>5
  <2>2. \A k \in issued \cap KeyIds : doubtful[k] <= doubtful[k]
    BY <1>9
  <2> QED BY <1>1, <1>7, <1>10, <2>1, <2>2, HistoriesGrow
<1> HIDE DEF ks, ids
<1>12. IsDocument(doc) /\ doc.keys = ks /\ doc.reports = cur.reports /\ DOMAIN doc.keys = ids
  BY <1>1, <1>6, KeysReplaced
<1> HIDE DEF doc
<1>13. charged[id] = 0 /\ doubtful[id] = 0 /\ peak'[id] = quota
  BY <1>1, <1>5 DEF Histories
<1>14. KeyOK(id, key, charged, doubtful, peak', issued')
  BY <1>3, <1>4, <1>5, <1>13, Constants DEF KeyOK
<1>15. \A k \in ids : KeyOK(k, ks[k], charged, doubtful, peak', issued')
  BY <1>6, <1>11, <1>14 DEF ids, DocOK
<1>16. DocOK(doc, charged, doubtful, peak', issued')
  BY <1>12, <1>15 DEF DocOK
<1>17. Loadable(doc)
  BY <1>1, <1>12 DEF Loadable
<1>18. Carried(doc, cur, peak, peak')
  <2>1. \A k \in DOMAIN cur.keys : k \in issued \cap KeyIds
    BY <1>1, <1>2 DEF DocOK, KeyOK
  <2> QED BY <1>3, <1>6, <1>10, <1>12, <2>1 DEF Carried, ids
<1> QED BY <1>5, <1>7, <1>10, <1>16, <1>17, <1>18, EditOK DEF doc

\* One key of the document changed, with the counter left alone.
LEMMA KeyEditOK ==
  ASSUME SettingsInv, NEW id, NEW key \in APIKeys, NEW outcome \in {"saved", "failed", "lost"},
         cur # None, id \in DOMAIN cur.keys,
         Update([cur EXCEPT !.keys[id] = key], outcome),
         key.used = cur.keys[id].used,
         UNCHANGED <<charged, doubtful>>, issued \subseteq issued',
         peak' \in [KeyIds -> Nat],
         \A k \in KeyIds : peak'[k] = 0 \/ (peak[k] > 0 /\ peak[k] <= peak'[k]),
         peak'[id] > 0 => key.quota > 0 /\ key.quota <= peak'[id]
  PROVE  SettingsInv' /\ cur' # None /\ Carried(cur', cur, peak, peak')
<1> DEFINE doc == [cur EXCEPT !.keys[id] = key]
<1>1. /\ IsDocument(cur) /\ DocOK(cur, charged, doubtful, peak, issued) /\ Loadable(cur)
      /\ Histories(charged, doubtful, peak, issued)
  BY DEF SettingsInv, DocOK
<1>2. Histories(charged, doubtful, peak', issued')
  BY <1>1 DEF Histories
<1>3. \A k \in issued \cap KeyIds : doubtful[k] <= doubtful[k]
  BY <1>1 DEF Histories
<1>4. DocOK(cur, charged, doubtful, peak', issued')
  BY <1>1, <1>2, <1>3, HistoriesGrow
<1>5. /\ IsDocument(doc) /\ doc.reports = cur.reports /\ DOMAIN doc.keys = DOMAIN cur.keys
      /\ doc.keys[id] = key
      /\ \A k \in DOMAIN cur.keys \ {id} : doc.keys[k] = cur.keys[k]
  BY <1>1, KeyReplaced
<1> HIDE DEF doc
<1>6. KeyOK(id, key, charged, doubtful, peak', issued')
  BY <1>4 DEF DocOK, KeyOK
<1>7. DocOK(doc, charged, doubtful, peak', issued')
  BY <1>4, <1>5, <1>6 DEF DocOK
<1>8. Loadable(doc)
  BY <1>1, <1>5 DEF Loadable
<1>9. Carried(doc, cur, peak, peak')
  <2>1. DOMAIN cur.keys \subseteq KeyIds
    BY <1>1, Documents
  <2> QED BY <1>5, <2>1 DEF Carried
<1> QED BY <1>2, <1>7, <1>8, <1>9, EditOK DEF doc

\* A patch is typed and leaves the counter alone.
LEMMA PatchedOK ==
  ASSUME NEW key \in APIKeys, NEW patch \in Patches
  PROVE  LET p == Patched(key, patch)
         IN  /\ p \in APIKeys /\ p.used = key.used
             /\ p.quota = IF patch.quota = None THEN key.quota ELSE patch.quota
             /\ patch.quota = None \/ patch.quota \in Quotas
<1> DEFINE p == Patched(key, patch)
<1>1. /\ DOMAIN patch = {"enabled", "expires", "quota"}
      /\ patch.enabled = None \/ patch.enabled \in BOOLEAN
      /\ patch.expires = None \/ patch.expires \in Expiries
      /\ patch.quota = None \/ patch.quota \in Quotas
  BY DEF Patches
<1>2. DOMAIN key = {"secret", "enabled", "expires", "quota", "used"}
      /\ key.secret \in Secrets /\ key.enabled \in BOOLEAN /\ key.expires \in Expiries \cup {0}
      /\ key.quota \in Quotas /\ key.used \in Nat
  BY DEF APIKeys
<1>3. p = [f \in {"secret", "enabled", "expires", "quota", "used"} |->
             IF f \in {"enabled", "expires", "quota"} /\ patch[f] # None THEN patch[f] ELSE key[f]]
  BY <1>1, <1>2 DEF Patched
<1>4. /\ p.secret = key.secret /\ p.used = key.used
      /\ p.enabled = IF patch.enabled # None THEN patch.enabled ELSE key.enabled
      /\ p.expires = IF patch.expires # None THEN patch.expires ELSE key.expires
      /\ p.quota = IF patch.quota # None THEN patch.quota ELSE key.quota
  BY <1>3
<1>5. p = [secret |-> p.secret, enabled |-> p.enabled, expires |-> p.expires, quota |-> p.quota,
           used |-> p.used]
  BY <1>3
<1> HIDE DEF p
<1>6. p.enabled \in BOOLEAN
  BY <1>1, <1>2, <1>4
<1>7. p.secret \in Secrets /\ p.expires \in Expiries \cup {0} /\ p.quota \in Quotas /\ p.used \in Nat
  BY <1>1, <1>2, <1>4
<1>8. p \in APIKeys
  BY <1>5, <1>6, <1>7 DEF APIKeys
<1> QED BY <1>1, <1>4, <1>8 DEF p

\* UpdateAPIKey: a patch keeps the counter, and the peak follows the quota.
LEMMA UpdateAPIKeyOK ==
  ASSUME SettingsInv, NEW id \in KeyIds, NEW patch \in Patches,
         NEW outcome \in {"saved", "failed", "lost"}, UpdateAPIKey(id, patch, outcome)
  PROVE  SettingsInv' /\ cur' # None /\ Carried(cur', cur, peak, peak')
<1> DEFINE old == cur.keys[id]
           key == Patched(old, patch)
<1>1. /\ cur # None /\ id \in DOMAIN cur.keys /\ IsDocument(cur)
      /\ KeyOK(id, old, charged, doubtful, peak, issued)
      /\ peak \in [KeyIds -> Nat]
  BY DEF UpdateAPIKey, SettingsInv, DocOK, Histories
<1>2. old \in APIKeys
  BY <1>1, Documents
<1>3. old.quota \in Nat
  BY <1>2, SettingsAssumption DEF APIKeys
<1>4. Update([cur EXCEPT !.keys[id] = key], outcome)
  BY DEF UpdateAPIKey
<1> HIDE DEF old
<1>5. /\ key \in APIKeys /\ key.used = old.used
      /\ key.quota = IF patch.quota = None THEN old.quota ELSE patch.quota
      /\ patch.quota = None \/ patch.quota \in Quotas
  BY <1>2, PatchedOK
<1> HIDE DEF key
<1> DEFINE q == IF 0 \in {peak[id], patch.quota} THEN 0
                ELSE IF patch.quota > peak[id] THEN patch.quota ELSE peak[id]
<1>6. peak' = IF patch.quota = None THEN peak ELSE [peak EXCEPT ![id] = q]
  BY DEF UpdateAPIKey
<1>7. CASE patch.quota = None
  <2>1. peak' = peak /\ key.quota = old.quota
    BY <1>5, <1>6, <1>7
  <2>2. \A k \in KeyIds : peak'[k] \in Nat /\ peak'[k] = peak[k]
    BY <1>1, <2>1
  <2>3. peak'[id] > 0 => key.quota > 0 /\ key.quota <= peak'[id]
    BY <1>1, <2>1 DEF KeyOK
  <2>4. \A k \in KeyIds : peak'[k] = 0 \/ (peak[k] > 0 /\ peak[k] <= peak'[k])
    BY <2>2
  <2> QED BY <1>1, <1>4, <1>5, <2>1, <2>3, <2>4, KeyEditOK DEF UpdateAPIKey, old
<1>8. CASE patch.quota # None
  <2>1. patch.quota \in Nat /\ peak[id] \in Nat /\ key.quota = patch.quota
    BY <1>1, <1>5, <1>8, SettingsAssumption
  <2>2. /\ q \in Nat /\ (q = 0 \/ (peak[id] > 0 /\ peak[id] <= q))
        /\ q > 0 => patch.quota > 0 /\ patch.quota <= q
    BY <2>1
  <2>3. peak' = [peak EXCEPT ![id] = q]
    BY <1>6, <1>8
  <2> HIDE DEF q
  <2>4. /\ peak' \in [KeyIds -> Nat] /\ peak'[id] = q
        /\ \A k \in KeyIds : k # id => peak'[k] = peak[k]
    BY <1>1, <2>2, <2>3
  <2>5. \A k \in KeyIds : peak[k] \in Nat
    BY <1>1
  <2>6. \A k \in KeyIds : peak'[k] = 0 \/ (peak[k] > 0 /\ peak[k] <= peak'[k])
    BY <2>2, <2>4, <2>5
  <2>7. peak'[id] > 0 => key.quota > 0 /\ key.quota <= peak'[id]
    BY <2>1, <2>2, <2>4
  <2> QED BY <1>1, <1>4, <1>5, <2>4, <2>6, <2>7, KeyEditOK DEF UpdateAPIKey, old
<1> QED BY <1>7, <1>8

\* RotateAPIKey: a new value, the same counter and quota.
LEMMA RotateAPIKeyOK ==
  ASSUME SettingsInv, NEW id \in KeyIds, NEW secret \in Secrets,
         NEW outcome \in {"saved", "failed", "lost"}, RotateAPIKey(id, secret, outcome)
  PROVE  SettingsInv' /\ cur' # None /\ Carried(cur', cur, peak, peak')
<1> DEFINE old == cur.keys[id]
           key == Rotated(old, secret)
<1>1. /\ cur # None /\ id \in DOMAIN cur.keys /\ IsDocument(cur)
      /\ KeyOK(id, old, charged, doubtful, peak, issued)
      /\ peak \in [KeyIds -> Nat]
  BY DEF RotateAPIKey, SettingsInv, DocOK, Histories
<1>2. old \in APIKeys
  BY <1>1, Documents
<1>3. Update([cur EXCEPT !.keys[id] = key], outcome) /\ issued \subseteq issued'
      /\ UNCHANGED <<charged, doubtful, peak>>
  BY DEF RotateAPIKey
<1> HIDE DEF old
<1>4. key \in APIKeys /\ key.used = old.used /\ key.quota = old.quota
  BY <1>2 DEF Rotated, APIKeys
<1> HIDE DEF key
<1>5. \A k \in KeyIds : peak[k] \in Nat
  BY <1>1
<1>6. \A k \in KeyIds : peak'[k] = 0 \/ (peak[k] > 0 /\ peak[k] <= peak'[k])
  BY <1>3, <1>5
<1>7. peak'[id] > 0 => key.quota > 0 /\ key.quota <= peak'[id]
  BY <1>1, <1>3, <1>4 DEF KeyOK
<1> QED BY <1>1, <1>3, <1>4, <1>6, <1>7, KeyEditOK DEF old

\* An edit that leaves every history alone.
LEMMA PlainEditOK ==
  ASSUME SettingsInv, NEW doc, NEW outcome \in {"saved", "failed", "lost"}, Update(doc, outcome),
         UNCHANGED <<charged, doubtful, peak, issued>>,
         DocOK(doc, charged, doubtful, peak, issued), Loadable(doc),
         \A k \in DOMAIN doc.keys : k \in DOMAIN cur.keys /\ doc.keys[k].used = cur.keys[k].used
  PROVE  SettingsInv' /\ cur' # None /\ Carried(cur', cur, peak, peak')
<1>1. /\ Histories(charged, doubtful, peak, issued) /\ peak \in [KeyIds -> Nat]
      /\ issued \subseteq issued'
  BY DEF SettingsInv, Histories
<1>2. \A k \in issued \cap KeyIds : peak[k] \in Nat
  BY <1>1
<1>3. \A k \in issued \cap KeyIds : peak'[k] = 0 \/ (peak[k] > 0 /\ peak[k] <= peak'[k])
  BY <1>2
<1>4. \A k \in DOMAIN doc.keys : k \in issued \cap KeyIds
  BY Documents DEF DocOK, KeyOK
<1>5. Carried(doc, cur, peak, peak')
  BY <1>3, <1>4 DEF Carried
<1> QED BY <1>1, <1>3, <1>5, EditOK

\* DeleteAPIKey: the other keys stay as they are.
LEMMA DeleteAPIKeyOK ==
  ASSUME SettingsInv, NEW id \in KeyIds, NEW outcome \in {"saved", "failed", "lost"},
         DeleteAPIKey(id, outcome)
  PROVE  SettingsInv' /\ cur' # None /\ Carried(cur', cur, peak, peak')
<1> DEFINE ids == DOMAIN cur.keys \ {id}
           ks == [k \in ids |-> cur.keys[k]]
           doc == [cur EXCEPT !.keys = ks]
<1>1. /\ cur # None /\ IsDocument(cur) /\ DocOK(cur, charged, doubtful, peak, issued)
      /\ Loadable(cur)
  BY DEF DeleteAPIKey, SettingsInv, DocOK
<1>2. ids \in SUBSET KeyIds /\ ks \in [ids -> APIKeys] /\ \A k \in ids : ks[k] = cur.keys[k]
  BY <1>1, Documents
<1>3. Update(doc, outcome) /\ UNCHANGED <<charged, doubtful, peak, issued>>
  BY DEF DeleteAPIKey, Restrict
<1> HIDE DEF ids, ks
<1>4. IsDocument(doc) /\ doc.keys = ks /\ doc.reports = cur.reports /\ DOMAIN doc.keys = ids
  BY <1>1, <1>2, KeysReplaced
<1> HIDE DEF doc
<1>5. DocOK(doc, charged, doubtful, peak, issued)
  BY <1>1, <1>2, <1>4 DEF DocOK, ids
<1>6. Loadable(doc)
  BY <1>1, <1>4 DEF Loadable
<1>7. \A k \in DOMAIN doc.keys : k \in DOMAIN cur.keys /\ doc.keys[k].used = cur.keys[k].used
  BY <1>2, <1>4 DEF ids
<1> QED BY <1>3, <1>5, <1>6, <1>7, PlainEditOK DEF doc

\* Another prompt_cache_reports section.
LEMMA ReportsReplaced ==
  ASSUME NEW d, NEW ch, NEW db, NEW pk, NEW is, DocOK(d, ch, db, pk, is), NEW rs \in Reports
  PROVE  LET doc == [d EXCEPT !.reports = rs]
         IN  DocOK(doc, ch, db, pk, is) /\ doc.reports = rs /\ doc.keys = d.keys
<1>1. IsDocument(d)
  BY DEF DocOK
<1>2. [d EXCEPT !.reports = rs] = [keys |-> d.keys, reports |-> rs]
  BY <1>1, Documents
<1>3. DOMAIN d.keys \in SUBSET KeyIds /\ d.keys \in [DOMAIN d.keys -> APIKeys]
  BY <1>1, Documents
<1> QED BY <1>2, <1>3, MakeDocument DEF DocOK

\* handleSettingsPut: what it accepts can be loaded, and no key changes.
LEMMA PutSettingsOK ==
  ASSUME SettingsInv, NEW reports \in Reports, NEW outcome \in {"saved", "failed", "lost"},
         PutSettings(reports, outcome)
  PROVE  SettingsInv' /\ cur' # None /\ Carried(cur', cur, peak, peak')
<1> DEFINE doc == [cur EXCEPT !.reports = reports]
<1>1. DocOK(cur, charged, doubtful, peak, issued)
  BY DEF PutSettings, SettingsInv
<1>2. Update(doc, outcome) /\ UNCHANGED <<charged, doubtful, peak, issued>>
  BY DEF PutSettings
<1>3. DocOK(doc, charged, doubtful, peak, issued) /\ doc.reports = reports /\ doc.keys = cur.keys
  BY <1>1, ReportsReplaced
<1>4. Loadable(doc)
  BY <1>3 DEF Loadable, PutSettings, Accepted
<1> HIDE DEF doc
<1> QED BY <1>2, <1>3, <1>4, PlainEditOK DEF doc

\* The charge: the counter and the history of the outcome grow alike.
LEMMA AddAPIKeyUsageOK ==
  ASSUME SettingsInv, NEW id \in KeyIds, NEW tokens \in Nat,
         NEW outcome \in {"saved", "failed", "lost"}, AddAPIKeyUsage(id, tokens, outcome),
         id \in DOMAIN cur.keys /\ peak[id] > 0 => cur.keys[id].used + tokens < peak[id] + Margin
  PROVE  SettingsInv' /\ cur' # None
<1>1. CASE id \notin DOMAIN cur.keys
  <2>1. UNCHANGED <<cur, row, unsure, charged, doubtful, peak, issued>> /\ cur # None
    BY <1>1 DEF AddAPIKeyUsage
  <2> QED BY <2>1 DEF SettingsInv
<1>2. CASE id \in DOMAIN cur.keys
  <2> DEFINE old == cur.keys[id]
             n == old.used + tokens
             key == [old EXCEPT !.used = n]
             doc == [cur EXCEPT !.keys[id] = key]
             ch == [charged EXCEPT ![id] = charged[id] + tokens]
             db == [doubtful EXCEPT ![id] = doubtful[id] + tokens]
  <2>1. /\ cur # None /\ IsDocument(cur) /\ Loadable(cur)
        /\ DocOK(cur, charged, doubtful, peak, issued)
        /\ DocOK(row, charged, doubtful, peak, issued)
        /\ Histories(charged, doubtful, peak, issued)
    BY DEF AddAPIKeyUsage, SettingsInv, DocOK
  <2>2. old \in APIKeys /\ KeyOK(id, old, charged, doubtful, peak, issued)
    BY <1>2, <2>1, Documents DEF DocOK
  <2>3. old.used \in Nat /\ n \in Nat /\ old.quota \in Nat
    <3> HIDE DEF old
    <3>1. old.used \in Nat /\ old.quota \in Nat
      BY <2>2, SettingsAssumption DEF APIKeys
    <3> QED BY <3>1
  <2>4. /\ Update(doc, outcome)
        /\ charged' = IF outcome = "saved" THEN ch ELSE charged
        /\ doubtful' = IF outcome = "lost" THEN db ELSE doubtful
        /\ UNCHANGED <<peak, issued>>
    BY <1>2 DEF AddAPIKeyUsage
  <2>5. charged[id] \in Nat /\ doubtful[id] \in Nat /\ peak[id] \in Nat
    BY <2>1 DEF Histories
  <2>6. /\ ch[id] = charged[id] + tokens /\ db[id] = doubtful[id] + tokens
        /\ \A k \in KeyIds \ {id} : ch[k] = charged[k] /\ db[k] = doubtful[k]
        /\ ch \in [KeyIds -> Nat] /\ db \in [KeyIds -> Nat]
    BY <2>1, <2>5 DEF Histories
  <2>7. id \in issued
    BY <2>2 DEF KeyOK
  <2>8. Histories(ch, doubtful, peak, issued) /\ Histories(charged, db, peak, issued)
    BY <2>1, <2>6, <2>7 DEF Histories
  <2> HIDE DEF ch, db, n
  <2>9. key \in APIKeys /\ key.used = n /\ key.quota = old.quota
    BY <2>2, <2>3 DEF APIKeys
  <2> HIDE DEF key
  <2>10. /\ IsDocument(doc) /\ doc.reports = cur.reports /\ DOMAIN doc.keys = DOMAIN cur.keys
         /\ doc.keys[id] = key
         /\ \A k \in DOMAIN cur.keys \ {id} : doc.keys[k] = cur.keys[k]
    BY <1>2, <2>1, <2>9, KeyReplaced
  <2> HIDE DEF doc
  <2>11. Loadable(doc)
    BY <2>1, <2>10 DEF Loadable
  <2>12. peak[id] > 0 => n < peak[id] + Margin
    BY <1>2 DEF n
  <2>13. charged[id] <= old.used /\ old.used <= charged[id] + doubtful[id]
         /\ (peak[id] > 0 => old.quota > 0 /\ old.quota <= peak[id])
    BY <2>2 DEF KeyOK
  <2>14. /\ ch[id] <= n /\ n <= ch[id] + doubtful[id]
         /\ charged[id] <= n /\ n <= charged[id] + db[id]
    BY <2>3, <2>5, <2>6, <2>13 DEF n
  <2>15. KeyOK(id, key, ch, doubtful, peak, issued) /\ KeyOK(id, key, charged, db, peak, issued)
    BY <2>7, <2>9, <2>12, <2>13, <2>14 DEF KeyOK
  <2>16. DOMAIN cur.keys \subseteq KeyIds
    BY <2>1, Documents
  <2>17. \A k \in DOMAIN cur.keys \ {id} : /\ KeyOK(k, cur.keys[k], ch, doubtful, peak, issued)
                                          /\ KeyOK(k, cur.keys[k], charged, db, peak, issued)
    BY <2>1, <2>6, <2>16 DEF DocOK, KeyOK
  <2>18. DocOK(doc, ch, doubtful, peak, issued) /\ DocOK(doc, charged, db, peak, issued)
    BY <2>10, <2>15, <2>17 DEF DocOK
  <2>19. CASE outcome = "saved"
    <3>1. charged' = ch /\ doubtful' = doubtful /\ UNCHANGED <<peak, issued>>
      BY <2>4, <2>19
    <3> QED BY <2>4, <2>8, <2>11, <2>18, <2>19, <3>1, UpdateOK
  <2>20. CASE outcome = "lost"
    <3>1. charged' = charged /\ doubtful' = db /\ UNCHANGED <<peak, issued>>
      BY <2>4, <2>20
    <3>2. \A k \in KeyIds : doubtful[k] \in Nat /\ peak[k] \in Nat
      BY <2>1 DEF Histories
    <3>3. \A k \in issued \cap KeyIds : doubtful[k] <= db[k]
      BY <2>6, <3>2
    <3>4. \A k \in issued \cap KeyIds : peak[k] = 0 \/ (peak[k] > 0 /\ peak[k] <= peak[k])
      BY <3>2
    <3>5. DocOK(cur, charged, db, peak, issued)
      BY <2>1, <2>8, <3>3, <3>4, HistoriesGrow
    <3> QED BY <2>4, <2>8, <2>11, <2>18, <2>20, <3>1, <3>5, UpdateOK
  <2>21. CASE outcome = "failed"
    <3>1. charged' = charged /\ doubtful' = doubtful /\ UNCHANGED <<peak, issued>>
      BY <2>4, <2>21
    <3>2. cur' = cur /\ row' = row /\ (unsure' <=> unsure)
      BY <2>4, <2>21 DEF Update
    <3> QED BY <2>1, <3>1, <3>2 DEF SettingsInv
  <2> QED BY <2>19, <2>20, <2>21
<1> QED BY <1>1, <1>2

\* A start: what load makes of the row, or the defaults.
LEMMA newWithBackendOK ==
  ASSUME SettingsInv, newWithBackend
  PROVE  SettingsInv' /\ cur' # None
<1>1. /\ row' = cur' /\ cur' = (IF row = None THEN Default ELSE load(row))
      /\ row # None => Loadable(row)
      /\ UNCHANGED <<charged, doubtful, peak, issued>>
  BY DEF newWithBackend
<1>2. DocOK(cur', charged, doubtful, peak, issued) /\ Loadable(cur')
  <2>1. CASE row = None
    <3> DEFINE ks == [k \in {} |-> None]
    <3>1. ks \in [{} -> APIKeys] /\ "default" \in Reports
      BY DEF Reports
    <3>2. Default = [keys |-> ks, reports |-> "default"]
      BY DEF Default
    <3> HIDE DEF ks
    <3>3. IsDocument(Default) /\ DOMAIN Default.keys = {} /\ Default.reports = "default"
      BY <3>1, <3>2, MakeDocument
    <3> QED BY <1>1, <2>1, <3>3 DEF DocOK, Loadable
  <2>2. CASE row # None
    <3>1. DocOK(row, charged, doubtful, peak, issued) /\ Loadable(row)
      BY <1>1, <2>2 DEF SettingsInv
    <3>2. CASE row.reports = "absent"
      <4>1. cur' = [row EXCEPT !.reports = "default"] /\ "default" \in Reports
        BY <1>1, <2>2, <3>2 DEF load, Reports
      <4>2. DocOK(cur', charged, doubtful, peak, issued) /\ cur'.reports = "default"
        BY <3>1, <4>1, ReportsReplaced
      <4> QED BY <4>2 DEF Loadable
    <3>3. CASE row.reports # "absent"
      BY <1>1, <2>2, <3>1, <3>3 DEF load
    <3> QED BY <3>2, <3>3
  <2> QED BY <2>1, <2>2
<1>3. cur' # None
  BY <1>2, Documents DEF DocOK
<1> QED BY <1>1, <1>2, <1>3 DEF SettingsInv

\* The row the first start finds.
LEMMA SettingsInitOK == SettingsInit => SettingsInv
<1> SUFFICES ASSUME SettingsInit PROVE SettingsInv
  OBVIOUS
<1>1. cur = None
  BY DEF SettingsInit
<1>2. CASE row = None
  <2>1. charged = [k \in KeyIds |-> 0] /\ doubtful = [k \in KeyIds |-> 0] /\ peak = [k \in KeyIds |-> 0]
    BY <1>2 DEF SettingsInit
  <2>2. Histories(charged, doubtful, peak, issued)
    BY <2>1 DEF Histories
  <2> QED BY <1>1, <1>2, <2>2 DEF SettingsInv
<1>3. CASE row # None
  <2>1. row \in Initial \ {None} /\ IsDocument(row)
    BY <1>3, SettingsAssumption DEF SettingsInit
  <2>2. DOMAIN row.keys \subseteq KeyIds /\ row.keys \in [DOMAIN row.keys -> APIKeys]
    BY <2>1, Documents
  <2>3. \A k \in DOMAIN row.keys : row.keys[k].used \in Nat /\ row.keys[k].quota \in Nat
    BY <2>2, SettingsAssumption DEF APIKeys
  <2>4. /\ charged = [k \in KeyIds |-> IF k \in DOMAIN row.keys THEN row.keys[k].used ELSE 0]
        /\ doubtful = [k \in KeyIds |-> 0]
        /\ peak = [k \in KeyIds |-> IF k \in DOMAIN row.keys THEN row.keys[k].quota ELSE 0]
        /\ DOMAIN row.keys \subseteq issued
    BY <1>3 DEF SettingsInit
  <2>5. Histories(charged, doubtful, peak, issued)
    BY <2>3, <2>4 DEF Histories
  <2>6. ASSUME NEW k \in DOMAIN row.keys
        PROVE  KeyOK(k, row.keys[k], charged, doubtful, peak, issued)
    <3>1. charged[k] = row.keys[k].used /\ doubtful[k] = 0 /\ peak[k] = row.keys[k].quota
      BY <2>2, <2>4
    <3>2. row.keys[k].quota > 0 => row.keys[k].used < row.keys[k].quota + Margin
      BY <2>1, InitialAssumption DEF Margin
    <3> QED BY <2>3, <2>4, <3>1, <3>2 DEF KeyOK
  <2>7. DocOK(row, charged, doubtful, peak, issued)
    BY <2>1, <2>6 DEF DocOK
  <2> QED BY <1>1, <2>5, <2>7 DEF SettingsInv
<1> QED BY <1>2, <1>3
-----------------------------------------------------------------------------
(***************************************************************************)
(* Requests, the ring and the channel                                      *)
(***************************************************************************)

States == [pc : {"idle", "auth", "legacy", "serving", "charging"}, key : KeyIds \cup {None},
           start : 0..MaxTime, trace : 0..MaxTraces, tokens : 0..MaxTokens]

\* A request has its own trace id, which is published once, when it is done.
ReqInv ==
    /\ now \in 0..MaxTime /\ traces \in 0..MaxTraces
    /\ process \in {"down", "up", "stopping", "closing"}
    /\ (cur = None) <=> (process = "down")
    /\ req \in [Requests -> States]
    /\ published \in Seq(1..traces)
    /\ \A r \in Requests :
         /\ process = "down" => req[r].pc = "idle"
         /\ req[r].pc = "idle" => req[r] = Idle
         /\ req[r].pc \in {"auth", "legacy"} => req[r].key = None
         /\ req[r].pc = "charging" => req[r].key # None
         /\ req[r].start <= now
         /\ req[r].pc # "idle" => req[r].trace \in 1..traces
         /\ req[r].pc \notin {"idle", "charging"} =>
              \A i \in 1..Len(published) : published[i] # req[r].trace
    /\ \A r, q \in Requests :
         r # q /\ req[r].pc # "idle" /\ req[q].pc # "idle" => req[r].trace # req[q].trace
    /\ \A i, j \in 1..Len(published) : published[i] = published[j] => i = j

\* A record that was accepted is on its way until it is stored or has failed;
\* the writer ends only with the channel closed and empty.
UsageInv ==
    /\ writes \in Seq(Records) /\ Len(writes) <= BufferSize
    /\ writer \in {"waiting", "appending", "done"}
    /\ inHand \in Seq(Records) /\ Len(inHand) = IF writer = "appending" THEN 1 ELSE 0
    /\ stored \in Seq(Records)
    /\ accepted \subseteq ToSet(writes) \cup ToSet(inHand) \cup ToSet(stored) \cup failed
    /\ closed <=> process = "closing"
    /\ process = "down" => writes = <<>> /\ writer = "done" /\ published = <<>> /\ ring = EmptyRing
    /\ process # "down" /\ writer = "done" => closed /\ writes = <<>>
    /\ process # "down" /\ ~open => writer = "done"

Rings == {r \in [buf : Seq(Records), head : 0..RingSize - 1, full : BOOLEAN] :
            /\ Len(r.buf) <= RingSize
            /\ IF r.full THEN Len(r.buf) = RingSize ELSE r.head = 0}

\* The i-th newest record of the ring, i from 0.
Nth(r, i) == r.buf[NewestSlot(r, i)]

\* Where the ring and the table know of the same past.
Known == ToSet(stored) \cup ToSet(writes) \cup ToSet(inHand)

\* The ring has the newest records in order; a record that it has no longer, or
\* never had, is no younger than the ones it has, unless records were published
\* out of order.
RingInv ==
    /\ ring \in Rings
    /\ Len(ring.buf) = IF Len(published) < RingSize THEN Len(published) ELSE RingSize
    /\ \A i \in 0..Len(ring.buf) - 1 : Nth(ring, i).trace = published[Len(published) - i]
    /\ ~reordered => \A i, j \in 0..Len(ring.buf) - 1 :
                        i <= j => Nth(ring, j).ts <= Nth(ring, i).ts
    /\ \A x \in Known : x.ts <= now
    /\ ring.buf = <<>> => \A x \in Known, r \in Requests :
                            req[r].pc \in Serving => x.ts <= req[r].start
    /\ ~reordered => \A x \in Known :
                        \/ x \in ToSet(ring.buf)
                        \/ \A i \in 1..Len(ring.buf) : x.ts <= ring.buf[i].ts

AccountingInv == SettingsInv /\ ReqInv /\ UsageInv /\ RingInv /\ OvershootBounded

\* The remainder where the ring needs it.
LEMMA Modulo ==
  ASSUME NEW n \in Nat \ {0}, NEW x \in Nat
  PROVE  /\ x < n => x % n = x
         /\ n <= x /\ x < n + n => x % n = x - n
  OBVIOUS

\* The slots of a full ring, without the remainder.
LEMMA SlotCases ==
  ASSUME NEW r \in Rings, NEW i \in 0..Len(r.buf) - 1
  PROVE  /\ NewestSlot(r, i) = IF ~r.full THEN Len(r.buf) - i
                               ELSE IF i < r.head THEN r.head - i ELSE r.head - i + RingSize
         /\ NewestSlot(r, i) \in 1..Len(r.buf)
<1>1. /\ Len(r.buf) \in Nat /\ Len(r.buf) <= RingSize /\ r.head \in 0..RingSize - 1
      /\ IF r.full THEN Len(r.buf) = RingSize ELSE r.head = 0
      /\ RingSize \in Nat \ {0}
  BY UsageAssumption DEF Rings
<1>2. CASE ~r.full
  BY <1>1, <1>2 DEF NewestSlot
<1>3. CASE r.full
  <2> DEFINE x == r.head - 1 - i + RingSize
  <2>1. x \in Nat /\ x < RingSize + RingSize /\ (i < r.head <=> RingSize <= x)
    BY <1>1, <1>3
  <2>2. x % RingSize = IF i < r.head THEN x - RingSize ELSE x
    <3> HIDE DEF x
    <3>1. (x < RingSize => x % RingSize = x) /\ (RingSize <= x => x % RingSize = x - RingSize)
      BY <1>1, <2>1, Modulo
    <3>2. CASE i < r.head
      BY <2>1, <3>1, <3>2
    <3>3. CASE ~(i < r.head)
      <4>1. x < RingSize
        BY <1>1, <2>1, <3>3
      <4> QED BY <3>1, <3>3, <4>1
    <3> QED BY <3>2, <3>3
  <2>3. NewestSlot(r, i) = (x % RingSize) + 1
    BY <1>3 DEF NewestSlot
  <2> HIDE DEF x
  <2>4. NewestSlot(r, i) = IF i < r.head THEN x - RingSize + 1 ELSE x + 1
    BY <2>2, <2>3
  <2>5. NewestSlot(r, i) = IF i < r.head THEN r.head - i ELSE r.head - i + RingSize
    BY <1>1, <2>4 DEF x
  <2> QED BY <1>1, <1>3, <2>5
<1> QED BY <1>2, <1>3

\* Every slot that is in use is one of them.
LEMMA SlotsCovered ==
  ASSUME NEW r \in Rings, NEW k \in 1..Len(r.buf)
  PROVE  \E i \in 0..Len(r.buf) - 1 : NewestSlot(r, i) = k
<1>1. /\ Len(r.buf) \in Nat /\ Len(r.buf) <= RingSize /\ r.head \in 0..RingSize - 1
      /\ IF r.full THEN Len(r.buf) = RingSize ELSE r.head = 0
      /\ RingSize \in Nat \ {0}
  BY UsageAssumption DEF Rings
<1> DEFINE i == IF ~r.full THEN Len(r.buf) - k
                ELSE IF k <= r.head THEN r.head - k ELSE r.head - k + RingSize
<1>2. i \in 0..Len(r.buf) - 1
  BY <1>1
<1>3. NewestSlot(r, i) = k
  <2> HIDE DEF i
  <2>1. NewestSlot(r, i) = IF ~r.full THEN Len(r.buf) - i
                           ELSE IF i < r.head THEN r.head - i ELSE r.head - i + RingSize
    BY <1>2, SlotCases
  <2> QED BY <1>1, <2>1 DEF i
<1> QED BY <1>2, <1>3

\* MemoryStore.Append: the new record is the newest, and all others move one
\* place; of a full ring the oldest is overwritten.
LEMMA RingShift ==
  ASSUME NEW r \in Rings, NEW rec \in Records
  PROVE  LET s == AppendRing(r, rec)
         IN  /\ s \in Rings /\ s.buf # <<>>
             /\ Len(s.buf) = IF Len(r.buf) < RingSize THEN Len(r.buf) + 1 ELSE RingSize
             /\ Nth(s, 0) = rec
             /\ \A i \in 1..Len(s.buf) - 1 : Nth(s, i) = Nth(r, i - 1)
<1> DEFINE s == AppendRing(r, rec)
<1>1. /\ Len(r.buf) \in Nat /\ Len(r.buf) <= RingSize /\ r.head \in 0..RingSize - 1
      /\ IF r.full THEN Len(r.buf) = RingSize ELSE r.head = 0
      /\ RingSize \in Nat \ {0}
      /\ r \in [buf : Seq(Records), head : 0..RingSize - 1, full : BOOLEAN] /\ r.buf \in Seq(Records)
  BY UsageAssumption DEF Rings
<1>2. CASE Len(r.buf) < RingSize
  <2> DEFINE b == Append(r.buf, rec)
  <2>1. b \in Seq(Records) /\ Len(b) = Len(r.buf) + 1 /\ b[Len(b)] = rec
        /\ \A k \in 1..Len(r.buf) : b[k] = r.buf[k]
    BY <1>1, AppendProperties
  <2>2. s = [r EXCEPT !.buf = b]
    BY <1>2 DEF AppendRing
  <2> HIDE DEF b, s
  <2>3. s \in [buf : Seq(Records), head : 0..RingSize - 1, full : BOOLEAN]
        /\ s.buf = b /\ s.head = r.head /\ (s.full <=> r.full)
    BY <1>1, <2>1, <2>2
  <2>4. ~r.full /\ ~s.full /\ s.head = 0
    BY <1>1, <1>2, <2>3
  <2>5. s \in Rings
    BY <1>1, <1>2, <2>1, <2>3, <2>4 DEF Rings
  <2>6. Len(s.buf) = Len(r.buf) + 1 /\ s.buf # <<>>
    BY <1>1, <2>1, <2>3
  <2>7. 0 \in 0..Len(s.buf) - 1 /\ NewestSlot(s, 0) = Len(s.buf)
    BY <1>1, <2>4, <2>6 DEF NewestSlot
  <2>8. Nth(s, 0) = rec
    BY <2>1, <2>3, <2>7 DEF Nth
  <2>9. ASSUME NEW i \in 1..Len(s.buf) - 1 PROVE Nth(s, i) = Nth(r, i - 1)
    <3>1. NewestSlot(s, i) = NewestSlot(r, i - 1) /\ NewestSlot(s, i) \in 1..Len(r.buf)
      BY <1>1, <2>4, <2>6 DEF NewestSlot
    <3> QED BY <2>1, <2>3, <3>1 DEF Nth
  <2> QED BY <1>2, <2>5, <2>6, <2>8, <2>9 DEF s
<1>3. CASE Len(r.buf) = RingSize
  <2> DEFINE h == (r.head + 1) % RingSize
             b == [r.buf EXCEPT ![r.head + 1] = rec]
  <2>1. s = [buf |-> b, head |-> h, full |-> TRUE]
    BY <1>3 DEF AppendRing
  <2>2. r.head + 1 \in 1..Len(r.buf)
    BY <1>1, <1>3
  <2>3. b \in Seq(Records) /\ Len(b) = Len(r.buf) /\ b[r.head + 1] = rec
        /\ \A k \in 1..Len(r.buf) : k # r.head + 1 => b[k] = r.buf[k]
    BY <1>1, <2>2
  <2>4. r.head + 1 \in Nat /\ r.head + 1 < RingSize + RingSize
    BY <1>1
  <2>5. h = IF r.head + 1 = RingSize THEN 0 ELSE r.head + 1
    BY <1>1, <2>4, Modulo
  <2>6. h \in 0..RingSize - 1
    BY <1>1, <2>5
  <2> HIDE DEF b, h, s
  <2>7. s \in [buf : Seq(Records), head : 0..RingSize - 1, full : BOOLEAN]
        /\ s.buf = b /\ s.head = h /\ s.full
    BY <2>1, <2>3, <2>6
  <2>8. s \in Rings
    BY <1>1, <1>3, <2>3, <2>7 DEF Rings
  <2>9. Len(s.buf) = RingSize /\ s.buf # <<>>
    BY <1>1, <1>3, <2>3, <2>7
  <2>10. \A i \in 0..RingSize - 1 :
           NewestSlot(s, i) = IF i < h THEN h - i ELSE h - i + RingSize
    BY <2>7, <2>8, <2>9, SlotCases
  <2>11. \A i \in 0..RingSize - 1 :
           /\ NewestSlot(r, i) = IF ~r.full THEN RingSize - i
                                 ELSE IF i < r.head THEN r.head - i ELSE r.head - i + RingSize
           /\ NewestSlot(r, i) \in 1..RingSize
    BY <1>3, SlotCases
  <2>12. NewestSlot(s, 0) = r.head + 1
    BY <1>1, <2>5, <2>10
  <2>13. Nth(s, 0) = rec
    BY <2>3, <2>7, <2>12 DEF Nth
  <2>14. ASSUME NEW i \in 1..RingSize - 1 PROVE Nth(s, i) = Nth(r, i - 1)
    <3>1. i \in 0..RingSize - 1 /\ i - 1 \in 0..RingSize - 1
      BY <1>1
    <3>2. NewestSlot(s, i) = IF i < h THEN h - i ELSE h - i + RingSize
      BY <2>10, <3>1
    <3>3. /\ NewestSlot(r, i - 1) = IF ~r.full THEN RingSize - (i - 1)
                                    ELSE IF i - 1 < r.head THEN r.head - (i - 1)
                                    ELSE r.head - (i - 1) + RingSize
          /\ NewestSlot(r, i - 1) \in 1..RingSize
      BY <2>11, <3>1
    <3>4. NewestSlot(s, i) = NewestSlot(r, i - 1) /\ NewestSlot(r, i - 1) # r.head + 1
      BY <1>1, <2>5, <3>2, <3>3
    <3> QED BY <1>3, <2>3, <2>7, <3>3, <3>4 DEF Nth
  <2> QED BY <1>1, <1>3, <2>8, <2>9, <2>13, <2>14 DEF s
<1> QED BY <1>1, <1>2, <1>3

\* What happens to the records of the ring.
LEMMA RingContents ==
  ASSUME NEW r \in Rings, NEW rec \in Records
  PROVE  LET s == AppendRing(r, rec)
         IN  /\ rec \in ToSet(s.buf)
             /\ \A k \in 1..Len(s.buf) : s.buf[k] = rec \/ \E j \in 1..Len(r.buf) : s.buf[k] = r.buf[j]
             /\ \A k \in 1..Len(r.buf) :
                  \/ r.buf[k] \in ToSet(s.buf)
                  \/ Len(r.buf) = RingSize /\ r.buf[k] = Nth(r, RingSize - 1)
<1> DEFINE s == AppendRing(r, rec)
<1>1. /\ s \in Rings
      /\ Len(s.buf) = IF Len(r.buf) < RingSize THEN Len(r.buf) + 1 ELSE RingSize
      /\ Nth(s, 0) = rec
      /\ \A i \in 1..Len(s.buf) - 1 : Nth(s, i) = Nth(r, i - 1)
  BY RingShift
<1>2. Len(r.buf) \in Nat /\ Len(r.buf) <= RingSize /\ RingSize \in Nat \ {0}
      /\ r.buf \in Seq(Records)
  BY UsageAssumption DEF Rings
<1> HIDE DEF s
<1>3. Len(s.buf) \in Nat /\ s.buf \in Seq(Records) /\ DOMAIN s.buf = 1..Len(s.buf)
  BY <1>1 DEF Rings
<1>4. \A i \in 0..Len(s.buf) - 1 : Nth(s, i) \in ToSet(s.buf)
  BY <1>1, <1>3, SlotCases DEF Nth, ToSet
<1>5. rec \in ToSet(s.buf)
  <2>1. 0 \in 0..Len(s.buf) - 1
    BY <1>1, <1>2
  <2> QED BY <1>1, <1>4, <2>1
<1>6. ASSUME NEW k \in 1..Len(s.buf)
      PROVE  s.buf[k] = rec \/ \E j \in 1..Len(r.buf) : s.buf[k] = r.buf[j]
  <2>1. PICK i \in 0..Len(s.buf) - 1 : NewestSlot(s, i) = k
    BY <1>1, SlotsCovered
  <2>2. s.buf[k] = Nth(s, i)
    BY <2>1 DEF Nth
  <2>3. CASE i = 0
    BY <1>1, <2>2, <2>3
  <2>4. CASE i # 0
    <3>1. i \in 1..Len(s.buf) - 1 /\ i - 1 \in 0..Len(r.buf) - 1
      BY <1>1, <1>2, <2>4
    <3>2. s.buf[k] = Nth(r, i - 1)
      BY <1>1, <2>2, <3>1
    <3>3. NewestSlot(r, i - 1) \in 1..Len(r.buf)
      BY <3>1, SlotCases
    <3> QED BY <3>2, <3>3 DEF Nth
  <2> QED BY <2>3, <2>4
<1>7. ASSUME NEW k \in 1..Len(r.buf)
      PROVE  \/ r.buf[k] \in ToSet(s.buf)
             \/ Len(r.buf) = RingSize /\ r.buf[k] = Nth(r, RingSize - 1)
  <2>1. PICK i \in 0..Len(r.buf) - 1 : NewestSlot(r, i) = k
    BY SlotsCovered
  <2>2. r.buf[k] = Nth(r, i)
    BY <2>1 DEF Nth
  <2>3. CASE i + 1 \in 1..Len(s.buf) - 1
    <3>1. Nth(s, i + 1) = Nth(r, (i + 1) - 1) /\ i + 1 \in 0..Len(s.buf) - 1
      BY <1>1, <1>3, <2>3
    <3>2. (i + 1) - 1 = i
      OBVIOUS
    <3> QED BY <1>4, <2>2, <3>1, <3>2
  <2>4. CASE i + 1 \notin 1..Len(s.buf) - 1
    <3>1. Len(r.buf) = RingSize /\ i = RingSize - 1
      BY <1>1, <1>2, <2>4
    <3> QED BY <2>2, <3>1
  <2> QED BY <2>3, <2>4
<1> QED BY <1>5, <1>6, <1>7 DEF s

\* The records of a sequence.
LEMMA ToSetFacts ==
  /\ ToSet(<<>>) = {}
  /\ \A x : ToSet(<<x>>) = {x}
  /\ \A s \in Seq(Records), x \in Records : ToSet(Append(s, x)) = ToSet(s) \cup {x}
  /\ \A s \in Seq(Records), t \in Seq(Records) : ToSet(s \o t) = ToSet(s) \cup ToSet(t)
  /\ \A s \in Seq(Records) : s # <<>> => ToSet(s) = {Head(s)} \cup ToSet(Tail(s))
  /\ \A s \in Seq(Records) : ToSet(s) \subseteq Records /\ ToSet(s) = {s[i] : i \in 1..Len(s)}
<1>1. ToSet(<<>>) = {} /\ \A x : ToSet(<<x>>) = {x}
  BY DEF ToSet
<1>2. \A s \in Seq(Records) : ToSet(s) \subseteq Records /\ ToSet(s) = {s[i] : i \in 1..Len(s)}
  BY DEF ToSet
<1>3. ASSUME NEW s \in Seq(Records), NEW x \in Records
      PROVE  ToSet(Append(s, x)) = ToSet(s) \cup {x}
  <2> DEFINE t == Append(s, x)
  <2>1. Len(s) \in Nat /\ t \in Seq(Records) /\ Len(t) = Len(s) + 1 /\ t[Len(s) + 1] = x
        /\ \A k \in 1..Len(s) : t[k] = s[k]
    BY AppendProperties
  <2> HIDE DEF t
  <2>2. ToSet(t) = {t[i] : i \in 1..Len(t)} /\ ToSet(s) = {s[i] : i \in 1..Len(s)}
    BY <1>2, <2>1
  <2>3. \A i \in 1..Len(t) : i = Len(s) + 1 \/ i \in 1..Len(s)
    BY <2>1
  <2>4. \A i \in 1..Len(s) : i \in 1..Len(t)
    BY <2>1
  <2>5. Len(s) + 1 \in 1..Len(t)
    BY <2>1
  <2> QED BY <2>1, <2>2, <2>3, <2>4, <2>5 DEF t
<1>4. ASSUME NEW s \in Seq(Records), NEW t \in Seq(Records)
      PROVE  ToSet(s \o t) = ToSet(s) \cup ToSet(t)
  <2> DEFINE u == s \o t
  <2>1. Len(s) \in Nat /\ Len(t) \in Nat /\ u \in Seq(Records) /\ Len(u) = Len(s) + Len(t)
        /\ \A k \in 1..Len(u) : u[k] = IF k <= Len(s) THEN s[k] ELSE t[k - Len(s)]
    BY ConcatProperties
  <2> HIDE DEF u
  <2>2. /\ ToSet(u) = {u[i] : i \in 1..Len(u)}
        /\ ToSet(s) = {s[i] : i \in 1..Len(s)} /\ ToSet(t) = {t[i] : i \in 1..Len(t)}
    BY <1>2, <2>1
  <2>3. \A i \in 1..Len(u) : u[i] \in ToSet(s) \cup ToSet(t)
    <3> TAKE i \in 1..Len(u)
    <3>1. CASE i <= Len(s)
      <4>1. i \in 1..Len(s) /\ u[i] = s[i]
        BY <2>1, <3>1
      <4> QED BY <2>2, <4>1
    <3>2. CASE ~(i <= Len(s))
      <4>1. i - Len(s) \in 1..Len(t) /\ u[i] = t[i - Len(s)]
        BY <2>1, <3>2
      <4> QED BY <2>2, <4>1
    <3> QED BY <3>1, <3>2
  <2>4. \A i \in 1..Len(s) : i \in 1..Len(u) /\ u[i] = s[i]
    BY <2>1
  <2>5. \A i \in 1..Len(t) : Len(s) + i \in 1..Len(u) /\ u[Len(s) + i] = t[i]
    <3> TAKE i \in 1..Len(t)
    <3>1. Len(s) + i \in 1..Len(u) /\ ~(Len(s) + i <= Len(s)) /\ (Len(s) + i) - Len(s) = i
      BY <2>1
    <3> QED BY <2>1, <3>1
  <2>6. ToSet(s) \subseteq ToSet(u) /\ ToSet(t) \subseteq ToSet(u)
    BY <2>2, <2>4, <2>5
  <2> QED BY <2>2, <2>3, <2>6 DEF u
<1>5. ASSUME NEW s \in Seq(Records), s # <<>>
      PROVE  ToSet(s) = {Head(s)} \cup ToSet(Tail(s))
  <2> DEFINE t == Tail(s)
  <2>1. Len(s) \in Nat /\ Len(s) > 0 /\ t \in Seq(Records) /\ Len(t) = Len(s) - 1
        /\ Head(s) = s[1] /\ \A k \in 1..Len(t) : t[k] = s[k + 1]
    BY <1>5, HeadTailProperties
  <2> HIDE DEF t
  <2>2. ToSet(t) = {t[i] : i \in 1..Len(t)} /\ ToSet(s) = {s[i] : i \in 1..Len(s)}
    BY <1>2, <2>1
  <2>3. \A i \in 1..Len(s) : s[i] \in {s[1]} \cup ToSet(t)
    <3> TAKE i \in 1..Len(s)
    <3>1. CASE i # 1
      <4>1. i - 1 \in 1..Len(t) /\ (i - 1) + 1 = i
        BY <2>1, <3>1
      <4>2. t[i - 1] = s[i]
        BY <2>1, <4>1
      <4> QED BY <2>2, <4>1, <4>2
    <3> QED BY <3>1
  <2>4. \A i \in 1..Len(t) : i + 1 \in 1..Len(s)
    BY <2>1
  <2>5. 1 \in 1..Len(s)
    BY <2>1
  <2> QED BY <2>1, <2>2, <2>3, <2>4, <2>5 DEF t
<1> QED BY <1>1, <1>2, <1>3, <1>4, <1>5

\* The timestamp of a record is a number.
LEMMA RecordTypes ==
  ASSUME NEW x \in Records
  PROVE  x.ts \in Nat
BY AccountingAssumption DEF Records

\* Publish and the ring.
LEMMA PublishRing ==
  ASSUME RingInv, NEW rec \in Records, Publish(rec), published \in Seq(1..traces),
         published' = Append(published, rec.trace), rec.trace \in 1..traces,
         rec.ts <= now, UNCHANGED now, Known' \subseteq Known \cup {rec}, Known \subseteq Records,
         ring.buf = <<>> => \A x \in Known : x.ts <= rec.ts
  PROVE  RingInv'
<1> DEFINE s == AppendRing(ring, rec)
           N == Len(published)
<1>1. ring' = s /\ (reordered' <=> reordered \/ \E i \in 1..Len(ring.buf) : ring.buf[i].ts > rec.ts)
  BY DEF Publish
<1>2. /\ ring \in Rings /\ ring.buf \in Seq(Records) /\ Len(ring.buf) \in Nat
      /\ Len(ring.buf) <= RingSize /\ RingSize \in Nat \ {0}
  BY UsageAssumption DEF RingInv, Rings
<1>3. /\ s \in Rings /\ s.buf # <<>>
      /\ Len(s.buf) = IF Len(ring.buf) < RingSize THEN Len(ring.buf) + 1 ELSE RingSize
      /\ Nth(s, 0) = rec
      /\ \A i \in 1..Len(s.buf) - 1 : Nth(s, i) = Nth(ring, i - 1)
  BY <1>2, RingShift
<1>4. /\ rec \in ToSet(s.buf)
      /\ \A k \in 1..Len(s.buf) : s.buf[k] = rec \/ \E j \in 1..Len(ring.buf) : s.buf[k] = ring.buf[j]
      /\ \A k \in 1..Len(ring.buf) :
           \/ ring.buf[k] \in ToSet(s.buf)
           \/ Len(ring.buf) = RingSize /\ ring.buf[k] = Nth(ring, RingSize - 1)
  BY <1>2, RingContents
<1> HIDE DEF s
<1>5. /\ N \in Nat /\ Len(published') = N + 1 /\ published'[N + 1] = rec.trace
      /\ \A i \in 1..N : published'[i] = published[i]
  BY AppendProperties
<1>6. Len(ring.buf) = IF N < RingSize THEN N ELSE RingSize
  BY DEF RingInv
<1> HIDE DEF N
<1>7. Len(s.buf) = IF N + 1 < RingSize THEN N + 1 ELSE RingSize
  BY <1>2, <1>3, <1>5, <1>6
<1>8. \A i \in 1..Len(s.buf) - 1 : i - 1 \in 0..Len(ring.buf) - 1 /\ (N + 1) - i \in 1..N
                                   /\ N - (i - 1) = (N + 1) - i
  BY <1>2, <1>3, <1>5, <1>6, <1>7
<1>9. \A i \in 0..Len(s.buf) - 1 : Nth(s, i).trace = published'[(N + 1) - i]
  <2> TAKE i \in 0..Len(s.buf) - 1
  <2>1. CASE i = 0
    BY <1>3, <1>5, <2>1
  <2>2. CASE i # 0
    <3>1. i \in 1..Len(s.buf) - 1
      BY <2>2
    <3>2. Nth(s, i) = Nth(ring, i - 1)
      BY <1>3, <3>1
    <3>3. Nth(ring, i - 1).trace = published[N - (i - 1)]
      BY <1>8, <3>1 DEF RingInv, N
    <3> QED BY <1>5, <1>8, <3>1, <3>2, <3>3
  <2> QED BY <2>1, <2>2
<1>10. \A i \in 0..Len(ring.buf) - 1 : /\ NewestSlot(ring, i) \in 1..Len(ring.buf)
                                      /\ Nth(ring, i) \in Records
  BY <1>2, SlotCases, ElementOfSeq DEF Nth
<1>11. ~reordered' => ~reordered /\ \A i \in 0..Len(ring.buf) - 1 : Nth(ring, i).ts <= rec.ts
  BY <1>1, <1>10, RecordTypes DEF Nth
<1>12. ASSUME ~reordered', NEW i \in 0..Len(s.buf) - 1, NEW j \in 0..Len(s.buf) - 1, i <= j
       PROVE  Nth(s, j).ts <= Nth(s, i).ts
  <2>1. CASE j = 0
    <3>1. i = 0 /\ rec.ts <= rec.ts
      BY <1>12, <2>1, RecordTypes
    <3> QED BY <1>3, <2>1, <3>1
  <2>2. CASE j # 0
    <3>1. j \in 1..Len(s.buf) - 1 /\ Nth(s, j) = Nth(ring, j - 1) /\ j - 1 \in 0..Len(ring.buf) - 1
      <4>1. j \in 1..Len(s.buf) - 1
        BY <2>2
      <4> QED BY <1>3, <1>8, <4>1
    <3>2. CASE i = 0
      BY <1>3, <1>11, <1>12, <3>1, <3>2
    <3>3. CASE i # 0
      <4>1. i \in 1..Len(s.buf) - 1 /\ Nth(s, i) = Nth(ring, i - 1) /\ i - 1 \in 0..Len(ring.buf) - 1
        <5>1. i \in 1..Len(s.buf) - 1
          BY <3>3
        <5> QED BY <1>3, <1>8, <5>1
      <4>2. i - 1 <= j - 1
        BY <1>12
      <4> QED BY <1>11, <1>12, <3>1, <4>1, <4>2 DEF RingInv
    <3> QED BY <3>2, <3>3
  <2> QED BY <2>1, <2>2
<1>13. \A x \in Known' : x.ts <= now
  BY DEF RingInv
<1>14. ASSUME ~reordered', NEW x \in Known'
       PROVE  x \in ToSet(s.buf) \/ \A i \in 1..Len(s.buf) : x.ts <= s.buf[i].ts
  <2>1. CASE x = rec
    BY <1>4, <2>1
  <2>2. CASE x # rec
    <3>1. x \in Known /\ x \in Records /\ x.ts \in Nat /\ rec.ts \in Nat
      BY <2>2, RecordTypes
    <3>2. \A k \in 1..Len(ring.buf) : ring.buf[k] \in Records /\ ring.buf[k].ts \in Nat
                                     /\ ring.buf[k].ts <= rec.ts
      BY <1>1, <1>2, <1>14, ElementOfSeq, RecordTypes
    <3>3. x \in ToSet(ring.buf) \/ \A i \in 1..Len(ring.buf) : x.ts <= ring.buf[i].ts
      BY <1>11, <1>14, <3>1 DEF RingInv
    <3>4. CASE \A i \in 1..Len(ring.buf) : x.ts <= ring.buf[i].ts
      <4>1. x.ts <= rec.ts
        <5>1. CASE ring.buf = <<>>
          BY <3>1, <5>1
        <5>2. CASE ring.buf # <<>>
          <6>1. 1 \in 1..Len(ring.buf)
            BY <1>2, <5>2, EmptySeq
          <6>2. x.ts <= ring.buf[1].ts /\ ring.buf[1].ts <= rec.ts /\ ring.buf[1].ts \in Nat
            BY <3>2, <3>4, <6>1
          <6> QED BY <3>1, <6>2
        <5> QED BY <5>1, <5>2
      <4> QED BY <1>4, <3>4, <4>1
    <3>5. CASE x \in ToSet(ring.buf) /\ x \notin ToSet(s.buf)
      <4>1. PICK k \in 1..Len(ring.buf) : x = ring.buf[k]
        BY <1>2, <3>5, ToSetFacts
      <4>2. Len(ring.buf) = RingSize /\ x = Nth(ring, RingSize - 1)
        BY <1>4, <3>5, <4>1
      <4>3. ASSUME NEW j \in 1..Len(ring.buf) PROVE x.ts <= ring.buf[j].ts
        <5>1. PICK i \in 0..Len(ring.buf) - 1 : NewestSlot(ring, i) = j
          BY <1>2, SlotsCovered
        <5>2. RingSize - 1 \in 0..Len(ring.buf) - 1 /\ i <= RingSize - 1
          BY <1>2, <4>2
        <5>3. Nth(ring, RingSize - 1).ts <= Nth(ring, i).ts
          BY <1>11, <1>14, <5>2 DEF RingInv
        <5> QED BY <4>2, <5>1, <5>3 DEF Nth
      <4>4. x.ts <= rec.ts
        BY <3>2, <4>1
      <4> QED BY <1>4, <4>3, <4>4
    <3> QED BY <3>3, <3>4, <3>5
  <2> QED BY <2>1, <2>2
<1> QED BY <1>1, <1>3, <1>5, <1>7, <1>9, <1>12, <1>13, <1>14 DEF RingInv

\* Publish and the channel.
LEMMA PublishUsage ==
  ASSUME UsageInv, NEW rec \in Records, Publish(rec), process # "down", UNCHANGED process
  PROVE  UsageInv' /\ Known' \subseteq Known \cup {rec} /\ Known \subseteq Records
<1>1. /\ writes \in Seq(Records) /\ inHand \in Seq(Records) /\ stored \in Seq(Records)
      /\ Len(writes) \in Nat /\ Len(writes) <= BufferSize /\ BufferSize \in Nat
  BY UsageAssumption DEF UsageInv
<1>2. Known \subseteq Records
  BY <1>1, ToSetFacts DEF Known
<1>3. UNCHANGED <<closed, writer, inHand, open, stored, failed>>
  BY DEF Publish
<1>4. CASE HasRoom
  <2>1. writes' = Append(writes, rec) /\ accepted' = accepted \cup {rec}
    BY <1>4 DEF Publish
  <2>2. ToSet(writes') = ToSet(writes) \cup {rec}
    BY <1>1, <2>1, ToSetFacts
  <2>3. writes' \in Seq(Records) /\ Len(writes') = Len(writes) + 1
    BY <1>1, <2>1, AppendProperties
  <2>4. Len(writes') <= BufferSize /\ ~closed
    BY <1>1, <1>4, <2>3 DEF HasRoom
  <2>5. writer # "done"
    BY <2>4 DEF UsageInv
  <2>6. accepted' \subseteq ToSet(writes') \cup ToSet(inHand') \cup ToSet(stored') \cup failed'
    BY <1>3, <2>1, <2>2 DEF UsageInv
  <2>7. UsageInv'
    BY <1>1, <1>3, <2>3, <2>4, <2>5, <2>6 DEF UsageInv
  <2>8. Known' = Known \cup {rec}
    BY <1>3, <2>2 DEF Known
  <2> QED BY <1>2, <2>7, <2>8
<1>5. CASE ~HasRoom
  <2>1. UNCHANGED <<writes, accepted>>
    BY <1>5 DEF Publish
  <2>2. UsageInv'
    BY <1>3, <2>1 DEF UsageInv
  <2>3. Known' = Known
    BY <1>3, <2>1 DEF Known
  <2> QED BY <1>2, <2>2, <2>3
<1> QED BY <1>4, <1>5
-----------------------------------------------------------------------------
(***************************************************************************)
(* Steps of a request                                                      *)
(***************************************************************************)

\* A request that is not there.
LEMMA IdleOK == Idle \in States /\ Idle.pc = "idle" /\ Idle.key = None /\ Idle.start = 0
BY AccountingAssumption DEF Idle, States

\* One request moves on, keeping its trace id or taking a new one.
LEMMA ReqChange ==
  ASSUME ReqInv, process # "down", NEW r \in Requests, NEW q \in States,
         req' = [req EXCEPT ![r] = q], UNCHANGED <<now, process>>, cur' # None,
         traces' \in 0..MaxTraces, traces <= traces', published' \in Seq(1..traces'),
         q.pc = "idle" => q = Idle,
         q.pc \in {"auth", "legacy"} => q.key = None,
         q.pc = "charging" => q.key # None,
         q.start <= now,
         q.pc # "idle" => \/ q.trace = req[r].trace /\ req[r].pc # "idle"
                          \/ q.trace = traces + 1 /\ traces + 1 <= traces',
         \A p \in Requests \ {r} : req[p].pc \notin {"idle", "charging"} =>
            \A i \in 1..Len(published') : published'[i] # req[p].trace,
         q.pc \notin {"idle", "charging"} => \A i \in 1..Len(published') : published'[i] # q.trace,
         \A i, j \in 1..Len(published') : published'[i] = published'[j] => i = j
  PROVE  ReqInv'
<1>1. /\ req \in [Requests -> States] /\ traces \in Nat /\ traces' \in Nat
      /\ \A p \in Requests : req[p].pc # "idle" => req[p].trace \in 1..traces
  BY AccountingAssumption DEF ReqInv
<1>2. /\ req' \in [Requests -> States] /\ req'[r] = q
      /\ \A p \in Requests \ {r} : req'[p] = req[p]
  BY <1>1
<1>3. q.pc # "idle" => q.trace \in 1..traces'
  BY <1>1
<1>4. \A p \in Requests \ {r} : req[p].pc # "idle" => req[p].trace \in 1..traces'
  BY <1>1
<1>5. \A p \in Requests \ {r} : req[p].pc # "idle" /\ q.pc # "idle" => req[p].trace # q.trace
  <2> TAKE p \in Requests \ {r}
  <2> SUFFICES ASSUME req[p].pc # "idle", q.pc # "idle" PROVE req[p].trace # q.trace
    OBVIOUS
  <2>1. CASE q.trace = req[r].trace /\ req[r].pc # "idle"
    BY <2>1 DEF ReqInv
  <2>2. CASE q.trace = traces + 1
    BY <1>1, <2>2
  <2> QED BY <2>1, <2>2
<1>6. (cur' = None) <=> (process' = "down")
  OBVIOUS
<1>7. now' \in 0..MaxTime /\ process' \in {"down", "up", "stopping", "closing"}
  BY DEF ReqInv
<1>8. \A p \in Requests \ {r} :
         /\ req[p].pc = "idle" => req[p] = Idle
         /\ req[p].pc \in {"auth", "legacy"} => req[p].key = None
         /\ req[p].pc = "charging" => req[p].key # None
         /\ req[p].start <= now
  BY DEF ReqInv
<1>9. ASSUME NEW p \in Requests
      PROVE  /\ process' = "down" => req'[p].pc = "idle"
             /\ req'[p].pc = "idle" => req'[p] = Idle
             /\ req'[p].pc \in {"auth", "legacy"} => req'[p].key = None
             /\ req'[p].pc = "charging" => req'[p].key # None
             /\ req'[p].start <= now'
             /\ req'[p].pc # "idle" => req'[p].trace \in 1..traces'
             /\ req'[p].pc \notin {"idle", "charging"} =>
                  \A i \in 1..Len(published') : published'[i] # req'[p].trace
  <2>1. CASE p = r
    BY <1>2, <1>3, <2>1
  <2>2. CASE p # r
    <3>1. req'[p] = req[p]
      BY <1>2, <2>2
    <3> QED BY <1>4, <1>8, <2>2, <3>1
  <2> QED BY <2>1, <2>2
<1>10. \A p, t \in Requests :
         p # t /\ req'[p].pc # "idle" /\ req'[t].pc # "idle" => req'[p].trace # req'[t].trace
  <2>1. \A p, t \in Requests \ {r} :
          p # t /\ req[p].pc # "idle" /\ req[t].pc # "idle" => req[p].trace # req[t].trace
    BY DEF ReqInv
  <2> QED BY <1>2, <1>5, <2>1
<1> QED BY <1>2, <1>6, <1>7, <1>9, <1>10 DEF ReqInv

\* The same when nothing is published.
LEMMA QuietChange ==
  ASSUME ReqInv, process # "down", NEW r \in Requests, NEW q \in States,
         req' = [req EXCEPT ![r] = q], UNCHANGED <<now, process, published>>, cur' # None,
         \/ UNCHANGED traces
         \/ traces < MaxTraces /\ traces' = traces + 1,
         q.pc = "idle" => q = Idle,
         q.pc \in {"auth", "legacy"} => q.key = None,
         q.pc = "charging" => q.key # None,
         q.start <= now,
         q.pc # "idle" => \/ q.trace = req[r].trace /\ req[r].pc \notin {"idle", "charging"}
                          \/ q.trace = traces + 1 /\ traces' = traces + 1
  PROVE  ReqInv'
<1>1. traces \in 0..MaxTraces /\ MaxTraces \in Nat
  BY AccountingAssumption DEF ReqInv
<1>2. traces' \in 0..MaxTraces /\ traces \in Nat /\ traces <= traces'
  BY <1>1
<1>3. published \in Seq(1..traces) /\ published' = published
      /\ \A i \in 1..Len(published) : published[i] \in 1..traces
  BY ElementOfSeq DEF ReqInv
<1>4. published' \in Seq(1..traces')
  <2>1. \A n \in 1..traces : n \in 1..traces'
    BY <1>1, <1>2
  <2>2. published \in Seq(1..traces')
    BY <1>3, <2>1, SeqMonotonic
  <2> QED BY <1>3, <2>2
<1>5. q.pc \notin {"idle", "charging"} => \A i \in 1..Len(published') : published'[i] # q.trace
  <2>1. CASE q.trace = req[r].trace /\ req[r].pc \notin {"idle", "charging"}
    BY <1>3, <2>1 DEF ReqInv
  <2>2. CASE q.trace = traces + 1
    BY <1>2, <1>3, <2>2
  <2> QED BY <2>1, <2>2
<1>6. \A p \in Requests \ {r} : req[p].pc \notin {"idle", "charging"} =>
        \A i \in 1..Len(published') : published'[i] # req[p].trace
  BY <1>3 DEF ReqInv
<1>7. \A i, j \in 1..Len(published') : published'[i] = published'[j] => i = j
  BY <1>3 DEF ReqInv
<1>8. q.pc # "idle" => \/ q.trace = req[r].trace /\ req[r].pc # "idle"
                       \/ q.trace = traces + 1 /\ traces + 1 <= traces'
  BY <1>1, <1>2
<1> QED BY <1>2, <1>4, <1>5, <1>6, <1>7, <1>8, ReqChange

\* The same when the request's record is published.
LEMMA PublishedChange ==
  ASSUME ReqInv, process # "down", NEW r \in Requests, NEW q \in States,
         req' = [req EXCEPT ![r] = q], UNCHANGED <<now, process, traces, cur>>,
         published' = Append(published, req[r].trace),
         req[r].pc \in {"auth", "legacy", "serving"},
         q = Idle \/ (q.pc = "charging" /\ q.key # None /\ q.start <= now /\ q.trace = req[r].trace)
  PROVE  ReqInv'
<1>1. traces \in 0..MaxTraces /\ traces \in Nat /\ now \in Nat
  BY AccountingAssumption DEF ReqInv
<1>2. /\ published \in Seq(1..traces) /\ req[r].trace \in 1..traces
      /\ \A i \in 1..Len(published) : published[i] # req[r].trace
      /\ \A i, j \in 1..Len(published) : published[i] = published[j] => i = j
  BY DEF ReqInv
<1>3. /\ published' \in Seq(1..traces') /\ Len(published) \in Nat
      /\ Len(published') = Len(published) + 1
      /\ published'[Len(published) + 1] = req[r].trace
      /\ \A i \in 1..Len(published) : published'[i] = published[i]
  BY <1>2, AppendProperties
<1>4. \A i \in 1..Len(published') : i = Len(published) + 1 \/ i \in 1..Len(published)
  BY <1>3
<1>5. \A i, j \in 1..Len(published') : published'[i] = published'[j] => i = j
  BY <1>2, <1>3, <1>4
<1>6. \A p \in Requests \ {r} : req[p].pc \notin {"idle", "charging"} =>
        \A i \in 1..Len(published') : published'[i] # req[p].trace
  <2>1. \A p \in Requests \ {r} : req[p].pc \notin {"idle", "charging"} =>
          /\ req[p].trace # req[r].trace
          /\ \A i \in 1..Len(published) : published[i] # req[p].trace
    BY DEF ReqInv
  <2> QED BY <1>3, <1>4, <2>1
<1>7. cur' # None
  BY DEF ReqInv
<1>8. traces <= traces' /\ traces' \in 0..MaxTraces
  BY <1>1
<1>9. q.pc \notin {"idle", "charging"} => FALSE
  BY IdleOK
<1>10. q.start <= now
  BY <1>1, IdleOK
<1>11. /\ q.pc = "idle" => q = Idle
       /\ q.pc \in {"auth", "legacy"} => q.key = None
       /\ q.pc = "charging" => q.key # None
       /\ q.pc # "idle" => q.trace = req[r].trace /\ req[r].pc # "idle"
  BY IdleOK
<1> QED BY <1>3, <1>5, <1>6, <1>7, <1>8, <1>9, <1>10, <1>11, ReqChange

\* The ring when a request moves on without publishing.
LEMMA RingQuiet ==
  ASSUME RingInv, ReqInv, NEW r \in Requests, NEW q \in States,
         req' = [req EXCEPT ![r] = q],
         UNCHANGED <<now, ring, published, reordered, stored, writes, inHand>>,
         q.pc \in Serving => q.start = now \/ (q.start = req[r].start /\ req[r].pc \in Serving)
  PROVE  RingInv'
<1>1. Known' = Known
  BY DEF Known
<1>2. req'[r] = q /\ \A p \in Requests \ {r} : req'[p] = req[p]
  BY DEF ReqInv
<1>3. ring.buf = <<>> => \A x \in Known, p \in Requests :
                            req'[p].pc \in Serving => x.ts <= req'[p].start
  BY <1>2 DEF RingInv
<1> QED BY <1>1, <1>3 DEF RingInv

\* Why a quota is not passed by more than the margin: a key is below its quota
\* when a request is admitted, and a charge ends its request.
LEMMA OvershootStep ==
  ASSUME OvershootBounded, SettingsInv, SettingsInv', cur # None, cur' # None,
         \A k \in DOMAIN cur'.keys : peak'[k] > 0 =>
            \/ cur'.keys[k].used < peak'[k]
            \/ /\ k \in DOMAIN cur.keys /\ cur'.keys[k].used = cur.keys[k].used
               /\ peak[k] > 0 /\ peak[k] <= peak'[k]
               /\ InFlight(k)' \subseteq InFlight(k)
            \/ /\ k \in DOMAIN cur.keys /\ cur'.keys[k].used <= cur.keys[k].used + MaxTokens
               /\ peak'[k] = peak[k]
               /\ \E r \in InFlight(k) : InFlight(k)' = InFlight(k) \ {r}
  PROVE  OvershootBounded'
<1> SUFFICES ASSUME NEW k \in DOMAIN cur'.keys, peak'[k] > 0
             PROVE  cur'.keys[k].used + MaxTokens * Cardinality(InFlight(k)')
                      < peak'[k] + MaxTokens * Cardinality(Requests)
  BY DEF OvershootBounded
<1> DEFINE F == InFlight(k)
           G == InFlight(k)'
           u == cur'.keys[k].used
<1>1. IsFiniteSet(Requests) /\ MaxTokens \in Nat /\ Cardinality(Requests) \in Nat
  BY Constants
<1>2. F \in SUBSET Requests /\ G \in SUBSET Requests
  BY DEF InFlight
<1>3. /\ IsFiniteSet(F) /\ IsFiniteSet(G)
      /\ Cardinality(F) \in Nat /\ Cardinality(G) \in Nat
      /\ Cardinality(G) <= Cardinality(Requests)
  BY <1>1, <1>2, FS_Subset, FS_CardinalityType
<1>4. k \in KeyIds /\ u \in Nat /\ peak'[k] \in Nat
  <2>1. DocOK(cur', charged', doubtful', peak', issued') /\ peak' \in [KeyIds -> Nat]
    BY DEF SettingsInv, Histories
  <2> QED BY <2>1, Documents DEF DocOK, APIKeys
<1>5. k \in DOMAIN cur.keys => cur.keys[k].used \in Nat /\ peak[k] \in Nat
  <2>1. DocOK(cur, charged, doubtful, peak, issued) /\ peak \in [KeyIds -> Nat]
    BY DEF SettingsInv, Histories
  <2> QED BY <1>4, <2>1, Documents DEF DocOK, APIKeys
<1>6. k \in DOMAIN cur.keys /\ peak[k] > 0 =>
        cur.keys[k].used + MaxTokens * Cardinality(F) < peak[k] + MaxTokens * Cardinality(Requests)
  BY DEF OvershootBounded
<1> HIDE DEF F, G, u
<1>7. \A m, n \in Nat : m <= n => MaxTokens * m <= MaxTokens * n
  BY <1>1
<1>8. \A n \in Nat : MaxTokens * n \in Nat
  BY <1>1
<1>9. CASE u < peak'[k]
  <2>1. MaxTokens * Cardinality(G) <= MaxTokens * Cardinality(Requests)
    BY <1>1, <1>3, <1>7
  <2>2. MaxTokens * Cardinality(G) \in Nat /\ MaxTokens * Cardinality(Requests) \in Nat
    BY <1>1, <1>3, <1>8
  <2> QED BY <1>4, <1>9, <2>1, <2>2 DEF u, G
<1>10. CASE /\ k \in DOMAIN cur.keys /\ u = cur.keys[k].used
            /\ peak[k] > 0 /\ peak[k] <= peak'[k] /\ G \subseteq F
  <2>1. Cardinality(G) <= Cardinality(F)
    BY <1>3, <1>10, FS_Subset
  <2>2. MaxTokens * Cardinality(G) <= MaxTokens * Cardinality(F)
    BY <1>3, <1>7, <2>1
  <2>3. /\ MaxTokens * Cardinality(G) \in Nat /\ MaxTokens * Cardinality(F) \in Nat
        /\ MaxTokens * Cardinality(Requests) \in Nat
    BY <1>1, <1>3, <1>8
  <2> QED BY <1>4, <1>5, <1>6, <1>10, <2>2, <2>3 DEF u, G
<1>11. CASE /\ k \in DOMAIN cur.keys /\ u <= cur.keys[k].used + MaxTokens
            /\ peak'[k] = peak[k] /\ \E r \in F : G = F \ {r}
  <2>1. Cardinality(F) = Cardinality(G) + 1
    <3>1. PICK r \in F : G = F \ {r}
      BY <1>11
    <3>2. Cardinality(G) = Cardinality(F) - 1
      BY <1>3, <3>1, FS_RemoveElement
    <3> QED BY <1>3, <3>2
  <2>2. \A n \in Nat : MaxTokens * (n + 1) = MaxTokens * n + MaxTokens
    BY <1>1
  <2>3. MaxTokens * Cardinality(F) = MaxTokens * Cardinality(G) + MaxTokens
    BY <1>3, <2>1, <2>2
  <2>4. MaxTokens * Cardinality(G) \in Nat /\ MaxTokens * Cardinality(Requests) \in Nat
    BY <1>1, <1>3, <1>8
  <2> QED BY <1>1, <1>4, <1>5, <1>6, <1>11, <2>3, <2>4 DEF u, G
<1> QED BY <1>9, <1>10, <1>11 DEF u, F, G

\* The settings when nothing touches them.
LEMMA SettingsQuiet ==
  ASSUME SettingsInv, UNCHANGED settingsVars
  PROVE  SettingsInv'
BY DEF SettingsInv, settingsVars

\* The channel and its writer when nothing touches them.
LEMMA UsageQuiet ==
  ASSUME UsageInv, UNCHANGED <<usageVars, process, published>>
  PROVE  UsageInv'
BY DEF UsageInv, usageVars

\* Between two keys' documents that are the same only the requests matter.
LEMMA OvershootQuiet ==
  ASSUME OvershootBounded, SettingsInv, SettingsInv', UNCHANGED <<cur, peak>>, cur # None,
         \A k \in KeyIds : InFlight(k)' \subseteq InFlight(k)
  PROVE  OvershootBounded'
<1>1. DOMAIN cur.keys \subseteq KeyIds /\ peak \in [KeyIds -> Nat]
  BY Documents DEF SettingsInv, DocOK, Histories
<1>2. \A k \in DOMAIN cur.keys : peak[k] \in Nat
  BY <1>1
<1>3. \A k \in DOMAIN cur'.keys : peak'[k] > 0 =>
        /\ k \in DOMAIN cur.keys /\ cur'.keys[k].used = cur.keys[k].used
        /\ peak[k] > 0 /\ peak[k] <= peak'[k]
        /\ InFlight(k)' \subseteq InFlight(k)
  BY <1>1, <1>2
<1> QED BY <1>3, OvershootStep

\* authMiddleware, first look: a new trace id, and no key yet.
LEMMA ArriveOK ==
  ASSUME AccountingInv, NEW r \in Requests, Arrive(r)
  PROVE  AccountingInv'
<1> DEFINE p == IF ValidatorOn THEN "auth" ELSE IF LegacyKey THEN "legacy" ELSE "serving"
           t == IF LegacyKey \/ ValidatorOn THEN 0 ELSE now
           n == traces + 1
           q == [Idle EXCEPT !.pc = p, !.start = t, !.trace = n]
<1>1. /\ process = "up" /\ cur # None /\ traces < MaxTraces /\ traces' = n
      /\ req[r].pc = "idle" /\ req[r] = Idle
      /\ UNCHANGED <<settingsVars, usageVars, now, process, published>>
  BY DEF Arrive, AccountingInv, ReqInv
<1>2. req' = [req EXCEPT ![r] = q]
  BY DEF Arrive
<1>3. /\ now \in 0..MaxTime /\ now \in Nat /\ traces \in Nat /\ MaxTraces \in Nat /\ MaxTime \in Nat
      /\ req \in [Requests -> States]
  BY AccountingAssumption DEF AccountingInv, ReqInv
<1>4. p \in {"auth", "legacy", "serving"} /\ t \in 0..MaxTime /\ t <= now /\ n \in 0..MaxTraces
  BY <1>1, <1>3
<1>5. p = "serving" => t = now
  OBVIOUS
<1> HIDE DEF p, t
<1>6. q \in States /\ q.pc = p /\ q.start = t /\ q.trace = n /\ q.key = None
  BY <1>3, <1>4, IdleOK DEF States
<1> HIDE DEF q
<1>7. q.pc # "idle" => q.trace = traces + 1 /\ traces' = traces + 1
  BY <1>1, <1>6
<1>8. ReqInv'
  <2>1. cur' # None
    BY <1>1 DEF settingsVars
  <2>2. ReqInv /\ process # "down"
    BY <1>1 DEF AccountingInv
  <2> QED BY <1>1, <1>2, <1>4, <1>6, <1>7, <2>1, <2>2, QuietChange
<1>9. RingInv'
  <2>1. q.pc \in Serving => q.start = now
    BY <1>4, <1>5, <1>6 DEF Serving
  <2> QED BY <1>1, <1>2, <1>6, <2>1, RingQuiet DEF AccountingInv, usageVars
<1>10. SettingsInv' /\ UsageInv'
  BY <1>1, SettingsQuiet, UsageQuiet DEF AccountingInv
<1>11. \A k \in KeyIds : InFlight(k)' \subseteq InFlight(k)
  BY <1>2, <1>3, <1>6, SettingsAssumption DEF InFlight
<1>12. OvershootBounded'
  BY <1>1, <1>10, <1>11, OvershootQuiet DEF AccountingInv, settingsVars
<1> QED BY <1>8, <1>9, <1>10, <1>12 DEF AccountingInv

\* The -api-key value: the request is served without a key.
LEMMA AuthLegacyOK ==
  ASSUME AccountingInv, NEW r \in Requests, AuthLegacy(r)
  PROVE  AccountingInv'
<1> DEFINE q == [req[r] EXCEPT !.pc = "serving", !.start = now]
<1>1. /\ req[r].pc \in {"auth", "legacy"} /\ req[r].key = None /\ process # "down" /\ cur # None
      /\ UNCHANGED <<settingsVars, usageVars, now, process, traces, published>>
  BY DEF AuthLegacy, AccountingInv, ReqInv
<1>2. now \in 0..MaxTime /\ now \in Nat /\ req \in [Requests -> States] /\ req[r] \in States
  BY AccountingAssumption DEF AccountingInv, ReqInv
<1>3. req' = [req EXCEPT ![r] = q]
  BY <1>2 DEF AuthLegacy
<1>4. q \in States /\ q.pc = "serving" /\ q.start = now /\ q.trace = req[r].trace /\ q.key = None
  BY <1>1, <1>2 DEF States
<1> HIDE DEF q
<1>5. ReqInv'
  <2>1. cur' # None
    BY <1>1 DEF settingsVars
  <2>2. ReqInv /\ q.start <= now
    BY <1>2, <1>4 DEF AccountingInv
  <2>3. req[r].pc \notin {"idle", "charging"}
    BY <1>1
  <2> QED BY <1>1, <1>3, <1>4, <2>1, <2>2, <2>3, QuietChange
<1>6. RingInv'
  BY <1>1, <1>3, <1>4, RingQuiet DEF AccountingInv, usageVars
<1>7. SettingsInv' /\ UsageInv'
  BY <1>1, SettingsQuiet, UsageQuiet DEF AccountingInv
<1>8. \A k \in KeyIds : InFlight(k)' \subseteq InFlight(k)
  BY <1>2, <1>3, <1>4, SettingsAssumption DEF InFlight
<1>9. OvershootBounded'
  BY <1>1, <1>7, <1>8, OvershootQuiet DEF AccountingInv, settingsVars
<1> QED BY <1>5, <1>6, <1>7, <1>9 DEF AccountingInv

\* A key is admitted only below its quota.
LEMMA ValidateOK ==
  ASSUME AccountingInv, cur # None, NEW secret, ValidateAPIKey(secret, now).verdict = "ok"
  PROVE  LET k == ValidateAPIKey(secret, now).id
         IN  k \in DOMAIN cur.keys /\ k \in KeyIds /\ (peak[k] > 0 => cur.keys[k].used < peak[k])
<1> DEFINE answer == ValidateAPIKey(secret, now)
           c == CHOOSE x \in Matching(secret) : TRUE
<1>1. Matching(secret) # {}
  BY DEF ValidateAPIKey
<1>2. c \in Matching(secret)
  BY <1>1
<1>3. c \in DOMAIN cur.keys
  BY <1>2 DEF Matching
<1>4. answer.id = c /\ ~OverQuota(cur.keys[c])
  BY <1>1 DEF ValidateAPIKey
<1> HIDE DEF c, answer
<1>5. DocOK(cur, charged, doubtful, peak, issued) /\ peak \in [KeyIds -> Nat]
  BY DEF AccountingInv, SettingsInv, Histories
<1>6. c \in KeyIds /\ cur.keys[c] \in APIKeys /\ KeyOK(c, cur.keys[c], charged, doubtful, peak, issued)
  BY <1>3, <1>5, Documents DEF DocOK
<1> DEFINE key == cur.keys[c]
<1>7. key.used \in Nat /\ key.quota \in Nat /\ peak[c] \in Nat
  BY <1>5, <1>6, SettingsAssumption DEF APIKeys
<1>8. peak[c] > 0 => key.quota > 0 /\ key.quota <= peak[c]
  BY <1>6 DEF KeyOK
<1>9. key.quota > 0 => ~(key.used >= key.quota)
  BY <1>4 DEF OverQuota
<1> HIDE DEF key
<1>10. peak[c] > 0 => key.used < peak[c]
  BY <1>7, <1>8, <1>9
<1> QED BY <1>3, <1>4, <1>6, <1>10 DEF key, answer

\* A key is admitted below its quota, so one more request keeps the bound.
LEMMA AuthOK ==
  ASSUME AccountingInv, NEW r \in Requests, NEW secret \in Secrets, Auth(r, secret)
  PROVE  AccountingInv'
<1> DEFINE c == ValidateAPIKey(secret, now).id
           q == [req[r] EXCEPT !.pc = "serving", !.key = c, !.start = now]
<1>1. /\ req[r].pc = "auth" /\ req[r].key = None /\ process # "down" /\ cur # None
      /\ ValidateAPIKey(secret, now).verdict = "ok"
      /\ UNCHANGED <<settingsVars, usageVars, now, process, traces, published>>
  BY DEF Auth, AccountingInv, ReqInv
<1>2. now \in 0..MaxTime /\ now \in Nat /\ req \in [Requests -> States] /\ req[r] \in States
  BY AccountingAssumption DEF AccountingInv, ReqInv
<1>3. req' = [req EXCEPT ![r] = q]
  BY <1>2 DEF Auth
<1>4. c \in DOMAIN cur.keys /\ c \in KeyIds /\ (peak[c] > 0 => cur.keys[c].used < peak[c])
  BY <1>1, ValidateOK
<1> HIDE DEF c
<1>5. q \in States /\ q.pc = "serving" /\ q.start = now /\ q.trace = req[r].trace /\ q.key = c
  BY <1>1, <1>2, <1>4 DEF States
<1> HIDE DEF q
<1>6. ReqInv'
  <2>1. cur' # None
    BY <1>1 DEF settingsVars
  <2>2. ReqInv /\ q.start <= now
    BY <1>2, <1>5 DEF AccountingInv
  <2>3. req[r].pc \notin {"idle", "charging"}
    BY <1>1
  <2> QED BY <1>1, <1>3, <1>5, <2>1, <2>2, <2>3, QuietChange
<1>7. RingInv'
  BY <1>1, <1>3, <1>5, RingQuiet DEF AccountingInv, usageVars
<1>8. SettingsInv' /\ UsageInv'
  BY <1>1, SettingsQuiet, UsageQuiet DEF AccountingInv
<1>9. \A k \in KeyIds \ {c} : InFlight(k)' \subseteq InFlight(k)
  BY <1>2, <1>3, <1>5 DEF InFlight
<1>10. OvershootBounded'
  <2>1. /\ DOMAIN cur.keys \subseteq KeyIds /\ peak \in [KeyIds -> Nat]
        /\ UNCHANGED <<cur, peak>> /\ SettingsInv /\ OvershootBounded
    BY <1>1, Documents DEF AccountingInv, SettingsInv, DocOK, Histories, settingsVars
  <2>2. \A k \in DOMAIN cur.keys : peak[k] \in Nat
    BY <2>1
  <2>3. \A k \in DOMAIN cur'.keys : peak'[k] > 0 =>
          \/ cur'.keys[k].used < peak'[k]
          \/ /\ k \in DOMAIN cur.keys /\ cur'.keys[k].used = cur.keys[k].used
             /\ peak[k] > 0 /\ peak[k] <= peak'[k]
             /\ InFlight(k)' \subseteq InFlight(k)
    BY <1>4, <1>9, <2>1, <2>2
  <2> QED BY <1>1, <1>8, <2>1, <2>3, OvershootStep
<1> QED BY <1>6, <1>7, <1>8, <1>10 DEF AccountingInv

\* publishUsage and the end of the request, or its charge.
LEMMA PublishForOK ==
  ASSUME AccountingInv, NEW r \in Requests, NEW status \in Statuses, NEW tokens \in 0..MaxTokens,
         NEW where, PublishFor(r, status, tokens, where), NEW q \in States,
         where = "auth" \/ req[r].pc = "serving",
         req[r].pc \in {"auth", "legacy", "serving"},
         req' = [req EXCEPT ![r] = q],
         q = Idle \/ (q.pc = "charging" /\ req[r].pc = "serving" /\ q.key # None
                      /\ q.key = req[r].key /\ q.start = req[r].start /\ q.trace = req[r].trace),
         UNCHANGED <<settingsVars, now, process, traces>>
  PROVE  AccountingInv'
<1> DEFINE ts == IF where = "auth" THEN now ELSE req[r].start
           cred == IF where = "served" THEN "account" ELSE "none"
           model == IF where = "auth" \/ status = "invalid_request" THEN "none" ELSE "model"
           device == IF where = "auth" \/ req[r].key # None THEN "device" ELSE "none"
           rec == [trace |-> req[r].trace, ts |-> ts, cred |-> cred, model |-> model,
                   key |-> req[r].key, device |-> device, status |-> status, tokens |-> tokens]
<1>1. Publish(rec) /\ published' = Append(published, req[r].trace)
  BY DEF PublishFor
<1>2. /\ ReqInv /\ UsageInv /\ RingInv /\ SettingsInv /\ OvershootBounded
      /\ process # "down" /\ cur # None
  BY DEF AccountingInv, ReqInv
<1>3. /\ req \in [Requests -> States] /\ req[r] \in States /\ now \in 0..MaxTime /\ now \in Nat
      /\ traces \in 0..MaxTraces /\ req[r].trace \in 1..traces /\ req[r].start <= now
      /\ req[r].key \in KeyIds \cup {None} /\ req[r].start \in 0..MaxTime
      /\ published \in Seq(1..traces) /\ MaxTraces \in Nat
  <2>1. /\ req \in [Requests -> States] /\ now \in 0..MaxTime /\ traces \in 0..MaxTraces
        /\ published \in Seq(1..traces) /\ req[r].start <= now
    BY <1>2 DEF ReqInv
  <2>2. req[r].pc # "idle" /\ (req[r].pc # "idle" => req[r].trace \in 1..traces)
    BY <1>2 DEF ReqInv
  <2>3. req[r] \in States /\ MaxTraces \in Nat /\ now \in Nat
    BY <2>1, AccountingAssumption
  <2>4. req[r].key \in KeyIds \cup {None} /\ req[r].start \in 0..MaxTime
    BY <2>3 DEF States
  <2> QED BY <2>1, <2>2, <2>3, <2>4
<1>4. req[r].trace \in 1..MaxTraces
  BY <1>3
<1>5. ts \in 0..MaxTime /\ ts <= now
  BY <1>3
<1>6. cred \in {"account", "none"} /\ model \in {"model", "none"} /\ device \in {"device", "none"}
  OBVIOUS
<1>7. ring.buf = <<>> => \A x \in Known : x.ts <= ts
  <2>1. CASE where = "auth"
    BY <1>2, <2>1 DEF RingInv
  <2>2. CASE where # "auth"
    BY <1>2, <2>2 DEF RingInv, Serving
  <2> QED BY <2>1, <2>2
<1> HIDE DEF ts, cred, model, device
<1>8. rec \in Records /\ rec.ts = ts /\ rec.trace = req[r].trace
  BY <1>3, <1>4, <1>5, <1>6 DEF Records
<1> HIDE DEF rec
<1>9. UsageInv' /\ Known' \subseteq Known \cup {rec} /\ Known \subseteq Records
  BY <1>1, <1>2, <1>8, PublishUsage
<1>10. RingInv'
  BY <1>1, <1>2, <1>3, <1>5, <1>7, <1>8, <1>9, PublishRing
<1>11. ReqInv'
  BY <1>1, <1>2, <1>3, PublishedChange DEF settingsVars
<1>12. SettingsInv'
  BY <1>2, SettingsQuiet
<1>13. \A k \in KeyIds : InFlight(k)' \subseteq InFlight(k)
  BY <1>3, IdleOK DEF InFlight, Serving
<1>14. OvershootBounded'
  BY <1>2, <1>12, <1>13, OvershootQuiet DEF settingsVars
<1> QED BY <1>9, <1>10, <1>11, <1>12, <1>14 DEF AccountingInv

\* recordRejectedMessageUsage: a record without tokens, and no charge.
LEMMA RejectOK ==
  ASSUME AccountingInv, NEW r \in Requests, NEW secret, Reject(r, secret)
  PROVE  AccountingInv'
<1>1. PICK verdict : PublishFor(r, RejectStatus(verdict), 0, "auth")
  BY DEF Reject
<1>2. RejectStatus(verdict) \in Statuses /\ 0 \in 0..MaxTokens
  BY AccountingAssumption DEF RejectStatus, Statuses
<1>3. req[r].pc \in {"auth", "legacy"} /\ req' = [req EXCEPT ![r] = Idle]
      /\ UNCHANGED <<settingsVars, now, process, traces>>
  BY DEF Reject, Ends
<1> QED BY <1>1, <1>2, <1>3, IdleOK, PublishForOK

\* The early returns of HandleMessages.
LEMMA ReturnEarlyOK ==
  ASSUME AccountingInv, NEW r \in Requests, NEW status \in EarlyReturns, ReturnEarly(r, status)
  PROVE  AccountingInv'
<1>1. status \in Statuses /\ 0 \in 0..MaxTokens
  BY AccountingAssumption
<1>2. /\ PublishFor(r, status, 0, "early") /\ req[r].pc = "serving"
      /\ req' = [req EXCEPT ![r] = Idle] /\ UNCHANGED <<settingsVars, now, process, traces>>
  BY DEF ReturnEarly, Ends
<1> QED BY <1>1, <1>2, IdleOK, PublishForOK

\* recordMetric: the record, then the end of the request or its charge.
LEMMA RecordMetricOK ==
  ASSUME AccountingInv, NEW r \in Requests, NEW a \in Answers, RecordMetric(r, a.status, a.tokens)
  PROVE  AccountingInv'
<1>1. a.status \in Statuses /\ a.tokens \in 0..MaxTokens
  BY AccountingAssumption
<1>2. /\ PublishFor(r, a.status, a.tokens, "served") /\ req[r].pc = "serving"
      /\ UNCHANGED <<settingsVars, now, process, traces>>
  BY DEF RecordMetric
<1>3. CASE Charges(r, a.status, a.tokens)
  <2> DEFINE n == a.tokens
             q == [req[r] EXCEPT !.pc = "charging", !.tokens = n]
  <2>1. req \in [Requests -> States] /\ req[r] \in States
    BY DEF AccountingInv, ReqInv
  <2>2. req' = [req EXCEPT ![r] = q]
    BY <1>3, <2>1 DEF RecordMetric
  <2>3. req[r].key # None
    BY <1>3 DEF Charges
  <2>4. q \in States /\ q.pc = "charging" /\ q.key = req[r].key /\ q.start = req[r].start
        /\ q.trace = req[r].trace
    <3> HIDE DEF n
    <3>1. n \in 0..MaxTokens
      BY <1>1 DEF n
    <3> QED BY <2>1, <3>1 DEF States
  <2> HIDE DEF q
  <2> QED BY <1>1, <1>2, <2>2, <2>3, <2>4, PublishForOK
<1>4. CASE ~Charges(r, a.status, a.tokens)
  <2>1. req' = [req EXCEPT ![r] = Idle]
    BY <1>4 DEF RecordMetric, Ends
  <2> QED BY <1>1, <1>2, <2>1, IdleOK, PublishForOK
<1> QED BY <1>3, <1>4

\* The charge, and the end of the request with it.
LEMMA ChargeOK ==
  ASSUME AccountingInv, NEW r \in Requests, NEW outcome \in Outcomes, Charge(r, outcome)
  PROVE  AccountingInv'
<1>0. req[r].key \in KeyIds /\ req[r].tokens \in 0..MaxTokens
  <2>1. req[r] \in States /\ req[r].key # None
    BY DEF AccountingInv, ReqInv, Charge
  <2> QED BY <2>1 DEF States
<1> PICK id \in KeyIds, n \in 0..MaxTokens : id = req[r].key /\ n = req[r].tokens
  BY <1>0
<1>1. /\ ReqInv /\ UsageInv /\ RingInv /\ SettingsInv /\ OvershootBounded
      /\ req[r].pc = "charging" /\ process # "down" /\ cur # None
      /\ AddAPIKeyUsage(id, n, outcome) /\ req' = [req EXCEPT ![r] = Idle]
      /\ UNCHANGED <<usageVars, now, process, traces, published>>
  BY DEF AccountingInv, ReqInv, Charge, Ends
<1>2. req \in [Requests -> States] /\ n \in Nat /\ MaxTokens \in Nat /\ n <= MaxTokens /\ now \in Nat
  BY <1>1, AccountingAssumption DEF ReqInv, States
<1>3. outcome \in {"saved", "failed", "lost"}
  BY DEF Outcomes
<1>4. r \in InFlight(id)
  BY <1>1 DEF InFlight, Serving
<1>5. InFlight(id)' = InFlight(id) \ {r} /\ \A k \in KeyIds : InFlight(k)' \subseteq InFlight(k)
  <2>1. req'[r].pc \notin Serving /\ \A p \in Requests \ {r} : req'[p] = req[p]
    BY <1>1, <1>2, IdleOK DEF Serving
  <2> QED BY <2>1 DEF InFlight
<1>6. /\ DocOK(cur, charged, doubtful, peak, issued) /\ DOMAIN cur.keys \subseteq KeyIds
      /\ peak \in [KeyIds -> Nat] /\ \A k \in DOMAIN cur.keys : cur.keys[k].used \in Nat
  BY <1>1, Documents DEF SettingsInv, DocOK, Histories, APIKeys
<1>7. id \in DOMAIN cur.keys /\ peak[id] > 0 => cur.keys[id].used + n < peak[id] + Margin
  <2> SUFFICES ASSUME id \in DOMAIN cur.keys, peak[id] > 0
               PROVE  cur.keys[id].used + n < peak[id] + Margin
    OBVIOUS
  <2> DEFINE c == Cardinality(InFlight(id))
  <2>1. cur.keys[id].used + MaxTokens * c < peak[id] + Margin
    BY <1>1 DEF OvershootBounded, Margin
  <2>2. IsFiniteSet(InFlight(id))
    BY Constants, FS_Subset DEF InFlight
  <2>3. c \in Nat /\ c # 0
    BY <1>4, <2>2, FS_CardinalityType, FS_EmptySet
  <2> HIDE DEF c
  <2>4. \A m \in Nat : m # 0 => MaxTokens <= MaxTokens * m
    BY <1>2
  <2>5. MaxTokens <= MaxTokens * c /\ MaxTokens * c \in Nat
    BY <1>2, <2>3, <2>4
  <2>6. cur.keys[id].used \in Nat /\ peak[id] \in Nat /\ Margin \in Nat
    BY <1>2, <1>6, Constants
  <2> QED BY <1>2, <2>1, <2>5, <2>6
<1>8. SettingsInv' /\ cur' # None
  BY <1>1, <1>2, <1>3, <1>7, AddAPIKeyUsageOK
<1>9. ReqInv'
  <2>1. Idle.start <= now
    BY <1>2, IdleOK
  <2> QED BY <1>1, <1>8, <2>1, IdleOK, QuietChange
<1>10. RingInv'
  <2>1. Idle.pc \notin Serving
    BY IdleOK DEF Serving
  <2> QED BY <1>1, <2>1, IdleOK, RingQuiet DEF usageVars
<1>11. UsageInv'
  BY <1>1, UsageQuiet
<1>12. OvershootBounded'
  <2>1. CASE cur' = cur
    <3>1. UNCHANGED peak
      BY <1>1 DEF AddAPIKeyUsage
    <3> QED BY <1>1, <1>5, <1>8, <2>1, <3>1, OvershootQuiet
  <2>2. CASE cur' # cur
    <3> DEFINE m == cur.keys[id].used + n
               key == [cur.keys[id] EXCEPT !.used = m]
               doc == [cur EXCEPT !.keys[id] = key]
    <3>1. id \in DOMAIN cur.keys /\ cur' = doc /\ UNCHANGED peak
      BY <1>1, <2>2 DEF AddAPIKeyUsage, Update
    <3>2. IsDocument(cur) /\ cur.keys[id] \in APIKeys
      BY <1>6, <3>1, Documents DEF DocOK
    <3>3. m \in Nat /\ m <= cur.keys[id].used + MaxTokens
      BY <1>2, <1>6, <3>1
    <3> HIDE DEF m
    <3>4. key \in APIKeys /\ key.used = m
      BY <3>2, <3>3 DEF APIKeys
    <3> HIDE DEF key
    <3>5. /\ DOMAIN doc.keys = DOMAIN cur.keys /\ doc.keys[id] = key
          /\ \A k \in DOMAIN cur.keys \ {id} : doc.keys[k] = cur.keys[k]
      BY <3>1, <3>2, <3>4, KeyReplaced
    <3> HIDE DEF doc
    <3>6. \A k \in DOMAIN cur.keys : peak[k] \in Nat
      BY <1>6
    <3>7. \A k \in DOMAIN cur'.keys : peak'[k] > 0 =>
            \/ /\ k \in DOMAIN cur.keys /\ cur'.keys[k].used = cur.keys[k].used
               /\ peak[k] > 0 /\ peak[k] <= peak'[k]
               /\ InFlight(k)' \subseteq InFlight(k)
            \/ /\ k \in DOMAIN cur.keys /\ cur'.keys[k].used <= cur.keys[k].used + MaxTokens
               /\ peak'[k] = peak[k]
               /\ \E t \in InFlight(k) : InFlight(k)' = InFlight(k) \ {t}
      <4> TAKE k \in DOMAIN cur'.keys
      <4>1. CASE k = id
        <5>1. k \in DOMAIN cur.keys /\ cur'.keys[k].used = m
          BY <3>1, <3>4, <3>5, <4>1
        <5>2. cur'.keys[k].used <= cur.keys[k].used + MaxTokens
          BY <3>3, <4>1, <5>1
        <5>3. \E t \in InFlight(k) : InFlight(k)' = InFlight(k) \ {t}
          BY <1>4, <1>5, <4>1
        <5> QED BY <3>1, <5>1, <5>2, <5>3
      <4>2. CASE k # id
        <5>1. k \in DOMAIN cur.keys /\ cur'.keys[k] = cur.keys[k] /\ peak'[k] = peak[k]
          BY <3>1, <3>5, <4>2
        <5>2. peak[k] \in Nat /\ InFlight(k)' \subseteq InFlight(k)
          BY <1>5, <1>6, <3>6, <5>1
        <5> QED BY <5>1, <5>2
      <4> QED BY <4>1, <4>2
    <3> QED BY <1>1, <1>8, <3>7, OvershootStep
  <2> QED BY <2>1, <2>2
<1> QED BY <1>8, <1>9, <1>10, <1>11, <1>12 DEF AccountingInv
-----------------------------------------------------------------------------
(***************************************************************************)
(* The operator, the process, the writer and the clock                     *)
(***************************************************************************)

\* The requests when only the process's state or its settings change.
LEMMA ReqQuiet ==
  ASSUME ReqInv, UNCHANGED <<now, req, traces, published>>,
         process' \in {"down", "up", "stopping", "closing"},
         (cur' = None) <=> (process' = "down"),
         process' = "down" => process = "down"
  PROVE  ReqInv'
BY DEF ReqInv

\* The ring when nothing is published: time may pass, and the writer may hand
\* records on.
LEMMA RingStill ==
  ASSUME RingInv, UsageInv, UNCHANGED <<ring, published, reordered, req>>,
         now \in Nat, now' \in Nat, now <= now', Known' \subseteq Known
  PROVE  RingInv'
<1>1. Known \subseteq Records
  BY ToSetFacts DEF UsageInv, Known
<1>2. \A x \in Known : x.ts \in Nat /\ x.ts <= now
  BY <1>1, RecordTypes DEF RingInv
<1>3. \A x \in Known' : x.ts <= now'
  BY <1>2
<1> QED BY <1>3 DEF RingInv

\* The bound on the overshoot when an edit carries the counters over.
LEMMA OvershootEdit ==
  ASSUME OvershootBounded, SettingsInv, SettingsInv', cur # None, cur' # None,
         Carried(cur', cur, peak, peak'), UNCHANGED req
  PROVE  OvershootBounded'
<1>1. \A k \in KeyIds : InFlight(k)' = InFlight(k)
  BY DEF InFlight
<1>2. DOMAIN cur'.keys \subseteq KeyIds /\ peak' \in [KeyIds -> Nat]
  <2>1. DocOK(cur', charged', doubtful', peak', issued') /\ peak' \in [KeyIds -> Nat]
    BY DEF SettingsInv, Histories
  <2> QED BY <2>1, Documents DEF DocOK
<1>3. ASSUME NEW k \in DOMAIN cur'.keys, peak'[k] > 0
      PROVE  \/ cur'.keys[k].used < peak'[k]
             \/ /\ k \in DOMAIN cur.keys /\ cur'.keys[k].used = cur.keys[k].used
                /\ peak[k] > 0 /\ peak[k] <= peak'[k]
                /\ InFlight(k)' \subseteq InFlight(k)
  <2>1. peak'[k] \in Nat /\ InFlight(k)' \subseteq InFlight(k)
    BY <1>1, <1>2
  <2>2. CASE cur'.keys[k].used = 0
    BY <1>3, <2>1, <2>2
  <2>3. CASE cur'.keys[k].used # 0
    BY <1>3, <2>1, <2>3 DEF Carried
  <2> QED BY <2>2, <2>3
<1> QED BY <1>3, OvershootStep

\* handlers_settings.go: whatever the save comes to.
LEMMA OperatorOK ==
  ASSUME AccountingInv, Operator
  PROVE  AccountingInv'
<1>1. /\ ReqInv /\ UsageInv /\ RingInv /\ SettingsInv /\ OvershootBounded
      /\ process \in {"up", "stopping"} /\ cur # None /\ now \in Nat
      /\ UNCHANGED <<usageVars, now, process, req, traces, published>>
  BY AccountingAssumption DEF Operator, AccountingInv, ReqInv
<1>2. PICK outcome \in {"saved", "failed", "lost"} : Edit(outcome)
  BY DEF Operator, Outcomes
<1>3. SettingsInv' /\ cur' # None /\ Carried(cur', cur, peak, peak')
  <2>1. CASE handleAPIKeysCreate(outcome)
    BY <1>1, <2>1, AddAPIKeyOK DEF handleAPIKeysCreate
  <2>2. CASE handleAPIKeyUpdate(outcome)
    BY <1>1, <2>2, UpdateAPIKeyOK DEF handleAPIKeyUpdate
  <2>3. CASE handleAPIKeyRotate(outcome)
    BY <1>1, <2>3, RotateAPIKeyOK DEF handleAPIKeyRotate
  <2>4. CASE handleAPIKeyDelete(outcome)
    BY <1>1, <2>4, DeleteAPIKeyOK DEF handleAPIKeyDelete
  <2>5. CASE handleSettingsPut(outcome)
    BY <1>1, <2>5, PutSettingsOK DEF handleSettingsPut
  <2> QED BY <1>2, <2>1, <2>2, <2>3, <2>4, <2>5 DEF Edit
<1>4. ReqInv'
  BY <1>1, <1>3, ReqQuiet
<1>5. UsageInv'
  BY <1>1, UsageQuiet
<1>6. RingInv'
  <2>1. Known' = Known
    BY <1>1 DEF Known, usageVars
  <2> QED BY <1>1, <2>1, RingStill DEF usageVars
<1>7. OvershootBounded'
  BY <1>1, <1>3, OvershootEdit
<1> QED BY <1>3, <1>4, <1>5, <1>6, <1>7 DEF AccountingInv

\* A start: no request is in flight, so the stored counters keep the bound.
LEMMA StartOK ==
  ASSUME AccountingInv, Start
  PROVE  AccountingInv'
<1>1. /\ ReqInv /\ UsageInv /\ RingInv /\ SettingsInv
      /\ process = "down" /\ process' = "up" /\ newWithBackend /\ NewAggregator /\ now \in Nat
      /\ UNCHANGED <<now, req, traces, published>>
  BY AccountingAssumption DEF Start, AccountingInv, ReqInv
<1>2. SettingsInv' /\ cur' # None
  BY <1>1, newWithBackendOK
<1>3. ReqInv'
  BY <1>1, <1>2, ReqQuiet
<1>4. UsageInv'
  BY <1>1 DEF UsageInv, NewAggregator
<1>5. RingInv'
  <2>1. Known' = Known
    BY <1>1 DEF Known, NewAggregator
  <2> QED BY <1>1, <2>1, RingStill DEF NewAggregator
<1>6. OvershootBounded'
  <2> SUFFICES ASSUME NEW k \in DOMAIN cur'.keys, peak'[k] > 0
               PROVE  cur'.keys[k].used + MaxTokens * Cardinality(InFlight(k)')
                        < peak'[k] + MaxTokens * Cardinality(Requests)
    BY DEF OvershootBounded
  <2>1. InFlight(k)' = {}
    BY <1>1 DEF InFlight, Serving, ReqInv
  <2>2. Cardinality(InFlight(k)') = 0
    BY <2>1, FS_EmptySet
  <2>3. DocOK(cur', charged', doubtful', peak', issued')
    BY <1>2 DEF SettingsInv
  <2>4. cur'.keys[k].used < peak'[k] + Margin /\ cur'.keys[k].used \in Nat
    BY <2>3, Documents DEF DocOK, KeyOK, APIKeys
  <2>5. MaxTokens * 0 = 0
    BY Constants
  <2>6. cur'.keys[k].used + 0 = cur'.keys[k].used
    BY <2>4
  <2> QED BY <2>2, <2>4, <2>5, <2>6 DEF Margin
<1> QED BY <1>2, <1>3, <1>4, <1>5, <1>6 DEF AccountingInv
\* A step that leaves settings, requests and ring alone.
LEMMA StillOK ==
  ASSUME AccountingInv, UNCHANGED <<settingsVars, ring, reordered, req, published>>,
         now \in Nat, now' \in Nat, now <= now', Known' \subseteq Known, ReqInv', UsageInv'
  PROVE  AccountingInv'
<1>1. SettingsInv'
  BY SettingsQuiet DEF AccountingInv
<1>2. RingInv'
  BY RingStill DEF AccountingInv
<1>3. OvershootBounded'
  BY DEF AccountingInv, OvershootBounded, InFlight, settingsVars
<1> QED BY <1>1, <1>2, <1>3 DEF AccountingInv

\* The shutdown, up to the deferred calls.
LEMMA StopOK ==
  ASSUME AccountingInv, Stop \/ CloseAggregator \/ CloseUsage
  PROVE  AccountingInv'
<1>1. /\ ReqInv /\ UsageInv /\ now \in Nat /\ process # "down" /\ process' \in {"stopping", "closing"}
      /\ UNCHANGED <<settingsVars, ring, reordered, now, req, traces, published>>
      /\ UNCHANGED <<writes, inHand, stored>>
  BY AccountingAssumption
     DEF Stop, CloseAggregator, CloseUsage, CloseChannel, CloseStore, usageVars, AccountingInv, ReqInv
<1>2. cur # None /\ cur' # None
  BY <1>1 DEF ReqInv, settingsVars
<1>3. ReqInv'
  BY <1>1, <1>2, ReqQuiet
<1>4. UsageInv'
  <2>1. CASE Stop
    BY <1>1, <2>1 DEF UsageInv, Stop, usageVars
  <2>2. CASE CloseAggregator
    BY <1>1, <2>2 DEF UsageInv, CloseAggregator, CloseChannel
  <2>3. CASE CloseUsage
    BY <1>1, <2>3 DEF UsageInv, CloseUsage, CloseStore
  <2> QED BY <2>1, <2>2, <2>3
<1>5. Known' = Known /\ now <= now'
  BY <1>1 DEF Known
<1> QED BY <1>1, <1>3, <1>4, <1>5, StillOK

\* The process is gone, after a shutdown or in a crash: what is in the table
\* stays, and so does the document.
LEMMA GoneOK ==
  ASSUME AccountingInv, Gone, UNCHANGED <<now, traces>>
  PROVE  AccountingInv'
<1>1. /\ ReqInv /\ UsageInv /\ RingInv /\ SettingsInv
      /\ process' = "down" /\ SettingsDown /\ UsageDown /\ published' = <<>>
      /\ req' = [r \in Requests |-> Idle] /\ cur' = None
  BY DEF Gone, SettingsDown, AccountingInv
<1>2. SettingsInv'
  BY <1>1 DEF SettingsInv, SettingsDown
<1>3. OvershootBounded'
  BY <1>1 DEF OvershootBounded
<1>4. ReqInv'
  <2>1. now \in 0..MaxTime /\ now \in Nat /\ traces \in 0..MaxTraces
    BY <1>1, AccountingAssumption DEF ReqInv
  <2>2. /\ now' \in 0..MaxTime /\ traces' \in 0..MaxTraces
        /\ process' \in {"down", "up", "stopping", "closing"}
        /\ (cur' = None) <=> (process' = "down")
    BY <1>1, <2>1
  <2>3. published' \in Seq(1..traces') /\ Len(published') = 0
    BY <1>1, EmptySeq
  <2>4. 1..Len(published') = {}
    BY <2>3
  <2>5. req' \in [Requests -> States] /\ \A r \in Requests : req'[r] = Idle
    BY <1>1, IdleOK
  <2>6. \A r \in Requests : req'[r].start <= now'
    BY <2>1, <2>5, IdleOK
  <2>7. \A r \in Requests :
          /\ req'[r].pc = "idle"
          /\ req'[r].pc \notin {"auth", "legacy"} /\ req'[r].pc # "charging"
    BY <2>5, IdleOK
  <2> QED BY <2>2, <2>3, <2>4, <2>5, <2>6, <2>7 DEF ReqInv
<1>5. Known' \subseteq Known
  BY <1>1, ToSetFacts DEF UsageDown, Known
<1>6. UsageInv'
  <2>1. /\ ring' = EmptyRing /\ writes' = <<>> /\ writer' = "done" /\ inHand' = <<>>
        /\ closed' = FALSE /\ accepted' = {} /\ stored' = stored
    BY <1>1 DEF UsageDown
  <2>2. <<>> \in Seq(Records) /\ Len(<<>>) = 0 /\ 0 <= BufferSize
    BY UsageAssumption
  <2> QED BY <1>1, <2>1, <2>2 DEF UsageInv
<1>7. RingInv'
  <2>1. /\ ring' = EmptyRing /\ reordered' = FALSE
        /\ EmptyRing.buf = <<>> /\ Len(EmptyRing.buf) = 0 /\ ~EmptyRing.full /\ EmptyRing.head = 0
    BY <1>1 DEF UsageDown, EmptyRing
  <2>2. EmptyRing \in [buf : Seq(Records), head : 0..RingSize - 1, full : BOOLEAN]
    BY UsageAssumption DEF EmptyRing
  <2>3. EmptyRing \in Rings
    BY <2>1, <2>2, UsageAssumption DEF Rings
  <2>4. Len(published') = 0 /\ 0 < RingSize
    BY <1>1, UsageAssumption
  <2>5. \A r \in Requests : req'[r].pc \notin Serving
    BY <1>1, IdleOK DEF Serving
  <2>6. \A x \in Known' : x.ts <= now'
    BY <1>1, <1>5 DEF RingInv
  <2>7. 0..Len(ring'.buf) - 1 = {} /\ 1..Len(ring'.buf) = {}
    BY <2>1
  <2> QED BY <2>1, <2>3, <2>4, <2>5, <2>6, <2>7 DEF RingInv
<1> QED BY <1>2, <1>3, <1>4, <1>6, <1>7 DEF AccountingInv

\* Time passes.
LEMMA TickOK ==
  ASSUME AccountingInv, Tick
  PROVE  AccountingInv'
<1>1. /\ ReqInv /\ UsageInv /\ now \in Nat /\ now' = now + 1 /\ now' \in 0..MaxTime
      /\ UNCHANGED <<settingsVars, usageVars, process, req, traces, published>>
  BY AccountingAssumption DEF Tick, AccountingInv, ReqInv
<1>2. UsageInv'
  BY <1>1, UsageQuiet
<1>3. ReqInv'
  <2>1. \A r \in Requests : req[r].start <= now /\ req[r].start \in Nat
    BY <1>1, AccountingAssumption DEF ReqInv, States
  <2>2. \A r \in Requests : req'[r].start <= now'
    BY <1>1, <2>1
  <2> QED BY <1>1, <2>2 DEF ReqInv, settingsVars
<1>4. Known' = Known /\ now <= now' /\ now' \in Nat
  BY <1>1 DEF Known, usageVars
<1> QED BY <1>1, <1>2, <1>3, <1>4, StillOK DEF usageVars

\* runWriter: a record is in the channel, then in hand, then in the table or
\* among the failed ones.
LEMMA WriterOK ==
  ASSUME AccountingInv, Take \/ Finish \/ Write
  PROVE  AccountingInv'
<1>1. /\ ReqInv /\ UsageInv /\ now \in Nat
      /\ UNCHANGED <<settingsVars, ring, reordered, now, process, req, traces, published>>
  BY AccountingAssumption
     DEF Take, Finish, Write, WriterTakes, WriterEnds, WriterAppends, AccountingInv, ReqInv
<1>2. ReqInv'
  BY <1>1 DEF ReqInv, settingsVars
<1>3. /\ writes \in Seq(Records) /\ inHand \in Seq(Records) /\ stored \in Seq(Records)
      /\ Len(writes) \in Nat /\ Len(writes) <= BufferSize /\ BufferSize \in Nat
  BY <1>1, UsageAssumption DEF UsageInv
<1>4. UsageInv' /\ Known' \subseteq Known
  <2>1. CASE Take
    <3> DEFINE x == Head(writes)
    <3>1. /\ writer = "waiting" /\ writer' = "appending" /\ writes # <<>>
          /\ inHand' = <<x>> /\ writes' = Tail(writes)
          /\ UNCHANGED <<ring, closed, open, stored, accepted, failed>>
      BY <2>1 DEF Take, WriterTakes
    <3>2. /\ writes' \in Seq(Records) /\ Len(writes') = Len(writes) - 1 /\ x \in Records
      BY <1>3, <3>1, HeadTailProperties
    <3>3. ToSet(writes) = {x} \cup ToSet(writes') /\ ToSet(inHand') = {x}
      BY <1>3, <3>1, ToSetFacts
    <3> HIDE DEF x
    <3>4. inHand' \in Seq(Records) /\ Len(inHand') = 1 /\ Len(writes') <= BufferSize
      BY <1>3, <3>1, <3>2
    <3>5. inHand = <<>>
      <4>1. Len(inHand) = 0
        BY <1>1, <3>1 DEF UsageInv
      <4> QED BY <1>3, <4>1
    <3>6. ToSet(inHand) = {}
      BY <3>5, ToSetFacts
    <3>7. accepted' \subseteq ToSet(writes') \cup ToSet(inHand') \cup ToSet(stored') \cup failed'
      BY <1>1, <3>1, <3>3, <3>6 DEF UsageInv
    <3>8. process # "down" /\ closed' = closed /\ open' = open /\ (~open => writer = "done")
      BY <1>1, <3>1 DEF UsageInv
    <3>9. UsageInv'
      BY <1>1, <3>1, <3>2, <3>4, <3>7, <3>8 DEF UsageInv
    <3> QED BY <3>1, <3>3, <3>9 DEF Known
  <2>2. CASE Finish
    <3>1. /\ writer = "waiting" /\ writer' = "done" /\ writes = <<>> /\ closed
          /\ UNCHANGED <<ring, writes, closed, inHand, open, stored, accepted, failed>>
      BY <2>2 DEF Finish, WriterEnds
    <3>2. UsageInv'
      BY <1>1, <3>1 DEF UsageInv
    <3> QED BY <3>1, <3>2 DEF Known
  <2>3. CASE Write
    <3>1. PICK outcome : WriterAppends(outcome)
      BY <2>3 DEF Write
    <3>2. /\ writer = "appending" /\ writer' = "waiting" /\ inHand' = <<>>
          /\ UNCHANGED <<ring, writes, closed, open, accepted>>
          /\ \/ stored' = stored \o inHand /\ UNCHANGED failed
             \/ failed' = failed \cup ToSet(inHand) /\ UNCHANGED stored
      BY <3>1 DEF WriterAppends
    <3>3. stored' \in Seq(Records) /\ ToSet(stored') \subseteq ToSet(stored) \cup ToSet(inHand)
          /\ ToSet(stored) \cup ToSet(inHand) \cup failed \subseteq ToSet(stored') \cup failed'
      <4>1. CASE stored' = stored \o inHand /\ UNCHANGED failed
        <5>1. stored \o inHand \in Seq(Records)
          BY <1>3, ConcatProperties
        <5> QED BY <1>3, <4>1, <5>1, ToSetFacts
      <4>2. CASE failed' = failed \cup ToSet(inHand) /\ UNCHANGED stored
        BY <1>3, <4>2
      <4> QED BY <3>2, <4>1, <4>2
    <3>4. ToSet(inHand') = {} /\ inHand' \in Seq(Records) /\ Len(inHand') = 0
      BY <3>2, ToSetFacts
    <3>5. accepted' \subseteq ToSet(writes') \cup ToSet(inHand') \cup ToSet(stored') \cup failed'
      BY <1>1, <3>2, <3>3 DEF UsageInv
    <3>6. process # "down" /\ (~open => writer = "done")
      BY <1>1, <3>2 DEF UsageInv
    <3>7. UsageInv'
      BY <1>1, <3>2, <3>3, <3>4, <3>5, <3>6 DEF UsageInv
    <3> QED BY <3>2, <3>3, <3>4, <3>7 DEF Known
  <2> QED BY <2>1, <2>2, <2>3
<1>5. now <= now'
  BY <1>1
<1> QED BY <1>1, <1>2, <1>4, <1>5, StillOK
\* What the first start finds.
LEMMA InitOK == Init => AccountingInv
<1> SUFFICES ASSUME Init PROVE AccountingInv
  OBVIOUS
<1>1. SettingsInv /\ cur = None
  BY SettingsInitOK DEF Init, SettingsInit
<1>2. /\ now = 0 /\ process = "down" /\ req = [r \in Requests |-> Idle] /\ traces = 0
      /\ published = <<>>
  BY DEF Init
<1>3. /\ ring = EmptyRing /\ writes = <<>> /\ closed = FALSE /\ writer = "done" /\ inHand = <<>>
      /\ stored = <<>> /\ accepted = {} /\ reordered = FALSE
  BY DEF Init, UsageInit
<1>4. ReqInv
  <2>1. 0 \in 0..MaxTime /\ 0 \in 0..MaxTraces
    BY AccountingAssumption
  <2>2. req \in [Requests -> States] /\ \A r \in Requests : req[r] = Idle
    BY <1>2, IdleOK
  <2>3. published \in Seq(1..traces) /\ Len(published) = 0
    BY <1>2, EmptySeq
  <2>4. 1..Len(published) = {}
    BY <2>3
  <2>5. \A r \in Requests :
          /\ req[r].pc = "idle" /\ req[r].start <= now
          /\ req[r].pc \notin {"auth", "legacy"} /\ req[r].pc # "charging"
    BY <1>2, <2>2, IdleOK
  <2> QED BY <1>1, <1>2, <2>1, <2>2, <2>3, <2>4, <2>5 DEF ReqInv
<1>5. UsageInv
  <2>1. <<>> \in Seq(Records) /\ Len(<<>>) = 0 /\ 0 <= BufferSize
    BY UsageAssumption
  <2> QED BY <1>2, <1>3, <2>1 DEF UsageInv
<1>6. RingInv
  <2>1. EmptyRing.buf = <<>> /\ Len(EmptyRing.buf) = 0 /\ ~EmptyRing.full /\ EmptyRing.head = 0
    BY DEF EmptyRing
  <2>2. EmptyRing \in [buf : Seq(Records), head : 0..RingSize - 1, full : BOOLEAN]
    BY UsageAssumption DEF EmptyRing
  <2>3. EmptyRing \in Rings
    BY <2>1, <2>2, UsageAssumption DEF Rings
  <2>4. Len(published) = 0 /\ 0 < RingSize
    BY <1>2, UsageAssumption
  <2>5. Known = {}
    BY <1>3, ToSetFacts DEF Known
  <2>6. 0..Len(ring.buf) - 1 = {}
    BY <1>3, <2>1
  <2> QED BY <1>3, <2>1, <2>3, <2>4, <2>5, <2>6 DEF RingInv
<1>7. OvershootBounded
  BY <1>1 DEF OvershootBounded
<1> QED BY <1>1, <1>4, <1>5, <1>6, <1>7 DEF AccountingInv

\* Every step keeps the invariant.
LEMMA NextOK ==
  ASSUME AccountingInv, [Next]_vars
  PROVE  AccountingInv'
<1>1. CASE \E r \in Requests : Arrive(r) \/ AuthLegacy(r)
  BY <1>1, ArriveOK, AuthLegacyOK
<1>2. CASE \E r \in Requests, s \in Secrets : Auth(r, s)
  BY <1>2, AuthOK
<1>3. CASE \E r \in Requests, s \in Secrets \cup {None} : Reject(r, s)
  BY <1>3, RejectOK
<1>4. CASE \E r \in Requests, status \in EarlyReturns : ReturnEarly(r, status)
  BY <1>4, ReturnEarlyOK
<1>5. CASE \E r \in Requests, a \in Answers : RecordMetric(r, a.status, a.tokens)
  BY <1>5, RecordMetricOK
<1>6. CASE \E r \in Requests, outcome \in Outcomes : Charge(r, outcome)
  BY <1>6, ChargeOK
<1>7. CASE Operator
  BY <1>7, OperatorOK
<1>8. CASE Start
  BY <1>8, StartOK
<1>9. CASE Stop \/ CloseAggregator \/ CloseUsage
  BY <1>9, StopOK
<1>10. CASE Exit \/ Crash
  <2>1. Gone /\ UNCHANGED <<now, traces>>
    BY <1>10 DEF Exit, Crash
  <2> QED BY <2>1, GoneOK
<1>11. CASE Tick
  BY <1>11, TickOK
<1>12. CASE Take \/ Finish \/ Write
  BY <1>12, WriterOK
<1>13. CASE UNCHANGED vars
  <2>1. UNCHANGED <<settingsVars, usageVars, now, process, req, traces, published>>
    BY <1>13 DEF vars
  <2>2. ReqInv'
    BY <2>1 DEF AccountingInv, ReqInv, settingsVars
  <2>3. UsageInv' /\ Known' \subseteq Known
    BY <2>1, UsageQuiet DEF AccountingInv, Known, usageVars
  <2>4. now \in Nat /\ now' \in Nat /\ now <= now'
    BY <2>1, AccountingAssumption DEF AccountingInv, ReqInv
  <2> QED BY <2>1, <2>2, <2>3, <2>4, StillOK DEF usageVars
<1> QED
  BY <1>1, <1>2, <1>3, <1>4, <1>5, <1>6, <1>7, <1>8, <1>9, <1>10, <1>11, <1>12, <1>13 DEF Next
-----------------------------------------------------------------------------
(***************************************************************************)
(* The theorems                                                            *)
(***************************************************************************)

\* The inductive invariant: settings.go, aggregator.go and store_memory.go with
\* the requests that use them, through edits, failed saves, crashes, restarts.
THEOREM AccountingInvariant == Spec => []AccountingInv
BY InitOK, NextOK, PTL DEF Spec

\* What the invariant says of the types.
LEMMA InvTypes == AccountingInv => TypeOK
<1> SUFFICES ASSUME AccountingInv PROVE TypeOK
  OBVIOUS
<1>1. \A doc \in {cur, row} \ {None} : IsDocument(doc)
  BY DEF AccountingInv, SettingsInv, DocOK
<1>2. (cur = None) = (process = "down")
  BY DEF AccountingInv, ReqInv
<1>3. ring.buf \in Seq(Records) /\ Len(ring.buf) <= RingSize /\ ring.head \in 0..RingSize - 1
  BY DEF AccountingInv, RingInv, Rings
<1>4. /\ writes \in Seq(Records) /\ Len(writes) <= BufferSize
      /\ writer \in {"waiting", "appending", "done"}
      /\ inHand \in Seq(Records) /\ Len(inHand) = (IF writer = "appending" THEN 1 ELSE 0)
      /\ stored \in Seq(Records)
  BY DEF AccountingInv, UsageInv
<1>5. process \in {"down", "up", "stopping", "closing"}
  BY DEF AccountingInv, ReqInv
<1>6. ASSUME NEW r \in Requests
      PROVE  /\ req[r].pc \in {"idle", "auth", "legacy", "serving", "charging"}
             /\ req[r].key \in KeyIds \cup {None}
             /\ req[r].tokens \in 0..MaxTokens
             /\ req[r].pc = "charging" => req[r].key # None
  <2>1. req[r] \in States /\ (req[r].pc = "charging" => req[r].key # None)
    BY DEF AccountingInv, ReqInv
  <2> QED BY <2>1 DEF States
<1> QED BY <1>1, <1>2, <1>3, <1>4, <1>5, <1>6 DEF TypeOK

\* Why the ring can answer for the windows it covers: what it has no longer is
\* no younger than any of its slots, so not after the oldest one.
LEMMA InvQuery == AccountingInv => QueryComplete
<1> SUFFICES ASSUME AccountingInv, process # "down", ~reordered, NEW window \in Windows,
                    useMem(window), NEW x \in ToSet(stored), inWindow(x, window),
                    x.ts # Oldest(ring)
             PROVE  x \in ToSet(ring.buf)
  BY DEF QueryComplete
<1>1. /\ ring \in Rings /\ ring.buf \in Seq(Records) /\ Len(ring.buf) \in Nat
      /\ stored \in Seq(Records) /\ RingSize \in Nat \ {0}
  BY UsageAssumption DEF AccountingInv, RingInv, Rings, UsageInv
<1>2. ring.buf # <<>> /\ window.start >= Oldest(ring) /\ window.start <= x.ts
  BY DEF useMem, inWindow
<1>3. \E k \in 1..Len(ring.buf) : Oldest(ring) = ring.buf[k].ts
  <2>1. CASE ring.full
    <3>1. Len(ring.buf) = RingSize /\ ring.head \in 0..RingSize - 1
      BY <1>1, <2>1 DEF Rings
    <3>2. ring.head + 1 \in 1..Len(ring.buf)
      BY <1>1, <3>1
    <3> QED BY <2>1, <3>2 DEF Oldest
  <2>2. CASE ~ring.full
    <3>1. 1 \in 1..Len(ring.buf)
      BY <1>1, <1>2
    <3> QED BY <2>2, <3>1 DEF Oldest
  <2> QED BY <2>1, <2>2
<1>4. PICK k \in 1..Len(ring.buf) : Oldest(ring) = ring.buf[k].ts
  BY <1>3
<1>5. ring.buf[k] \in Records /\ x \in Records
  BY <1>1, ElementOfSeq, ToSetFacts
<1>6. ring.buf[k].ts \in Nat /\ x.ts \in Nat /\ window.start \in Int
  <2>1. now \in Nat
    BY AccountingAssumption DEF AccountingInv, ReqInv
  <2>2. window.start \in 0..now
    BY DEF Windows
  <2> QED BY <1>5, <2>1, <2>2, RecordTypes
<1>7. ~(x.ts <= ring.buf[k].ts)
  BY <1>2, <1>4, <1>6
<1>8. x \in Known
  BY DEF Known
<1> QED BY <1>7, <1>8 DEF AccountingInv, RingInv

\* The shape of documents, ring, channel and requests.
THEOREM AccountingTypes == Spec => []TypeOK
BY AccountingInvariant, InvTypes, PTL

\* settings.go, Update: the process never serves from settings that a restart
\* would not find, unless the answer to a save got lost; and never from settings
\* that load would refuse.
THEOREM SettingsRecover == Spec => []SettingsSurvive
<1>1. AccountingInv => SettingsSurvive
  BY DEF AccountingInv, SettingsInv, SettingsSurvive
<1> QED BY AccountingInvariant, <1>1, PTL

\* api_keys.go, AddAPIKeyUsage: through every edit, rotation, failed save, crash
\* and restart a key's counter is what was charged, up to the unanswered saves.
THEOREM NoChargeLost == Spec => []ChargesAddUp
<1>1. AccountingInv => ChargesAddUp
  BY DEF AccountingInv, SettingsInv, DocOK, KeyOK, ChargesAddUp
<1> QED BY AccountingInvariant, <1>1, PTL

\* middleware.go and handler.go: a quota is passed by less than what the
\* requests that may be in flight together can use.
THEOREM QuotaOvershoot == Spec => []OvershootBounded
<1>1. AccountingInv => OvershootBounded
  BY DEF AccountingInv
<1> QED BY AccountingInvariant, <1>1, PTL

\* aggregator.go, Close: no accepted record is left behind by a shutdown.
THEOREM CloseDrains == Spec => []ShutdownDrains
<1>1. AccountingInv => ShutdownDrains
  <2> SUFFICES ASSUME AccountingInv, process = "closing", ~open
               PROVE  accepted \subseteq ToSet(stored) \cup failed
    BY DEF ShutdownDrains
  <2>1. /\ writer = "done" /\ writes = <<>> /\ inHand \in Seq(Records) /\ Len(inHand) = 0
        /\ accepted \subseteq ToSet(writes) \cup ToSet(inHand) \cup ToSet(stored) \cup failed
    BY DEF AccountingInv, UsageInv
  <2>2. inHand = <<>>
    BY <2>1
  <2> QED BY <2>1, <2>2, ToSetFacts
<1> QED BY AccountingInvariant, <1>1, PTL

\* aggregator.go, Query: the windows the ring is asked about are the ones it
\* covers, for every size of the ring and of the channel.
THEOREM RingCoversWindow == Spec => []QueryComplete
BY AccountingInvariant, InvQuery, PTL

\* store_memory.go, store_postgres.go, handlers.go: whichever store answers and
\* however the ring has wrapped, every grouping and the timeline of an answer
\* add up to its totals, for any records.
THEOREM RollupsCorrect == Spec => []RollupsAddUp
<1>1. AccountingInv => RollupsAddUp
  <2> SUFFICES ASSUME AccountingInv, NEW window \in Windows,
                      NEW agg, agg = Query(NoFilter, window)
               PROVE  /\ \A group \in {"model", "api_key", "device"} :
                           Merged(handleUsage(group, agg), DOMAIN handleUsage(group, agg)) = agg.totals
                      /\ Merged(handleUsageTimeline(agg), DOMAIN handleUsageTimeline(agg)) = agg.totals
    BY DEF RollupsAddUp
  <2>1. now \in 0..MaxTime /\ {MaxTokens, MaxTime} \subseteq Nat
    BY AccountingAssumption DEF AccountingInv, ReqInv
  <2>2. window.start \in Nat /\ window.end \in Nat /\ window.bucket = 2
    BY <2>1 DEF Windows
  <2>3. ring.buf \in Seq(Records) /\ stored \in Seq(Records)
    BY DEF AccountingInv, RingInv, Rings, UsageInv
  <2>4. ASSUME NEW s \in Seq(Records)
        PROVE  IsFiniteSet(ToSet(s)) /\ \A x \in ToSet(s) : x.tokens \in Nat /\ x.ts \in Nat
    <3>1. ToSet(s) = {s[i] : i \in 1..Len(s)} /\ Len(s) \in Nat
      BY DEF ToSet
    <3>2. IsFiniteSet(ToSet(s))
      <4>1. IsFiniteSet(1..Len(s))
        BY <3>1, FS_Interval
      <4>2. IsFiniteSet({s[i] : i \in 1..Len(s)})
        BY <4>1, ValuesFinite
      <4> QED BY <3>1, <4>2
    <3>3. ASSUME NEW x \in ToSet(s) PROVE x.tokens \in Nat /\ x.ts \in Nat
      <4>1. x \in Records
        BY <3>1
      <4> QED BY <4>1, <2>1 DEF Records
    <3> QED BY <3>2, <3>3
  <2>5. PICK recs : /\ agg = Rollup(recs, NoFilter, window)
                    /\ IsFiniteSet(recs) /\ \A x \in recs : x.tokens \in Nat /\ x.ts \in Nat
    <3>1. CASE useMem(window)
      BY <2>3, <2>4, <3>1 DEF Query, MemoryQuery
    <3>2. CASE ~useMem(window)
      BY <2>3, <2>4, <3>2 DEF Query, PostgresQuery
    <3> QED BY <3>1, <3>2
  <2> QED BY <2>2, <2>5, RollupAddsUp
<1> QED BY <1>1, AccountingInvariant, PTL
-----------------------------------------------------------------------------
(***************************************************************************)
(* Answers to Recent                                                       *)
(***************************************************************************)

\* In a finite set that before orders, every member has its place: the number of
\* members before it.
LEMMA OrderedIs ==
  ASSUME NEW I, IsFiniteSet(I), NEW before \in [I -> SUBSET I],
         \A i \in I : i \notin before[i],
         \A i, j \in I : i # j => i \in before[j] \/ j \in before[i],
         \A i, j \in I : i \in before[j] => before[i] \subseteq before[j]
  PROVE  /\ Cardinality(I) \in Nat
         /\ Ordered(I, before) \in [1..Cardinality(I) -> I]
         /\ \A k \in 1..Cardinality(I) : Cardinality(before[Ordered(I, before)[k]]) = k - 1
         /\ \A i \in I : \E k \in 1..Cardinality(I) : Ordered(I, before)[k] = i
<1> DEFINE n == Cardinality(I)
           rank == [i \in I |-> Cardinality(before[i])]
           place == Ordered(I, before)
<1>1. n \in Nat
  BY FS_CardinalityType
<1>2. ASSUME NEW i \in I
      PROVE  IsFiniteSet(before[i]) /\ Cardinality(before[i]) \in 0..n - 1
  <2>1. IsFiniteSet(I \ {i}) /\ Cardinality(I \ {i}) = n - 1
    BY FS_RemoveElement
  <2>2. before[i] \in SUBSET (I \ {i})
    OBVIOUS
  <2>3. IsFiniteSet(before[i]) /\ Cardinality(before[i]) <= n - 1
    BY <2>1, <2>2, FS_Subset
  <2>4. Cardinality(before[i]) \in Nat
    BY <2>3, FS_CardinalityType
  <2> QED BY <1>1, <2>3, <2>4
<1>3. ASSUME NEW i \in I, NEW j \in I, i \in before[j]
      PROVE  Cardinality(before[i]) < Cardinality(before[j])
  <2>1. IsFiniteSet(before[i]) /\ IsFiniteSet(before[j]) /\ i \notin before[i]
    BY <1>2
  <2>2. Cardinality(before[i] \cup {i}) = Cardinality(before[i]) + 1
    BY <2>1, FS_AddElement
  <2>3. before[i] \cup {i} \in SUBSET before[j]
    BY <1>3
  <2>4. Cardinality(before[i] \cup {i}) <= Cardinality(before[j])
    BY <2>1, <2>3, FS_Subset
  <2>5. Cardinality(before[i]) \in 0..n - 1 /\ Cardinality(before[j]) \in 0..n - 1
    BY <1>2
  <2> QED BY <1>1, <2>2, <2>4, <2>5
<1>4. rank \in Injection(I, 0..n - 1)
  <2>1. rank \in [I -> 0..n - 1]
    BY <1>2
  <2>2. ASSUME NEW i \in I, NEW j \in I, i # j PROVE rank[i] # rank[j]
    <3>1. Cardinality(before[i]) < Cardinality(before[j]) \/ Cardinality(before[j]) < Cardinality(before[i])
      BY <1>3, <2>2
    <3>2. Cardinality(before[i]) \in Int /\ Cardinality(before[j]) \in Int
      BY <1>1, <1>2
    <3> QED BY <3>1, <3>2
  <2> QED BY <2>1, <2>2 DEF Injection, IsInjective
<1>5. rank \in Surjection(I, 0..n - 1)
  <2>1. IsFiniteSet(0..n - 1) /\ Cardinality(0..n - 1) = n
    BY <1>1, FS_Interval
  <2> HIDE DEF rank
  <2> QED BY <1>4, <2>1, FS_Injection
<1>6. \A m \in 0..n - 1 : \E i \in I : Cardinality(before[i]) = m
  BY <1>5 DEF Surjection
<1>7. ASSUME NEW k \in 1..n
      PROVE  place[k] \in I /\ Cardinality(before[place[k]]) = k - 1
  <2>1. k - 1 \in 0..n - 1
    BY <1>1
  <2>2. \E i \in I : Cardinality(before[i]) = k - 1
    BY <1>6, <2>1
  <2>3. place[k] = CHOOSE i \in I : Cardinality(before[i]) = k - 1
    BY DEF Ordered
  <2> HIDE DEF place
  <2> QED BY <2>2, <2>3
<1>8. place \in [1..n -> I]
  <2>1. place = [k \in 1..n |-> place[k]]
    BY DEF Ordered
  <2> HIDE DEF place
  <2> QED BY <1>7, <2>1
<1>9. ASSUME NEW i \in I PROVE \E k \in 1..n : place[k] = i
  <2>1. Cardinality(before[i]) \in 0..n - 1
    BY <1>2
  <2>2. PICK k \in 1..n : k - 1 = Cardinality(before[i])
    <3>1. Cardinality(before[i]) + 1 \in 1..n /\ (Cardinality(before[i]) + 1) - 1 = Cardinality(before[i])
      BY <1>1, <2>1
    <3> QED BY <3>1
  <2>3. place[k] \in I /\ Cardinality(before[place[k]]) = Cardinality(before[i])
    BY <1>7, <2>2
  <2> HIDE DEF place
  <2>4. rank[place[k]] = rank[i]
    BY <2>3
  <2> QED BY <1>4, <2>3, <2>4 DEF Injection, IsInjective
<1> QED BY <1>1, <1>7, <1>8, <1>9

\* The places that a selection takes from a sequence, each once.
Places(t, s, I) ==
    \E at \in [1..Cardinality(I) -> I] :
      /\ \A k \in 1..Cardinality(I) : t[k] = s[at[k]]
      /\ \A i \in I : \E k \in 1..Cardinality(I) : at[k] = i
      /\ \A k, m \in 1..Cardinality(I) : at[k] = at[m] => k = m

\* Positions of a sequence are in order of their numbers.
LEMMA KeptIs ==
  ASSUME NEW S, NEW s \in Seq(S), NEW I \in SUBSET (1..Len(s))
  PROVE  /\ Cardinality(I) \in Nat
         /\ Kept(s, I) \in Seq(S) /\ Len(Kept(s, I)) = Cardinality(I)
         /\ Places(Kept(s, I), s, I)
         /\ I = 1..Len(s) => Kept(s, I) = s
<1> DEFINE before == [i \in I |-> {j \in I : j < i}]
           at == Ordered(I, before)
           n == Cardinality(I)
<1>1. Len(s) \in Nat /\ IsFiniteSet(1..Len(s))
  BY FS_Interval
<1>2. IsFiniteSet(I)
  BY <1>1, FS_Subset
<1>3. \A i \in I : i \in Int
  BY <1>1
<1>4. before \in [I -> SUBSET I]
  OBVIOUS
<1>5. /\ \A i \in I : i \notin before[i]
      /\ \A i, j \in I : i # j => i \in before[j] \/ j \in before[i]
      /\ \A i, j \in I : i \in before[j] => before[i] \subseteq before[j]
  <2>1. \A i, j \in I : j \in before[i] <=> j < i
    OBVIOUS
  <2>2. \A i \in I : before[i] \subseteq I
    OBVIOUS
  <2> HIDE DEF before
  <2>3. ASSUME NEW i \in I, NEW j \in I, i \in before[j], NEW k \in before[i] PROVE k \in before[j]
    <3>1. k \in I /\ k < i /\ i < j
      BY <2>1, <2>2, <2>3
    <3>2. k < j
      BY <1>3, <3>1
    <3> QED BY <2>1, <3>1, <3>2
  <2>4. \A i, j \in I : i # j => i < j \/ j < i
    BY <1>3
  <2>5. \A i \in I : ~(i < i)
    BY <1>3
  <2> QED BY <2>1, <2>3, <2>4, <2>5
<1>6. /\ n \in Nat /\ at \in [1..n -> I]
      /\ \A k \in 1..n : Cardinality(before[at[k]]) = k - 1
      /\ \A i \in I : \E k \in 1..n : at[k] = i
  <2> HIDE DEF before
  <2> QED BY <1>2, <1>4, <1>5, OrderedIs
<1>7. Kept(s, I) = [k \in 1..n |-> s[at[k]]]
  BY DEF Kept
<1> HIDE DEF at
<1>8. \A k \in 1..n : s[at[k]] \in S
  BY <1>6, ElementOfSeq
<1>9. Kept(s, I) \in Seq(S) /\ Len(Kept(s, I)) = n
  <2>1. Kept(s, I) \in [1..n -> S]
    BY <1>7, <1>8
  <2> QED BY <1>6, <2>1
<1>10. \A k, m \in 1..n : at[k] = at[m] => k = m
  <2> SUFFICES ASSUME NEW k \in 1..n, NEW m \in 1..n, at[k] = at[m] PROVE k = m
    OBVIOUS
  <2>1. k - 1 = m - 1
    BY <1>6
  <2> QED BY <2>1, <1>6
<1>11. Places(Kept(s, I), s, I)
  BY <1>6, <1>7, <1>10 DEF Places
<1>12. ASSUME I = 1..Len(s) PROVE Kept(s, I) = s
  <2>1. n = Len(s)
    BY <1>1, <1>12, FS_Interval
  <2>2. ASSUME NEW k \in 1..n PROVE at[k] = k
    <3>1. at[k] \in 1..Len(s) /\ at[k] \in Int
      BY <1>1, <1>6, <1>12
    <3>2. before[at[k]] = 1..(at[k] - 1)
      <4>1. PICK a : a = at[k]
        OBVIOUS
      <4>2. a \in I /\ a \in 1..Len(s)
        BY <1>12, <3>1, <4>1
      <4>3. before[a] = {j \in 1..Len(s) : j < a}
        BY <1>12, <4>2
      <4>4. {j \in 1..Len(s) : j < a} = 1..(a - 1)
        BY <1>1, <4>2
      <4> QED BY <4>1, <4>3, <4>4
    <3>3. Cardinality(1..(at[k] - 1)) = at[k] - 1
      BY <3>1, FS_Interval
    <3>4. at[k] - 1 = k - 1
      <4> HIDE DEF before
      <4> QED BY <1>6, <3>2, <3>3
    <3> QED BY <3>1, <3>4, <1>6
  <2>3. s = [k \in 1..Len(s) |-> s[k]]
    OBVIOUS
  <2>4. Kept(s, I) = [k \in 1..Len(s) |-> s[k]]
    BY <1>7, <2>1, <2>2
  <2> QED BY <2>3, <2>4
<1> QED BY <1>6, <1>9, <1>11, <1>12

\* The head of an answer.
LEMMA FirstNIs ==
  ASSUME NEW S, NEW s \in Seq(S), NEW n \in Nat
  PROVE  /\ FirstN(s, n) \in Seq(S)
         /\ Len(FirstN(s, n)) = IF Len(s) < n THEN Len(s) ELSE n
         /\ \A k \in 1..Len(FirstN(s, n)) : k \in 1..Len(s) /\ FirstN(s, n)[k] = s[k]
         /\ Len(s) <= n => FirstN(s, n) = s
<1> DEFINE m == IF Len(s) < n THEN Len(s) ELSE n
           t == FirstN(s, n)
<1>1. m \in Nat /\ m <= Len(s) /\ Len(s) \in Nat /\ t = SubSeq(s, 1, m)
  BY DEF FirstN
<1>2. \A k \in 1..m : s[k] \in S
  BY <1>1, ElementOfSeq
<1>3. t = [k \in 1..m |-> s[k]]
  <2> HIDE DEF m, t
  <2>1. SubSeq(s, 1, m) = [k \in 1..m |-> s[k]]
    BY <1>1
  <2> QED BY <1>1, <2>1
<1> HIDE DEF m, t
<1>4. t \in Seq(S) /\ Len(t) = m /\ \A k \in 1..m : t[k] = s[k]
  <2>1. t \in [1..m -> S]
    BY <1>2, <1>3
  <2> QED BY <1>1, <1>3, <2>1
<1>5. ASSUME Len(s) <= n PROVE t = s
  <2>1. m = Len(s)
    BY <1>1, <1>5 DEF m
  <2>2. s = [k \in 1..Len(s) |-> s[k]]
    OBVIOUS
  <2> QED BY <1>3, <2>1, <2>2
<1>6. \A k \in 1..m : k \in 1..Len(s)
  BY <1>1
<1> QED BY <1>4, <1>5, <1>6 DEF t, m

\* The walk from the newest record to the oldest.
NewestFirst == [i \in 1..Len(ring.buf) |-> ring.buf[NewestSlot(ring, i - 1)]]

\* It meets every record of the ring, in the order opposite to the publications.
LEMMA NewestFirstIs ==
  ASSUME AccountingInv
  PROVE  /\ NewestFirst \in Seq(Records) /\ Len(NewestFirst) = Len(ring.buf)
         /\ ToSet(NewestFirst) = ToSet(ring.buf)
         /\ \A i \in 1..Len(ring.buf) :
              /\ Len(published) - i + 1 \in 1..Len(published)
              /\ NewestFirst[i].trace = published[Len(published) - i + 1]
         /\ \A i, j \in 1..Len(ring.buf) : NewestFirst[i].trace = NewestFirst[j].trace => i = j
<1> DEFINE n == Len(ring.buf)
           N == Len(published)
           s == NewestFirst
<1>1. /\ ring \in Rings /\ ring.buf \in Seq(Records) /\ n \in Nat /\ RingSize \in Nat
      /\ N \in Nat /\ n = (IF N < RingSize THEN N ELSE RingSize) /\ n <= N
      /\ \A i \in 0..n - 1 : Nth(ring, i).trace = published[N - i]
  BY UsageAssumption DEF AccountingInv, RingInv, Rings, ReqInv
<1>2. ASSUME NEW i \in 1..n
      PROVE  /\ i - 1 \in 0..n - 1 /\ s[i] = ring.buf[NewestSlot(ring, i - 1)]
             /\ NewestSlot(ring, i - 1) \in 1..n /\ s[i] \in Records
  <2>1. i - 1 \in 0..n - 1
    BY <1>1
  <2>2. NewestSlot(ring, i - 1) \in 1..n
    BY <1>1, <2>1, SlotCases
  <2>3. s[i] = ring.buf[NewestSlot(ring, i - 1)]
    BY DEF NewestFirst
  <2> QED BY <1>1, <2>1, <2>2, <2>3, ElementOfSeq
<1>3. s \in Seq(Records) /\ Len(s) = n
  <2>1. s = [i \in 1..n |-> s[i]]
    BY DEF NewestFirst
  <2>2. s \in [1..n -> Records]
    <3> HIDE DEF s
    <3> QED BY <1>2, <2>1
  <2> HIDE DEF s
  <2> QED BY <1>1, <2>1, <2>2
<1> HIDE DEF s
<1>4. ToSet(s) = ToSet(ring.buf)
  <2>1. ToSet(s) = {s[i] : i \in 1..n} /\ ToSet(ring.buf) = {ring.buf[i] : i \in 1..n}
    BY <1>1, <1>3, ToSetFacts
  <2>2. ASSUME NEW k \in 1..n PROVE \E i \in 1..n : s[i] = ring.buf[k]
    <3>1. PICK i \in 0..n - 1 : NewestSlot(ring, i) = k
      BY <1>1, SlotsCovered
    <3>2. i + 1 \in 1..n /\ (i + 1) - 1 = i
      BY <1>1
    <3>3. s[i + 1] = ring.buf[NewestSlot(ring, (i + 1) - 1)]
      BY <1>2, <3>2
    <3> QED BY <3>1, <3>2, <3>3
  <2>3. \A i \in 1..n : \E k \in 1..n : s[i] = ring.buf[k]
    BY <1>2
  <2>4. ASSUME NEW x \in ToSet(s) PROVE x \in ToSet(ring.buf)
    <3>1. PICK i \in 1..n : x = s[i]
      BY <2>1
    <3>2. PICK k \in 1..n : s[i] = ring.buf[k]
      BY <2>3
    <3> QED BY <2>1, <3>1, <3>2
  <2>5. ASSUME NEW x \in ToSet(ring.buf) PROVE x \in ToSet(s)
    <3>1. PICK k \in 1..n : x = ring.buf[k]
      BY <2>1
    <3>2. PICK i \in 1..n : s[i] = ring.buf[k]
      BY <2>2
    <3> QED BY <2>1, <3>1, <3>2
  <2> QED BY <2>4, <2>5
<1>5. ASSUME NEW i \in 1..n
      PROVE  N - i + 1 \in 1..N /\ s[i].trace = published[N - i + 1]
  <2>1. N - i + 1 \in 1..N /\ N - (i - 1) = N - i + 1
    BY <1>1
  <2>2. Nth(ring, i - 1).trace = published[N - (i - 1)]
    BY <1>1, <1>2
  <2> QED BY <1>2, <2>1, <2>2 DEF Nth
<1>6. ASSUME NEW i \in 1..n, NEW j \in 1..n, s[i].trace = s[j].trace
      PROVE  i = j
  <2>1. published[N - i + 1] = published[N - j + 1] /\ N - i + 1 \in 1..N /\ N - j + 1 \in 1..N
    BY <1>5, <1>6
  <2>2. N - i + 1 = N - j + 1
    BY <2>1 DEF AccountingInv, ReqInv
  <2> QED BY <1>1, <2>2
<1> QED BY <1>3, <1>4, <1>5, <1>6 DEF s

\* store_memory.go: what Recent finds in the ring is the newest records.
LEMMA InvNewest == AccountingInv => RingKeepsNewest
<1> SUFFICES ASSUME AccountingInv PROVE RingKeepsNewest
  OBVIOUS
<1> DEFINE N == Len(published)
           n == Len(ring.buf)
           got == MemoryRecent(ring, NoFilter, RingSize)
           newest == FirstN(Reverse(published), RingSize)
<1>1. /\ published \in Seq(1..traces) /\ N \in Nat /\ RingSize \in Nat /\ n \in Nat
      /\ n = IF N < RingSize THEN N ELSE RingSize
  BY UsageAssumption DEF AccountingInv, RingInv, Rings, ReqInv
<1>2. IsInjective(published)
  BY <1>1 DEF AccountingInv, ReqInv, IsInjective
<1>3. got = NewestFirst
  <2>1. {i \in 1..n : matchFilter(NewestFirst[i], NoFilter)} = 1..n
    BY DEF matchFilter, NoFilter
  <2>2. got = FirstN(Kept(NewestFirst, 1..n), RingSize)
    BY <2>1 DEF MemoryRecent, NewestFirst
  <2>3. NewestFirst \in Seq(Records) /\ Len(NewestFirst) = n
    BY NewestFirstIs
  <2> HIDE DEF got
  <2>4. Kept(NewestFirst, 1..n) = NewestFirst
    BY <2>3, KeptIs
  <2> QED BY <1>1, <2>2, <2>3, <2>4, FirstNIs
<1> HIDE DEF got
<1>4. Reverse(published) \in Seq(1..traces) /\ Len(Reverse(published)) = N
      /\ \A i \in 1..N : Reverse(published)[i] = published[(N - i) + 1]
  <2>1. Reverse(published) = [i \in 1..N |-> published[(N - i) + 1]]
    BY DEF Reverse
  <2>2. \A i \in 1..N : (N - i) + 1 \in 1..N
    BY <1>1
  <2>3. \A i \in 1..N : published[(N - i) + 1] \in 1..traces
    BY <1>1, <2>2, ElementOfSeq
  <2>4. Reverse(published) \in [1..N -> 1..traces]
    BY <2>1, <2>3
  <2> QED BY <1>1, <2>1, <2>4
<1>5. /\ newest \in Seq(1..traces) /\ Len(newest) = n
      /\ \A i \in 1..n : i \in 1..N /\ newest[i] = Reverse(published)[i]
  <2>1. PICK u : u = Reverse(published)
    OBVIOUS
  <2>2. u \in Seq(1..traces) /\ Len(u) = N
    BY <1>4, <2>1
  <2> QED BY <1>1, <2>1, <2>2, FirstNIs
<1> HIDE DEF newest
<1>6. Len(got) = n /\ \A i \in 1..n : got[i].trace = published[N - i + 1]
  BY <1>3, NewestFirstIs
<1>7. \A i \in 1..n : newest[i] = got[i].trace
  BY <1>4, <1>5, <1>6
<1>8. newest = [i \in 1..Len(newest) |-> newest[i]]
  BY <1>5
<1>9. newest = [i \in 1..Len(got) |-> got[i].trace]
  BY <1>5, <1>6, <1>7, <1>8
<1> QED BY <1>2, <1>9 DEF RingKeepsNewest, got, newest

\* store_memory.go: however often the ring has wrapped, what Recent reads from
\* it is the newest records published, newest first, and none twice.
THEOREM RingNewest == Spec => []RingKeepsNewest
BY AccountingInvariant, InvNewest, PTL
-----------------------------------------------------------------------------
(* Traces *)

\* A trace is on one record only: no two places of the way to the table hold
\* records of one trace, the ring's record is the same as the one on its way,
\* and a request that has not published yet is on none of them.
TraceInv ==
    /\ \A x \in Known : x.trace <= traces
    /\ \A x \in Known, r \in Requests :
         req[r].pc \notin {"idle", "charging"} => x.trace # req[r].trace
    /\ \A x \in Known, y \in ToSet(ring.buf) : x.trace = y.trace => x = y
    /\ \A i, j \in 1..Len(stored) : stored[i].trace = stored[j].trace => i = j
    /\ \A i, j \in 1..Len(writes) : writes[i].trace = writes[j].trace => i = j
    /\ \A x \in ToSet(stored), y \in ToSet(writes) \cup ToSet(inHand) : x.trace # y.trace
    /\ \A x \in ToSet(writes), y \in ToSet(inHand) : x.trace # y.trace

\* What the invariant says of the records on their way.
LEMMA WayTypes ==
  ASSUME AccountingInv
  PROVE  /\ writes \in Seq(Records) /\ inHand \in Seq(Records) /\ stored \in Seq(Records)
         /\ ring.buf \in Seq(Records) /\ Known \subseteq Records /\ traces \in Nat
         /\ \A x \in Known : x.trace \in Nat
         /\ req \in [Requests -> States]
<1>1. /\ writes \in Seq(Records) /\ inHand \in Seq(Records) /\ stored \in Seq(Records)
      /\ ring.buf \in Seq(Records)
  BY DEF AccountingInv, UsageInv, RingInv, Rings
<1>2. traces \in Nat /\ req \in [Requests -> States]
  BY AccountingAssumption DEF AccountingInv, ReqInv
<1>3. Known \subseteq Records
  BY <1>1, ToSetFacts DEF Known
<1>4. \A x \in Records : x.trace \in Nat
  BY AccountingAssumption DEF Records
<1> QED BY <1>1, <1>2, <1>3, <1>4

\* A step that publishes and writes nothing, and gives out at most a new trace.
LEMMA TraceStill ==
  ASSUME AccountingInv, TraceInv, UNCHANGED <<ring, writes, inHand, stored>>,
         traces' \in Nat, traces <= traces',
         \A r \in Requests : req'[r].pc \notin {"idle", "charging"} =>
             \/ req[r].pc \notin {"idle", "charging"} /\ req'[r].trace = req[r].trace
             \/ req'[r].trace = traces + 1
  PROVE  TraceInv'
<1>1. Known' = Known /\ UNCHANGED ToSet(ring.buf) /\ UNCHANGED ToSet(stored)
      /\ UNCHANGED ToSet(writes) /\ UNCHANGED ToSet(inHand)
  BY DEF Known
<1>2. \A x \in Known : x.trace \in Nat /\ x.trace <= traces /\ traces \in Nat
  BY WayTypes DEF TraceInv
<1>3. \A x \in Known' : x.trace <= traces'
  BY <1>1, <1>2
<1>4. ASSUME NEW x \in Known', NEW r \in Requests, req'[r].pc \notin {"idle", "charging"}
      PROVE  x.trace # req'[r].trace
  <2>1. x \in Known
    BY <1>1
  <2>2. CASE req[r].pc \notin {"idle", "charging"} /\ req'[r].trace = req[r].trace
    BY <2>1, <2>2 DEF TraceInv
  <2>3. CASE req'[r].trace = traces + 1
    BY <1>2, <2>1, <2>3
  <2> QED BY <1>4, <2>2, <2>3
<1>5. \A x \in Known', y \in ToSet(ring.buf)' : x.trace = y.trace => x = y
  BY <1>1 DEF TraceInv
<1>6. /\ \A i, j \in 1..Len(stored') : stored'[i].trace = stored'[j].trace => i = j
      /\ \A i, j \in 1..Len(writes') : writes'[i].trace = writes'[j].trace => i = j
  BY DEF TraceInv
<1>7. /\ \A x \in ToSet(stored)', y \in ToSet(writes)' \cup ToSet(inHand)' : x.trace # y.trace
      /\ \A x \in ToSet(writes)', y \in ToSet(inHand)' : x.trace # y.trace
  BY <1>1 DEF TraceInv
<1> QED BY <1>3, <1>4, <1>5, <1>6, <1>7 DEF TraceInv

\* A record is published: its request was on no record before.
LEMMA TracePublish ==
  ASSUME AccountingInv, TraceInv, NEW r \in Requests, NEW status, NEW tokens, NEW where,
         PublishFor(r, status, tokens, where), req[r].pc \in {"auth", "legacy", "serving"},
         NEW q \in States, q.pc \in {"idle", "charging"}, req' = [req EXCEPT ![r] = q],
         AccountingInv', UNCHANGED traces
  PROVE  TraceInv'
<1>1. PICK rec : Publish(rec) /\ rec.trace = req[r].trace
  BY DEF PublishFor
<1>2. /\ writes \in Seq(Records) /\ inHand \in Seq(Records) /\ stored \in Seq(Records)
      /\ ring.buf \in Seq(Records) /\ Known \subseteq Records /\ traces \in Nat
      /\ \A x \in Known : x.trace \in Nat
      /\ req \in [Requests -> States]
  BY WayTypes
<1>3. /\ ring' = AppendRing(ring, rec) /\ UNCHANGED <<inHand, stored>>
      /\ \/ HasRoom /\ writes' = Append(writes, rec)
         \/ UNCHANGED writes
  BY <1>1 DEF Publish
<1>4. req[r].trace \in 1..traces /\ \A x \in Known : x.trace # req[r].trace
  BY DEF AccountingInv, ReqInv, TraceInv
<1>6. ToSet(ring.buf)' \subseteq ToSet(ring.buf) \cup {rec}
  <2>1. ring \in Rings
    BY DEF AccountingInv, RingInv
  <2>2. ring.buf' \in Seq(Records) /\ ring.buf' = (ring').buf
    BY WayTypes DEF AccountingInv, RingInv, Rings
  <2>3. ToSet(ring.buf)' = {ring'.buf[i] : i \in 1..Len(ring'.buf)}
    BY <2>2 DEF ToSet
  <2>4. ToSet(ring.buf) = {ring.buf[i] : i \in 1..Len(ring.buf)}
    BY <1>2, ToSetFacts
  <2>5. \A k \in 1..Len(ring'.buf) : ring'.buf[k] = rec \/ \E j \in 1..Len(ring.buf) : ring'.buf[k] = ring.buf[j]
    <3>1. CASE Len(ring.buf) < RingSize
      <4>1. ring'.buf = Append(ring.buf, rec)
        BY <1>3, <2>1, <3>1 DEF AppendRing, Rings
      <4> QED BY <1>2, <4>1, AppendProperties
    <3>2. CASE ~(Len(ring.buf) < RingSize)
      <4>1. ring'.buf = [ring.buf EXCEPT ![ring.head + 1] = rec]
        BY <1>3, <3>2 DEF AppendRing
      <4>2. DOMAIN ring.buf = 1..Len(ring.buf) /\ Len(ring.buf) \in Nat
        BY <1>2
      <4>3. DOMAIN ring'.buf = 1..Len(ring.buf)
        BY <4>1, <4>2
      <4>4. DOMAIN ring'.buf = 1..Len(ring'.buf)
        BY <2>2
      <4> QED BY <4>1, <4>2, <4>3, <4>4
    <3> QED BY <3>1, <3>2
  <2> QED BY <2>3, <2>4, <2>5
<1>7. /\ ToSet(writes)' \subseteq ToSet(writes) \cup {rec} /\ ToSet(inHand)' = ToSet(inHand)
      /\ ToSet(stored)' = ToSet(stored)
  <2>1. CASE writes' = Append(writes, rec)
    <3>1. writes' \in Seq(Records)
      BY DEF AccountingInv, UsageInv
    <3>2. Len(writes) + 1 \in 1..Len(writes') /\ writes'[Len(writes) + 1] = rec
      <4>1. PICK S : S = Records \cup {rec}
        OBVIOUS
      <4>2. writes \in Seq(S) /\ rec \in S
        BY <1>2, <4>1
      <4> QED BY <2>1, <4>2, AppendProperties
    <3>3. rec \in Records
      BY <3>1, <3>2, ElementOfSeq
    <3>4. ToSet(writes') = ToSet(writes) \cup {rec}
      BY <1>2, <2>1, <3>3, ToSetFacts
    <3> QED BY <1>3, <3>4
  <2>2. CASE UNCHANGED writes
    BY <1>3, <2>2
  <2> QED BY <1>3, <2>1, <2>2
<1>8. Known' \subseteq Known \cup {rec}
  BY <1>7 DEF Known
<1>9. \A x \in Known' : x.trace <= traces'
  BY <1>1, <1>4, <1>8 DEF TraceInv
<1>10. ASSUME NEW x \in Known', NEW p \in Requests, req'[p].pc \notin {"idle", "charging"}
       PROVE  x.trace # req'[p].trace
  <2>1. p # r /\ req'[p] = req[p]
    BY <1>2, <1>10
  <2>2. x = rec => x.trace # req[p].trace
    BY <1>1, <1>10, <2>1 DEF AccountingInv, ReqInv
  <2>3. x \in Known => x.trace # req[p].trace
    BY <1>10, <2>1 DEF TraceInv
  <2> QED BY <1>8, <2>1, <2>2, <2>3
<1>11. ASSUME NEW x \in Known', NEW y \in ToSet(ring.buf)', x.trace = y.trace
       PROVE  x = y
  <2>1. CASE x = rec /\ y # rec
    <3>1. y \in ToSet(ring.buf)
      BY <1>6, <2>1
    <3>3. \E j \in 1..Len(ring.buf) : y = NewestFirst[j]
      <4>1. ToSet(NewestFirst) = ToSet(ring.buf) /\ NewestFirst \in Seq(Records)
            /\ Len(NewestFirst) = Len(ring.buf)
        BY NewestFirstIs
      <4> QED BY <3>1, <4>1, ToSetFacts
    <3>4. \E j \in 1..Len(published) : y.trace = published[j]
      BY <3>3, NewestFirstIs
    <3>5. \A j \in 1..Len(published) : published[j] # req[r].trace
      BY DEF AccountingInv, ReqInv
    <3> QED BY <1>1, <1>11, <2>1, <3>4, <3>5
  <2>2. CASE x # rec /\ y = rec
    BY <1>1, <1>4, <1>8, <1>11, <2>2
  <2>3. CASE x # rec /\ y # rec
    BY <1>6, <1>8, <1>11, <2>3 DEF TraceInv
  <2> QED BY <2>1, <2>2, <2>3
<1>12. \A i, j \in 1..Len(stored') : stored'[i].trace = stored'[j].trace => i = j
  BY <1>3 DEF TraceInv
<1>13. \A i, j \in 1..Len(writes') : writes'[i].trace = writes'[j].trace => i = j
  <2>1. CASE writes' = Append(writes, rec)
    <3>1. PICK S : S = Records \cup {rec}
      OBVIOUS
    <3>2. writes \in Seq(S) /\ rec \in S
      BY <1>2, <3>1
    <3>3. /\ Len(writes) \in Nat /\ Len(writes') = Len(writes) + 1 /\ writes'[Len(writes) + 1] = rec
          /\ \A k \in 1..Len(writes) : writes'[k] = writes[k]
      BY <2>1, <3>2, AppendProperties
    <3>4. \A k \in 1..Len(writes) : writes[k].trace # rec.trace
      BY <1>1, <1>2, <1>4, ToSetFacts DEF Known
    <3>5. \A k \in 1..Len(writes') : k = Len(writes) + 1 \/ k \in 1..Len(writes)
      BY <3>3
    <3>6. \A i, j \in 1..Len(writes) : writes[i].trace = writes[j].trace => i = j
      BY DEF TraceInv
    <3> SUFFICES ASSUME NEW i \in 1..Len(writes'), NEW j \in 1..Len(writes'),
                        writes'[i].trace = writes'[j].trace
                 PROVE  i = j
      OBVIOUS
    <3> QED BY <3>3, <3>4, <3>5, <3>6
  <2>2. CASE UNCHANGED writes
    BY <2>2 DEF TraceInv
  <2> QED BY <1>3, <2>1, <2>2
<1>14. ASSUME NEW x \in ToSet(stored)', NEW y \in ToSet(writes)' \cup ToSet(inHand)'
       PROVE  x.trace # y.trace
  <2>1. x \in ToSet(stored) /\ x \in Known
    BY <1>7 DEF Known
  <2> QED BY <1>1, <1>4, <1>7, <2>1 DEF TraceInv
<1>15. ASSUME NEW x \in ToSet(writes)', NEW y \in ToSet(inHand)'
       PROVE  x.trace # y.trace
  <2>1. y \in ToSet(inHand) /\ y \in Known
    BY <1>7 DEF Known
  <2> QED BY <1>1, <1>4, <1>7, <2>1 DEF TraceInv
<1> QED BY <1>9, <1>10, <1>11, <1>12, <1>13, <1>14, <1>15 DEF TraceInv

\* runWriter moves a record on its way, or drops it.
LEMMA TraceWriter ==
  ASSUME AccountingInv, TraceInv, Take \/ Write
  PROVE  TraceInv'
<1>1. /\ writes \in Seq(Records) /\ inHand \in Seq(Records) /\ stored \in Seq(Records)
      /\ ring.buf \in Seq(Records) /\ Known \subseteq Records
  BY WayTypes
<1>2. UNCHANGED <<ring, req, traces>>
  BY DEF Take, Write, WriterTakes, WriterAppends
<1>3. /\ \A i, j \in 1..Len(stored) : stored[i].trace = stored[j].trace => i = j
      /\ \A i, j \in 1..Len(writes) : writes[i].trace = writes[j].trace => i = j
      /\ \A x \in ToSet(stored), y \in ToSet(writes) \cup ToSet(inHand) : x.trace # y.trace
      /\ \A x \in ToSet(writes), y \in ToSet(inHand) : x.trace # y.trace
  BY DEF TraceInv
<1>4. SUFFICES /\ Known' \subseteq Known
               /\ \A i, j \in 1..Len(stored') : stored'[i].trace = stored'[j].trace => i = j
               /\ \A i, j \in 1..Len(writes') : writes'[i].trace = writes'[j].trace => i = j
               /\ \A x \in ToSet(stored)', y \in ToSet(writes)' \cup ToSet(inHand)' : x.trace # y.trace
               /\ \A x \in ToSet(writes)', y \in ToSet(inHand)' : x.trace # y.trace
  BY <1>2 DEF TraceInv
<1>5. CASE Take
  <2> DEFINE x == Head(writes)
             t == Tail(writes)
  <2>1. writes # <<>> /\ inHand' = <<x>> /\ writes' = t /\ stored' = stored
    BY <1>5 DEF Take, WriterTakes
  <2>2. /\ Len(writes) \in Nat /\ Len(writes) > 0 /\ Len(t) = Len(writes) - 1 /\ t \in Seq(Records)
        /\ x = writes[1] /\ \A k \in 1..Len(t) : t[k] = writes[k + 1]
    BY <1>1, <2>1, HeadTailProperties
  <2> HIDE DEF x, t
  <2>3. \A k \in 1..Len(t) : k + 1 \in 1..Len(writes) /\ k + 1 # 1
    BY <2>2
  <2>4. ToSet(writes) = {x} \cup ToSet(t) /\ ToSet(inHand') = {x}
    BY <1>1, <2>1, ToSetFacts DEF x, t
  <2>5. Known' \subseteq Known
    BY <2>1, <2>4 DEF Known
  <2>6. ASSUME NEW i \in 1..Len(t), NEW j \in 1..Len(t), t[i].trace = t[j].trace PROVE i = j
    <3>1. i + 1 = j + 1
      BY <1>3, <2>2, <2>3, <2>6
    <3> QED BY <2>2, <3>1
  <2>7. ASSUME NEW y \in ToSet(t) PROVE y.trace # x.trace
    <3>1. PICK k \in 1..Len(t) : y = t[k]
      BY <2>2, ToSetFacts
    <3>2. 1 \in 1..Len(writes)
      BY <2>2
    <3>3. y = writes[k + 1] /\ k + 1 \in 1..Len(writes) /\ k + 1 # 1
      BY <2>2, <2>3, <3>1
    <3> QED BY <1>3, <2>2, <3>2, <3>3
  <2> QED BY <1>3, <2>1, <2>4, <2>5, <2>6, <2>7
<1>6. CASE Write
  <2>1. /\ writer = "appending" /\ inHand' = <<>> /\ UNCHANGED writes
        /\ stored' = stored \o inHand \/ UNCHANGED stored
    BY <1>6 DEF Write, WriterAppends
  <2>2. ToSet(inHand') = {}
    BY <2>1, ToSetFacts
  <2>3. CASE UNCHANGED stored
    <3>1. Known' \subseteq Known
      BY <2>1, <2>2, <2>3 DEF Known
    <3> QED BY <1>3, <2>1, <2>2, <2>3, <3>1
  <2>4. CASE stored' = stored \o inHand
    <3>1. ToSet(stored') = ToSet(stored) \cup ToSet(inHand)
      BY <1>1, <2>4, ToSetFacts
    <3>2. Known' \subseteq Known
      BY <2>1, <2>2, <3>1 DEF Known
    <3>3. Len(inHand) = 1 /\ Len(stored) \in Nat
      BY <1>1, <2>1 DEF AccountingInv, UsageInv
    <3>4. /\ Len(stored') = Len(stored) + 1 /\ stored'[Len(stored) + 1] = inHand[1]
          /\ \A k \in 1..Len(stored) : stored'[k] = stored[k]
      <4>1. /\ Len(stored') = Len(stored) + Len(inHand)
            /\ \A k \in 1..Len(stored') : stored'[k] = IF k <= Len(stored) THEN stored[k]
                                                       ELSE inHand[k - Len(stored)]
        BY <1>1, <2>4, ConcatProperties
      <4>2. Len(stored) + 1 \in 1..Len(stored') /\ ~(Len(stored) + 1 <= Len(stored))
            /\ (Len(stored) + 1) - Len(stored) = 1
        BY <3>3, <4>1
      <4>3. \A k \in 1..Len(stored) : k \in 1..Len(stored') /\ k <= Len(stored)
        BY <3>3, <4>1
      <4> QED BY <3>3, <4>1, <4>2, <4>3
    <3>5. \A k \in 1..Len(stored) : stored[k].trace # inHand[1].trace
      <4>1. inHand[1] \in ToSet(inHand)
        BY <1>1, <3>3, ToSetFacts
      <4>2. \A k \in 1..Len(stored) : stored[k] \in ToSet(stored)
        BY <1>1, ToSetFacts
      <4> QED BY <1>3, <4>1, <4>2
    <3>6. \A k \in 1..Len(stored') : k = Len(stored) + 1 \/ k \in 1..Len(stored)
      BY <3>3, <3>4
    <3>7. ASSUME NEW i \in 1..Len(stored'), NEW j \in 1..Len(stored'), stored'[i].trace = stored'[j].trace
          PROVE  i = j
      BY <1>3, <3>4, <3>5, <3>6, <3>7
    <3>8. \A x \in ToSet(stored'), y \in ToSet(writes) : x.trace # y.trace
      BY <1>3, <3>1
    <3> QED BY <1>3, <2>1, <2>2, <3>2, <3>7, <3>8
  <2> QED BY <2>1, <2>3, <2>4
<1> QED BY <1>5, <1>6

\* The process is gone: what is stored stays.
LEMMA TraceGone ==
  ASSUME AccountingInv, TraceInv, Gone, UNCHANGED traces
  PROVE  TraceInv'
<1>1. /\ ring' = EmptyRing /\ writes' = <<>> /\ inHand' = <<>> /\ UNCHANGED <<stored, traces>>
      /\ req' = [r \in Requests |-> Idle]
  BY DEF Gone, UsageDown
<1>2. ToSet(writes)' = {} /\ ToSet(inHand)' = {} /\ ToSet(ring.buf)' = {} /\ Len(writes') = 0
      /\ ToSet(stored)' = ToSet(stored)
  <2>1. ring'.buf = <<>>
    BY <1>1 DEF EmptyRing
  <2> QED BY <1>1, <2>1, ToSetFacts
<1>3. Known' \subseteq Known
  BY <1>2 DEF Known
<1>4. \A r \in Requests : req'[r].pc = "idle"
  BY <1>1, IdleOK
<1>5. 1..Len(writes') = {}
  BY <1>2
<1>6. \A x \in Known' : x.trace <= traces'
  BY <1>1, <1>3 DEF TraceInv
<1>7. \A i, j \in 1..Len(stored') : stored'[i].trace = stored'[j].trace => i = j
  BY <1>1 DEF TraceInv
<1> QED BY <1>2, <1>4, <1>5, <1>6, <1>7 DEF TraceInv

\* Every step keeps traces apart.
LEMMA NextTrace ==
  ASSUME AccountingInv, TraceInv, [Next]_vars, AccountingInv'
  PROVE  TraceInv'
<1> DEFINE Quiet == UNCHANGED <<ring, writes, inHand, stored>>
<1>1. traces \in Nat /\ req \in [Requests -> States] /\ Idle \in States /\ Idle.pc = "idle"
  BY WayTypes, IdleOK
<1>2. ASSUME Quiet, UNCHANGED <<req, traces>> PROVE TraceInv'
  BY <1>1, <1>2, TraceStill
<1>3. ASSUME NEW r \in Requests, Arrive(r) PROVE TraceInv'
  <2>1. Quiet /\ traces' = traces + 1
    BY <1>3 DEF Arrive, usageVars
  <2>2. \E q : q.trace = traces + 1 /\ req' = [req EXCEPT ![r] = q]
    <3>1. PICK pc, start :
            req' = [req EXCEPT ![r] = [Idle EXCEPT !.pc = pc, !.start = start, !.trace = traces + 1]]
      BY <1>3 DEF Arrive
    <3> DEFINE q == [Idle EXCEPT !.pc = pc, !.start = start, !.trace = traces + 1]
    <3>2. q.trace = traces + 1
      BY DEF Idle
    <3>3. req' = [req EXCEPT ![r] = q]
      BY <3>1
    <3> HIDE DEF q
    <3> QED BY <3>2, <3>3
  <2>3. PICK q : q.trace = traces + 1 /\ req' = [req EXCEPT ![r] = q]
    BY <2>2
  <2>4. req'[r] = q /\ \A p \in Requests : p # r => req'[p] = req[p]
    BY <1>1, <2>3
  <2> QED BY <1>1, <2>1, <2>3, <2>4, TraceStill
<1>4. ASSUME NEW r \in Requests, AuthLegacy(r) \/ \E s \in Secrets : Auth(r, s) PROVE TraceInv'
  <2>1. Quiet /\ UNCHANGED traces /\ req[r].pc \in {"auth", "legacy"}
    BY <1>4 DEF AuthLegacy, Auth, usageVars
  <2>2. req'[r].trace = req[r].trace /\ \A p \in Requests : p # r => req'[p] = req[p]
    <3>1. CASE AuthLegacy(r)
      BY <1>1, <3>1 DEF AuthLegacy, States
    <3>2. CASE \E s \in Secrets : Auth(r, s)
      <4>1. PICK id : req' = [req EXCEPT ![r].pc = "serving", ![r].key = id, ![r].start = now]
        BY <3>2 DEF Auth
      <4> QED BY <1>1, <4>1 DEF States
    <3> QED BY <1>4, <3>1, <3>2
  <2>3. \A p \in Requests : req'[p].pc \notin {"idle", "charging"} =>
            req[p].pc \notin {"idle", "charging"} /\ req'[p].trace = req[p].trace
    BY <2>1, <2>2
  <2> QED BY <1>1, <2>1, <2>3, TraceStill
<1>5. ASSUME NEW r \in Requests, NEW s, Reject(r, s) PROVE TraceInv'
  <2>1. PICK verdict : PublishFor(r, RejectStatus(verdict), 0, "auth")
    BY <1>5 DEF Reject
  <2>2. req[r].pc \in {"auth", "legacy"} /\ req' = [req EXCEPT ![r] = Idle] /\ UNCHANGED traces
    BY <1>5 DEF Reject, Ends
  <2> QED BY <1>1, <2>1, <2>2, TracePublish
<1>6. ASSUME NEW r \in Requests, NEW status, ReturnEarly(r, status) PROVE TraceInv'
  <2>1. /\ PublishFor(r, status, 0, "early") /\ req[r].pc = "serving"
        /\ req' = [req EXCEPT ![r] = Idle] /\ UNCHANGED traces
    BY <1>6 DEF ReturnEarly, Ends
  <2> QED BY <1>1, <2>1, TracePublish
<1>7. ASSUME NEW r \in Requests, NEW a \in Answers, RecordMetric(r, a.status, a.tokens) PROVE TraceInv'
  <2>1. /\ PublishFor(r, a.status, a.tokens, "served") /\ req[r].pc = "serving" /\ UNCHANGED traces
    BY <1>7 DEF RecordMetric
  <2>2. CASE Charges(r, a.status, a.tokens)
    <3>1. PICK n \in 0..MaxTokens : n = a.tokens
      BY AccountingAssumption
    <3> DEFINE q == [req[r] EXCEPT !.pc = "charging", !.tokens = n]
    <3>2. req' = [req EXCEPT ![r] = q]
      BY <1>1, <1>7, <2>2, <3>1 DEF RecordMetric
    <3>3. q \in States /\ q.pc = "charging"
      BY <1>1 DEF States
    <3> HIDE DEF q
    <3> QED BY <2>1, <3>2, <3>3, TracePublish
  <2>3. CASE ~Charges(r, a.status, a.tokens)
    <3>1. req' = [req EXCEPT ![r] = Idle]
      BY <1>7, <2>3 DEF RecordMetric, Ends
    <3> QED BY <1>1, <2>1, <3>1, TracePublish
  <2> QED BY <2>2, <2>3
<1>8. ASSUME NEW r \in Requests, NEW outcome, Charge(r, outcome) PROVE TraceInv'
  <2>1. Quiet /\ UNCHANGED traces /\ req' = [req EXCEPT ![r] = Idle]
    BY <1>8 DEF Charge, Ends, usageVars
  <2>2. \A p \in Requests : req'[p].pc \notin {"idle", "charging"} => req'[p] = req[p]
    BY <1>1, <2>1
  <2> QED BY <1>1, <2>1, <2>2, TraceStill
<1>9. CASE Operator \/ Start \/ Stop \/ CloseAggregator \/ CloseUsage \/ Tick \/ Finish \/ UNCHANGED vars
  <2>1. Quiet /\ UNCHANGED <<req, traces>>
    BY <1>9 DEF Operator, Start, NewAggregator, Stop, CloseAggregator, CloseChannel, CloseUsage,
                CloseStore, Tick, Finish, WriterEnds, vars, usageVars
  <2> QED BY <1>2, <2>1
<1>10. CASE Exit \/ Crash
  <2>1. Gone /\ UNCHANGED traces
    BY <1>10 DEF Exit, Crash
  <2> QED BY <2>1, TraceGone
<1>11. CASE Take \/ Write
  BY <1>11, TraceWriter
<1> QED
  BY <1>3, <1>4, <1>5, <1>6, <1>7, <1>8, <1>9, <1>10, <1>11 DEF Next

\* aggregator.go, handler.go: through restarts and failed appends a trace is on
\* one record only, wherever that record has got to.
THEOREM TracesApart == Spec => []TraceInv
<1>1. Init => TraceInv
  <2> SUFFICES ASSUME Init PROVE TraceInv
    OBVIOUS
  <2>1. writes = <<>> /\ inHand = <<>> /\ stored = <<>>
    BY DEF Init, UsageInit
  <2>2. ToSet(writes) = {} /\ ToSet(inHand) = {} /\ ToSet(stored) = {} /\ Known = {}
    BY <2>1, ToSetFacts DEF Known
  <2>3. Len(stored) = 0 /\ Len(writes) = 0
    BY <2>1
  <2>4. 1..Len(stored) = {} /\ 1..Len(writes) = {}
    BY <2>3
  <2> QED BY <2>2, <2>4 DEF TraceInv
<1>2. AccountingInv /\ AccountingInv' /\ TraceInv /\ [Next]_vars => TraceInv'
  BY NextTrace
<1> QED BY <1>1, <1>2, AccountingInvariant, PTL DEF Spec
-----------------------------------------------------------------------------
(* Lists of records without duplicates *)

Distinct(s) == \A i, j \in 1..Len(s) : s[i].trace = s[j].trace => i = j

\* A list of at most limit of the records found, and of all of them if it is
\* shorter than that.
IsAnswer(out, found, limit) ==
    /\ out \in Seq(Records) /\ Len(out) <= limit
    /\ Distinct(out)
    /\ ToSet(out) \subseteq found
    /\ Len(out) < limit => ToSet(out) = found

\* A selection takes no record twice.
LEMMA Selected ==
  ASSUME NEW s \in Seq(Records), NEW I \in SUBSET (1..Len(s)), NEW t \in Seq(Records),
         Cardinality(I) = Len(t), Places(t, s, I), Distinct(s)
  PROVE  Distinct(t) /\ ToSet(t) = {s[i] : i \in I}
<1>1. PICK at \in [1..Len(t) -> I] :
        /\ \A k \in 1..Len(t) : t[k] = s[at[k]]
        /\ \A i \in I : \E k \in 1..Len(t) : at[k] = i
        /\ \A k, m \in 1..Len(t) : at[k] = at[m] => k = m
  BY DEF Places
<1>2. \A k \in 1..Len(t) : at[k] \in I /\ at[k] \in 1..Len(s)
  BY <1>1
<1>3. Distinct(t)
  <2> SUFFICES ASSUME NEW k \in 1..Len(t), NEW m \in 1..Len(t), t[k].trace = t[m].trace PROVE k = m
    BY DEF Distinct
  <2>1. at[k] = at[m]
    BY <1>1, <1>2 DEF Distinct
  <2> QED BY <1>1, <2>1
<1>4. ToSet(t) = {t[k] : k \in 1..Len(t)}
  BY ToSetFacts
<1>5. ASSUME NEW x \in ToSet(t) PROVE x \in {s[i] : i \in I}
  <2>1. PICK k \in 1..Len(t) : x = t[k]
    BY <1>4
  <2> QED BY <1>1, <1>2, <2>1
<1>6. ASSUME NEW i \in I PROVE s[i] \in ToSet(t)
  <2>1. PICK k \in 1..Len(t) : at[k] = i
    BY <1>1
  <2> QED BY <1>1, <1>4, <2>1
<1> QED BY <1>3, <1>5, <1>6

\* How many positions a list has.
LEMMA UpToCount == \A n \in Nat : IsFiniteSet(1..n) /\ Cardinality(1..n) = n
BY FS_Interval

\* The head of a list of all records found is an answer.
LEMMA HeadAnswers ==
  ASSUME NEW s \in Seq(Records), Distinct(s), NEW limit \in Nat, NEW found, ToSet(s) = found
  PROVE  IsAnswer(FirstN(s, limit), found, limit)
<1>1. PICK t : t = FirstN(s, limit)
  OBVIOUS
<1>2. /\ t \in Seq(Records) /\ Len(t) = (IF Len(s) < limit THEN Len(s) ELSE limit)
      /\ \A k \in 1..Len(t) : k \in 1..Len(s) /\ t[k] = s[k]
      /\ Len(s) <= limit => t = s
  BY <1>1, FirstNIs
<1>3. Len(s) \in Nat /\ Len(t) <= limit /\ (Len(t) < limit => Len(s) <= limit)
  BY <1>2
<1>4. Distinct(t)
  BY <1>2 DEF Distinct
<1>5. ToSet(t) \subseteq found
  <2>1. ToSet(t) = {t[k] : k \in 1..Len(t)} /\ ToSet(s) = {s[k] : k \in 1..Len(s)}
    BY <1>2, ToSetFacts
  <2>2. ASSUME NEW x \in ToSet(t) PROVE x \in ToSet(s)
    <3>1. PICK k \in 1..Len(t) : x = t[k]
      BY <2>1
    <3> QED BY <1>2, <2>1, <3>1
  <2> QED BY <2>2
<1> QED BY <1>1, <1>2, <1>3, <1>4, <1>5 DEF IsAnswer

\* MemoryStore.Recent.
LEMMA MemoryRecentIs ==
  ASSUME AccountingInv, NEW filter, NEW limit \in Nat
  PROVE  IsAnswer(MemoryRecent(ring, filter, limit),
                  {x \in ToSet(ring.buf) : matchFilter(x, filter)}, limit)
<1> DEFINE n == Len(ring.buf)
           I == {i \in 1..n : matchFilter(NewestFirst[i], filter)}
           found == {x \in ToSet(ring.buf) : matchFilter(x, filter)}
<1>1. PICK s : s = NewestFirst
  OBVIOUS
<1>2. s \in Seq(Records) /\ Len(s) = n /\ ToSet(s) = ToSet(ring.buf) /\ Distinct(s)
  BY <1>1, NewestFirstIs DEF Distinct
<1>3. I \in SUBSET (1..Len(s)) /\ I = {i \in 1..n : matchFilter(s[i], filter)}
  BY <1>1, <1>2
<1>4. MemoryRecent(ring, filter, limit) = FirstN(Kept(s, I), limit)
  BY <1>1 DEF MemoryRecent, NewestFirst
<1>5. PICK t : t = Kept(s, I)
  OBVIOUS
<1> HIDE DEF I
<1>6. t \in Seq(Records) /\ Len(t) = Cardinality(I) /\ Places(t, s, I)
  BY <1>2, <1>3, <1>5, KeptIs
<1>7. Distinct(t) /\ ToSet(t) = {s[i] : i \in I}
  BY <1>2, <1>3, <1>6, Selected
<1>8. ToSet(t) = found
  <2>1. ToSet(s) = {s[i] : i \in 1..n}
    BY <1>2, ToSetFacts
  <2>2. ASSUME NEW x \in ToSet(t) PROVE x \in found
    <3>1. PICK i \in I : x = s[i]
      BY <1>7
    <3> QED BY <1>2, <1>3, <2>1, <3>1
  <2>3. ASSUME NEW x \in found PROVE x \in ToSet(t)
    <3>1. x \in ToSet(s) /\ matchFilter(x, filter)
      BY <1>2
    <3>2. PICK i \in 1..n : x = s[i]
      BY <2>1, <3>1
    <3>3. i \in I
      BY <1>3, <3>1, <3>2
    <3> QED BY <1>7, <3>2, <3>3
  <2> QED BY <2>2, <2>3
<1> HIDE DEF found
<1>9. IsAnswer(FirstN(t, limit), found, limit)
  BY <1>6, <1>7, <1>8, HeadAnswers
<1> QED BY <1>4, <1>5, <1>9 DEF found

\* PostgresStore.Recent: the rows are in order of time, those of one time in
\* one of their orders.
LEMMA PostgresRecentIs ==
  ASSUME AccountingInv, TraceInv, NEW filter, NEW limit \in Nat
  PROVE  IsAnswer(PostgresRecent(filter, limit),
                  {x \in ToSet(stored) : matchFilter(x, filter)}, limit)
<1> DEFINE rows == {i \in 1..Len(stored) : matchFilter(stored[i], filter)}
           Later(i, j) == stored[i].ts > stored[j].ts \/ (stored[i].ts = stored[j].ts /\ i > j)
           before == [i \in rows |-> {j \in rows : Later(j, i)}]
           at == Ordered(rows, before)
           n == Cardinality(rows)
           t == [k \in 1..n |-> stored[at[k]]]
           found == {x \in ToSet(stored) : matchFilter(x, filter)}
<1>1. stored \in Seq(Records) /\ Len(stored) \in Nat /\ Distinct(stored)
  BY WayTypes DEF TraceInv, Distinct
<1>2. PostgresRecent(filter, limit) = FirstN(t, limit)
  BY DEF PostgresRecent
<1>3. rows \in SUBSET (1..Len(stored)) /\ IsFiniteSet(rows)
  <2>1. IsFiniteSet(1..Len(stored))
    BY <1>1, FS_Interval
  <2> QED BY <2>1, FS_Subset
<1>4. \A i \in rows : i \in Int /\ stored[i].ts \in Int
  BY <1>1, ElementOfSeq, RecordTypes
<1>5. rows = {i \in 1..Len(stored) : matchFilter(stored[i], filter)}
  OBVIOUS
<1> HIDE DEF rows
<1>6. before \in [rows -> SUBSET rows]
  OBVIOUS
<1>7. /\ \A i \in rows : i \notin before[i]
      /\ \A i, j \in rows : i # j => i \in before[j] \/ j \in before[i]
      /\ \A i, j \in rows : i \in before[j] => before[i] \subseteq before[j]
  <2>1. \A i, j \in rows : j \in before[i] <=>
            stored[j].ts > stored[i].ts \/ (stored[j].ts = stored[i].ts /\ j > i)
    OBVIOUS
  <2>2. \A i \in rows : before[i] \subseteq rows
    OBVIOUS
  <2> HIDE DEF before
  <2>3. \A i \in rows : i \notin before[i]
    BY <1>4, <2>1
  <2>4. ASSUME NEW i \in rows, NEW j \in rows, i # j PROVE i \in before[j] \/ j \in before[i]
    <3>1. stored[i].ts \in Int /\ stored[j].ts \in Int /\ i \in Int /\ j \in Int
      BY <1>4
    <3> QED BY <2>1, <2>4, <3>1
  <2>5. ASSUME NEW i \in rows, NEW j \in rows, i \in before[j], NEW k \in before[i]
        PROVE  k \in before[j]
    <3>1. k \in rows
      BY <2>2
    <3>2. /\ stored[i].ts > stored[j].ts \/ (stored[i].ts = stored[j].ts /\ i > j)
          /\ stored[k].ts > stored[i].ts \/ (stored[k].ts = stored[i].ts /\ k > i)
      BY <2>1, <2>5, <3>1
    <3>3. stored[i].ts \in Int /\ stored[j].ts \in Int /\ stored[k].ts \in Int
          /\ i \in Int /\ j \in Int /\ k \in Int
      BY <1>4, <3>1
    <3>4. stored[k].ts > stored[j].ts \/ (stored[k].ts = stored[j].ts /\ k > j)
      BY <3>2, <3>3
    <3> QED BY <2>1, <3>1, <3>4
  <2> QED BY <2>3, <2>4, <2>5
<1> HIDE DEF before
<1>8. /\ n \in Nat /\ at \in [1..n -> rows]
      /\ \A k \in 1..n : Cardinality(before[at[k]]) = k - 1
      /\ \A i \in rows : \E k \in 1..n : at[k] = i
  <2>1. PICK I, b : I = rows /\ b = before
    OBVIOUS
  <2>2. /\ IsFiniteSet(I) /\ b \in [I -> SUBSET I]
        /\ \A i \in I : i \notin b[i]
        /\ \A i, j \in I : i # j => i \in b[j] \/ j \in b[i]
        /\ \A i, j \in I : i \in b[j] => b[i] \subseteq b[j]
    BY <1>3, <1>6, <1>7, <2>1
  <2>3. /\ Cardinality(I) \in Nat
        /\ Ordered(I, b) \in [1..Cardinality(I) -> I]
        /\ \A k \in 1..Cardinality(I) : Cardinality(b[Ordered(I, b)[k]]) = k - 1
        /\ \A i \in I : \E k \in 1..Cardinality(I) : Ordered(I, b)[k] = i
    BY ONLY <2>2, OrderedIs
  <2> QED BY <2>1, <2>3
<1> HIDE DEF at
<1>9. ASSUME NEW k \in 1..n, NEW m \in 1..n, at[k] = at[m] PROVE k = m
  <2>1. k - 1 = m - 1
    BY <1>8, <1>9
  <2> QED BY <1>8, <2>1
<1>10. Places(t, stored, rows)
  BY <1>8, <1>9 DEF Places
<1>11. t \in Seq(Records) /\ Len(t) = n
  <2>1. \A k \in 1..n : stored[at[k]] \in Records
    BY <1>1, <1>3, <1>8, ElementOfSeq
  <2>2. t \in [1..n -> Records]
    BY <2>1
  <2> QED BY <1>8, <2>2
<1> HIDE DEF t
<1>12. Distinct(t) /\ ToSet(t) = {stored[i] : i \in rows}
  BY <1>1, <1>3, <1>10, <1>11, Selected
<1>13. ToSet(t) = found
  <2>1. ToSet(stored) = {stored[i] : i \in 1..Len(stored)}
    BY <1>1, ToSetFacts
  <2>2. ASSUME NEW x \in ToSet(t) PROVE x \in found
    <3>1. PICK i \in rows : x = stored[i]
      BY <1>12
    <3> QED BY <1>5, <2>1, <3>1
  <2>3. ASSUME NEW x \in found PROVE x \in ToSet(t)
    <3>1. PICK i \in 1..Len(stored) : x = stored[i]
      BY <2>1
    <3>2. i \in rows
      BY <1>5, <3>1
    <3> QED BY <1>12, <3>1, <3>2
  <2> QED BY <2>2, <2>3
<1> HIDE DEF found
<1>14. IsAnswer(FirstN(t, limit), found, limit)
  BY <1>11, <1>12, <1>13, HeadAnswers
<1> QED BY <1>2, <1>14 DEF found

\* DefaultAggregator.Recent: an answer of the table fills up a short answer of
\* the ring.  If the table's answer was cut at the limit, it had more records
\* that are new than there was room for.
LEMMA SupplementIs ==
  ASSUME NEW limit \in Nat, NEW A, NEW B, NEW out, NEW more,
         IsAnswer(out, A, limit), IsAnswer(more, B, limit), Len(out) < limit,
         \A x \in A, y \in B : x.trace = y.trace => x = y
  PROVE  IsAnswer(Supplement(out, more, limit), A \cup B, limit)
<1> DEFINE new == {k \in 1..Len(more) : \A i \in 1..Len(out) : out[i].trace # more[k].trace}
<1>1. /\ out \in Seq(Records) /\ more \in Seq(Records) /\ Len(out) \in Nat /\ Len(more) \in Nat
      /\ Distinct(out) /\ Distinct(more) /\ ToSet(out) = A /\ ToSet(more) \subseteq B
      /\ Len(more) <= limit /\ (Len(more) < limit => ToSet(more) = B)
  BY DEF IsAnswer
<1>2. new \in SUBSET (1..Len(more)) /\ \A k \in 1..Len(more) :
        k \in new <=> \A i \in 1..Len(out) : out[i].trace # more[k].trace
  OBVIOUS
<1>3. PICK t : t = Kept(more, new)
  OBVIOUS
<1>4. Supplement(out, more, limit) = FirstN(out \o t, limit)
  BY <1>3 DEF Supplement
<1> HIDE DEF new
<1>5. t \in Seq(Records) /\ Len(t) = Cardinality(new) /\ Places(t, more, new)
  BY <1>1, <1>2, <1>3, KeptIs
<1>6. Distinct(t) /\ ToSet(t) = {more[k] : k \in new}
  BY <1>1, <1>2, <1>5, Selected
<1>7. PICK u : u = out \o t
  OBVIOUS
<1>8. /\ u \in Seq(Records) /\ Len(u) = Len(out) + Len(t) /\ Len(t) \in Nat
      /\ \A k \in 1..Len(u) : u[k] = IF k <= Len(out) THEN out[k] ELSE t[k - Len(out)]
      /\ ToSet(u) = ToSet(out) \cup ToSet(t)
  <2>1. ToSet(u) = ToSet(out) \cup ToSet(t)
    BY <1>1, <1>5, <1>7, ToSetFacts
  <2>2. /\ u \in Seq(Records) /\ Len(u) = Len(out) + Len(t)
        /\ \A k \in 1..Len(u) : u[k] = IF k <= Len(out) THEN out[k] ELSE t[k - Len(out)]
    <3>1. out \in Seq(Records) /\ t \in Seq(Records)
      BY <1>1, <1>5
    <3>2. out \o t \in Seq(Records) /\ Len(out \o t) = Len(out) + Len(t)
          /\ \A k \in 1..Len(out) + Len(t) :
               (out \o t)[k] = IF k <= Len(out) THEN out[k] ELSE t[k - Len(out)]
      BY ONLY <3>1, ConcatProperties
    <3> QED BY ONLY <1>7, <3>2
  <2>3. Len(t) \in Nat
    BY <1>5
  <2> QED BY <2>1, <2>2, <2>3
<1>9. \A i \in 1..Len(out), k \in 1..Len(t) : out[i].trace # t[k].trace
  <2> SUFFICES ASSUME NEW i \in 1..Len(out), NEW k \in 1..Len(t) PROVE out[i].trace # t[k].trace
    OBVIOUS
  <2>1. t[k] \in ToSet(t)
    BY <1>5, ToSetFacts
  <2>2. PICK m \in new : t[k] = more[m]
    BY <1>6, <2>1
  <2> QED BY <1>2, <2>2
<1>10. Distinct(u)
  <2> SUFFICES ASSUME NEW i \in 1..Len(u), NEW j \in 1..Len(u), u[i].trace = u[j].trace PROVE i = j
    BY DEF Distinct
  <2>1. ASSUME NEW k \in 1..Len(u)
        PROVE  \/ k \in 1..Len(out) /\ u[k] = out[k]
               \/ k - Len(out) \in 1..Len(t) /\ u[k] = t[k - Len(out)]
    BY <1>1, <1>8
  <2>2. CASE i \in 1..Len(out) /\ u[i] = out[i] /\ j \in 1..Len(out) /\ u[j] = out[j]
    BY <1>1, <2>2 DEF Distinct
  <2>3. CASE i - Len(out) \in 1..Len(t) /\ u[i] = t[i - Len(out)]
             /\ j - Len(out) \in 1..Len(t) /\ u[j] = t[j - Len(out)]
    <3>1. i - Len(out) = j - Len(out)
      BY <1>6, <2>3 DEF Distinct
    <3> QED BY <1>1, <1>8, <3>1
  <2>4. CASE i \in 1..Len(out) /\ u[i] = out[i] /\ j - Len(out) \in 1..Len(t) /\ u[j] = t[j - Len(out)]
    BY <1>9, <2>4
  <2>5. CASE j \in 1..Len(out) /\ u[j] = out[j] /\ i - Len(out) \in 1..Len(t) /\ u[i] = t[i - Len(out)]
    BY <1>9, <2>5
  <2> QED BY <2>1, <2>2, <2>3, <2>4, <2>5
<1>11. ToSet(u) \subseteq A \cup B
  <2>1. ToSet(more) = {more[k] : k \in 1..Len(more)}
    BY <1>1, ToSetFacts
  <2>2. ToSet(t) \subseteq ToSet(more)
    BY <1>2, <1>6, <2>1
  <2> QED BY <1>1, <1>8, <2>2
<1>12. ASSUME Len(u) < limit PROVE Len(more) < limit
  <2> SUFFICES ASSUME Len(more) = limit PROVE FALSE
    BY <1>1
  <2> DEFINE old == (1..limit) \ new
  <2>1. \A k \in old : k \in 1..Len(more) /\ \E i \in 1..Len(out) : out[i].trace = more[k].trace
    BY <1>2
  <2>2. \A n \in Nat : IsFiniteSet(1..n) /\ Cardinality(1..n) = n
    BY UpToCount
  <2>3. (1..limit) \cap new = new
    BY <1>2
  <2>4. IsFiniteSet(old) /\ Cardinality(old) = limit - Cardinality(new)
    <3>1. PICK U : U = 1..limit
      OBVIOUS
    <3>2. IsFiniteSet(U) /\ Cardinality(U) = limit
      BY <2>2, <3>1
    <3>3. IsFiniteSet(U \ new) /\ Cardinality(U \ new) = Cardinality(U) - Cardinality(U \cap new)
      BY <3>2, FS_Difference
    <3> QED BY <2>3, <3>1, <3>2, <3>3
  <2>5. Cardinality(1..Len(out)) < Cardinality(old)
    <3>1. Cardinality(1..Len(out)) = Len(out)
      BY <1>1, <2>2
    <3> QED BY <1>1, <1>5, <1>8, <1>12, <2>4, <3>1
  <2> DEFINE f == [k \in old |-> CHOOSE i \in 1..Len(out) : out[i].trace = more[k].trace]
  <2>6. \A k \in old : f[k] \in 1..Len(out) /\ out[f[k]].trace = more[k].trace
    BY <2>1
  <2>7. f \in [old -> 1..Len(out)]
    BY <2>6
  <2> HIDE DEF f, old
  <2>8. PICK k \in old, m \in old : k # m /\ f[k] = f[m]
    <3>1. IsFiniteSet(1..Len(out))
      BY <1>1, <2>2
    <3> QED BY <2>4, <2>5, <2>7, <3>1, FS_PigeonHole
  <2>9. more[k].trace = more[m].trace
    BY <2>6, <2>8
  <2> QED BY <1>1, <2>1, <2>8, <2>9 DEF Distinct
<1>13. ASSUME Len(u) < limit PROVE A \cup B \subseteq ToSet(u)
  <2>1. ToSet(more) = B /\ ToSet(more) = {more[k] : k \in 1..Len(more)}
    BY <1>1, <1>12, <1>13, ToSetFacts
  <2>2. ASSUME NEW x \in B PROVE x \in ToSet(u)
    <3>1. PICK k \in 1..Len(more) : x = more[k]
      BY <2>1
    <3>2. CASE k \in new
      BY <1>6, <1>8, <3>1, <3>2
    <3>3. CASE k \notin new
      <4>1. PICK i \in 1..Len(out) : out[i].trace = more[k].trace
        BY <1>2, <3>3
      <4>2. out[i] \in ToSet(out)
        BY <1>1, ToSetFacts
      <4>3. out[i] = x
        BY <1>1, <3>1, <4>1, <4>2
      <4> QED BY <1>8, <4>2, <4>3
    <3> QED BY <3>2, <3>3
  <2> QED BY <1>1, <1>8, <2>2
<1>14. PICK v : v = FirstN(u, limit)
  OBVIOUS
<1>15. /\ IsAnswer(v, ToSet(u), limit)
       /\ Len(v) = IF Len(u) < limit THEN Len(u) ELSE limit
  BY <1>8, <1>10, <1>14, HeadAnswers, FirstNIs
<1>16. Len(v) < limit => Len(u) < limit
  BY <1>8, <1>15
<1>17. IsAnswer(v, A \cup B, limit)
  BY <1>11, <1>13, <1>15, <1>16 DEF IsAnswer
<1> QED BY <1>4, <1>7, <1>14, <1>17

\* As many traces as records.
LEMMA DistinctCount ==
  ASSUME NEW s \in Seq(Records), Distinct(s)
  PROVE  Cardinality({s[i].trace : i \in 1..Len(s)}) = Len(s)
<1> DEFINE f == [i \in 1..Len(s) |-> s[i].trace]
           T == {s[i].trace : i \in 1..Len(s)}
<1>1. Len(s) \in Nat /\ IsFiniteSet(1..Len(s)) /\ Cardinality(1..Len(s)) = Len(s)
  BY UpToCount
<1>2. f \in [1..Len(s) -> T]
  OBVIOUS
<1>3. f \in Surjection(1..Len(s), T)
  BY <1>2 DEF Surjection
<1>4. f \in Injection(1..Len(s), T)
  BY <1>2 DEF Injection, IsInjective, Distinct
<1> HIDE DEF f, T
<1>5. Cardinality(T) = Cardinality(1..Len(s))
  BY <1>1, <1>3, <1>4, FS_Surjection
<1> QED BY <1>1, <1>5 DEF T

\* The two answers of Recent, each in its case.
LEMMA InvRecent == AccountingInv /\ TraceInv => RecentComplete
<1> SUFFICES ASSUME AccountingInv, TraceInv, NEW filter \in Filters,
                    NEW limit \in (1..MaxTraces) \cap (1..1000)
             PROVE  LET out   == handleUsageRecent(filter, limit)
                        known == {x \in ToSet(ring.buf) \cup ToSet(stored) : matchFilter(x, filter)}
                    IN  /\ Len(out) <= limit
                        /\ Cardinality({out[i].trace : i \in 1..Len(out)}) = Len(out)
                        /\ ToSet(out) \subseteq known
                        /\ Len(out) < limit => ToSet(out) = known
  BY DEF RecentComplete
<1> DEFINE A == {x \in ToSet(ring.buf) : matchFilter(x, filter)}
           B == {x \in ToSet(stored) : matchFilter(x, filter)}
           all == handleUsageRecent(filter, limit)
<1>1. limit \in 1..1000 /\ limit \in Nat
  OBVIOUS
<1>2. PICK out : out = MemoryRecent(ring, filter, limit)
  OBVIOUS
<1>3. PICK more : more = PostgresRecent(filter, limit)
  OBVIOUS
<1>4. all = IF Len(out) >= limit THEN out ELSE Supplement(out, more, limit)
  BY <1>1, <1>2, <1>3 DEF handleUsageRecent, Recent
<1>6. IsAnswer(out, A, limit) /\ IsAnswer(more, B, limit)
  BY <1>1, <1>2, <1>3, MemoryRecentIs, PostgresRecentIs
<1>7. \A x \in A, y \in B : x.trace = y.trace => x = y
  BY DEF TraceInv, Known
<1>8. {x \in ToSet(ring.buf) \cup ToSet(stored) : matchFilter(x, filter)} = A \cup B
  OBVIOUS
<1> HIDE DEF A, B, all
<1>9. IsAnswer(all, A \cup B, limit)
  <2>1. Len(out) \in Nat
    BY <1>6 DEF IsAnswer
  <2>2. CASE Len(out) >= limit
    <3>1. ~(Len(out) < limit)
      BY <1>1, <2>1, <2>2
    <3> QED BY <1>4, <1>6, <2>2, <3>1 DEF IsAnswer
  <2>3. CASE ~(Len(out) >= limit)
    <3>1. Len(out) < limit
      BY <1>1, <2>1, <2>3
    <3> QED BY <1>1, <1>4, <1>6, <1>7, <2>3, <3>1, SupplementIs
  <2> QED BY <2>2, <2>3
<1>10. Cardinality({all[i].trace : i \in 1..Len(all)}) = Len(all)
  BY <1>9, DistinctCount DEF IsAnswer
<1>11. /\ Len(all) <= limit /\ ToSet(all) \subseteq A \cup B
       /\ Len(all) < limit => ToSet(all) = A \cup B
  BY <1>9 DEF IsAnswer
<1> QED BY <1>8, <1>10, <1>11 DEF all

\* aggregator.go, Recent: for every size of the ring and of the table, through
\* restarts and failed appends, no record is in an answer twice, and an answer
\* that is shorter than asked for leaves out nothing.
THEOREM RecentAnswers == Spec => []RecentComplete
BY AccountingInvariant, TracesApart, InvRecent, PTL
============================================================================
