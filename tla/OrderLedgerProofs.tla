-------------------------- MODULE OrderLedgerProofs --------------------------
(***************************************************************************)
(* The ledger's invariants for every set of orders, events and assets, any *)
(* prices and any fee rates: first the arithmetic of totals, then one fact *)
(* per kind of ledger movement, then the invariants step by step.          *)
(***************************************************************************)
EXTENDS OrderLedger, FiniteSetTheorems, TLAPS

----------------------------------------------------------------------------
\* Totals.

\* The units of one argument.
Slice(f, x) == {x} \X (1 .. f[x])

LEMMA SliceSize ==
  ASSUME NEW S, NEW f \in [S -> Nat], NEW x \in S
  PROVE  /\ IsFiniteSet(Slice(f, x))
         /\ Cardinality(Slice(f, x)) = f[x]
<1>1. f[x] \in Nat
  OBVIOUS
<1>2. IsFiniteSet(1 .. f[x]) /\ Cardinality(1 .. f[x]) = f[x]
  BY <1>1, FS_Interval
<1>3. IsFiniteSet({x}) /\ Cardinality({x}) = 1
  BY FS_Singleton
<1>4. /\ IsFiniteSet({x} \X (1 .. f[x]))
      /\ Cardinality({x} \X (1 .. f[x])) = 1 * f[x]
  <2> DEFINE A == {x}
             B == 1 .. f[x]
  <2>1. IsFiniteSet(A) /\ Cardinality(A) = 1 /\ IsFiniteSet(B) /\ Cardinality(B) = f[x]
    BY <1>2, <1>3
  <2> HIDE DEF A, B
  <2>2. IsFiniteSet(A \X B) /\ Cardinality(A \X B) = Cardinality(A) * Cardinality(B)
    BY <2>1, FS_Product
  <2>3. IsFiniteSet(A \X B) /\ Cardinality(A \X B) = 1 * f[x]
    BY <2>1, <2>2
  <2> QED
    BY <2>3 DEF A, B
<1> QED
  BY <1>1, <1>4 DEF Slice

LEMMA UnitsAre ==
  ASSUME NEW S, NEW f \in [S -> Nat]
  PROVE  /\ Units(f) = UNION {Slice(f, x) : x \in S}
         /\ \A u : u \in Units(f) <=> \E x \in S : \E n \in 1 .. f[x] : u = <<x, n>>
<1>1. Units(f) = UNION {Slice(f, x) : x \in S}
  BY DEF Units, Slice
<1>2. \A u : u \in Units(f) <=> \E x \in S : u \in Slice(f, x)
  BY <1>1
<1>3. \A x, u : u \in Slice(f, x) <=> \E n \in 1 .. f[x] : u = <<x, n>>
  BY DEF Slice
<1> QED
  BY <1>1, <1>2, <1>3

LEMMA UnitsFinite ==
  ASSUME NEW S, IsFiniteSet(S), NEW f \in [S -> Nat]
  PROVE  /\ IsFiniteSet(Units(f))
         /\ Total(f) \in Nat
<1> DEFINE all == {Slice(f, x) : x \in S}
           slices == [x \in S |-> Slice(f, x)]
<1>1. slices \in Surjection(S, all)
  BY DEF Surjection
<1>2. IsFiniteSet(all)
  BY <1>1, FS_Surjection
<1>3. \A s \in all : IsFiniteSet(s)
  BY SliceSize
<1>4. IsFiniteSet(UNION all)
  BY <1>2, <1>3, FS_UNION
<1> QED
  BY <1>4, UnitsAre, FS_CardinalityType DEF Total

\* Two functions that differ at x only: their totals differ as they do at x.
LEMMA TotalChange ==
  ASSUME NEW S, IsFiniteSet(S), NEW f \in [S -> Nat], NEW g \in [S -> Nat],
         NEW x \in S, \A y \in S \ {x} : f[y] = g[y]
  PROVE  Total(g) = Total(f) - f[x] + g[x]
<1>1. ASSUME NEW h \in [S -> Nat]
      PROVE  Cardinality(Units(h) \ Slice(h, x)) = Total(h) - h[x]
  <2>1. Units(h) \cap Slice(h, x) = Slice(h, x)
    BY UnitsAre
  <2>2. Cardinality(Units(h) \ Slice(h, x)) = Cardinality(Units(h)) - Cardinality(Slice(h, x))
    <3>1. IsFiniteSet(Units(h))
      BY UnitsFinite
    <3> QED
      BY <2>1, <3>1, FS_Difference
  <2>3. Cardinality(Slice(h, x)) = h[x]
    BY SliceSize
  <2> QED
    BY <2>2, <2>3 DEF Total
<1>2. ASSUME NEW h \in [S -> Nat]
      PROVE  \A u : u \in Units(h) \ Slice(h, x)
               <=> \E y \in S \ {x} : \E n \in 1 .. h[y] : u = <<y, n>>
  BY UnitsAre DEF Slice
<1>3. \A u : u \in Units(f) \ Slice(f, x) <=> u \in Units(g) \ Slice(g, x)
  BY <1>2
<1>4. Units(f) \ Slice(f, x) = Units(g) \ Slice(g, x)
  BY <1>3
<1>5. Total(f) - f[x] = Total(g) - g[x]
  BY <1>1, <1>4
<1>6. Total(f) \in Nat /\ Total(g) \in Nat /\ f[x] \in Nat /\ g[x] \in Nat
  BY UnitsFinite
<1> QED
  BY <1>5, <1>6

LEMMA TotalZero ==
  ASSUME NEW S, NEW f \in [S -> Nat], \A x \in S : f[x] = 0
  PROVE  Total(f) = 0
<1>1. Units(f) = {}
  BY UnitsAre
<1> QED
  BY <1>1, FS_EmptySet DEF Total

\* A function split in two parts that are nowhere positive together.
LEMMA TotalSplit ==
  ASSUME NEW S, IsFiniteSet(S), NEW f \in [S -> Nat], NEW g \in [S -> Nat],
         NEW h \in [S -> Nat],
         \A x \in S : f[x] = g[x] + h[x] /\ (g[x] = 0 \/ h[x] = 0)
  PROVE  Total(f) = Total(g) + Total(h)
<1>1. \A u : u \in Units(f) <=> u \in Units(g) \cup Units(h)
  <2>1. ASSUME NEW x \in S
        PROVE  (f[x] = g[x] /\ 1 .. h[x] = {}) \/ (f[x] = h[x] /\ 1 .. g[x] = {})
    OBVIOUS
  <2>2. ASSUME NEW u
        PROVE  (\E x \in S : \E n \in 1 .. f[x] : u = <<x, n>>)
                 <=> \/ \E x \in S : \E n \in 1 .. g[x] : u = <<x, n>>
                     \/ \E x \in S : \E n \in 1 .. h[x] : u = <<x, n>>
    BY <2>1
  <2> QED
    BY <2>2, UnitsAre
<1>2. Units(g) \cap Units(h) = {}
  <2>1. ASSUME NEW u \in Units(g), u \in Units(h) PROVE FALSE
    <3>1. PICK x \in S : \E n \in 1 .. g[x] : u = <<x, n>>
      BY UnitsAre
    <3>2. PICK y \in S : \E n \in 1 .. h[y] : u = <<y, n>>
      BY <2>1, UnitsAre
    <3>3. x = y
      BY <3>1, <3>2
    <3>4. g[x] \in Nat /\ h[x] \in Nat /\ g[x] >= 1 /\ h[x] >= 1
      BY <3>1, <3>2, <3>3
    <3> QED
      BY <3>4
  <2> QED
    BY <2>1
<1>3. Cardinality(Units(g) \cap Units(h)) = 0
  BY <1>2, FS_EmptySet
<1>4. Units(f) = Units(g) \cup Units(h)
  BY <1>1
<1>5. /\ IsFiniteSet(Units(g)) /\ IsFiniteSet(Units(h))
      /\ Total(g) \in Nat /\ Total(h) \in Nat
  BY UnitsFinite
<1>6. Cardinality(Units(f)) = Cardinality(Units(g)) + Cardinality(Units(h)) - 0
  BY <1>3, <1>4, <1>5, FS_Union
<1> QED
  BY <1>5, <1>6 DEF Total

\* No value of f exceeds its total.
LEMMA TotalBound ==
  ASSUME NEW S, IsFiniteSet(S), NEW f \in [S -> Nat], NEW x \in S
  PROVE  f[x] <= Total(f)
<1> DEFINE g == [f EXCEPT ![x] = 0]
<1>1. g \in [S -> Nat] /\ g[x] = 0 /\ \A y \in S \ {x} : f[y] = g[y]
  OBVIOUS
<1> HIDE DEF g
<1>2. Total(g) = Total(f) - f[x] + g[x]
  BY <1>1, TotalChange
<1>3. Total(g) \in Nat /\ Total(f) \in Nat /\ f[x] \in Nat
  BY <1>1, UnitsFinite
<1> QED
  BY <1>1, <1>2, <1>3

----------------------------------------------------------------------------
\* Money.

LEMMA HalfEvenNat ==
  ASSUME NEW n \in Nat, NEW d \in Nat \ {0}
  PROVE  HalfEven(n, d) \in Nat
<1>1. n \div d \in Nat /\ n % d \in Nat
  OBVIOUS
<1> QED
  BY <1>1 DEF HalfEven

LEMMA GrossNat ==
  ASSUME NEW q \in Nat, NEW p \in Nat
  PROVE  Gross(q, p) \in Nat
<1>1. q * p \in Nat /\ CentUnits \in Nat \ {0}
  BY LedgerAssumption
<1> QED
  BY <1>1, HalfEvenNat DEF Gross

LEMMA FeeNat ==
  ASSUME NEW side \in Sides, NEW gross \in Nat
  PROVE  Fee(side, gross) \in Nat
<1>1. gross * FeeRate \in Nat /\ gross * DutyRate \in Nat /\ MinFee \in Nat /\ 100 \in Nat \ {0}
  BY LedgerAssumption
<1>2. HalfEven(gross * FeeRate, 100) \in Nat /\ HalfEven(gross * DutyRate, 100) \in Nat
  BY <1>1, HalfEvenNat
<1> QED
  BY <1>1, <1>2 DEF Fee

LEMMA SpentNat ==
  ASSUME NEW side \in Sides, NEW gross \in Nat, NEW fee \in Nat
  PROVE  Spent(side, gross, fee) \in Nat
BY DEF Spent

\* Rounding never turns a larger amount into a smaller one, so neither does
\* the fee.
LEMMA HalfEvenMonotone ==
  ASSUME NEW m \in Nat, NEW n \in Nat, m <= n
  PROVE  HalfEven(m, 100) <= HalfEven(n, 100)
<1>1. CASE m \div 100 < n \div 100
  BY <1>1 DEF HalfEven
<1>2. CASE m \div 100 = n \div 100
  BY <1>2 DEF HalfEven
<1>3. m \div 100 <= n \div 100
  OBVIOUS
<1> QED
  BY <1>1, <1>2, <1>3

LEMMA FeeMonotone ==
  ASSUME NEW side \in Sides, NEW g \in Nat, NEW h \in Nat, g <= h
  PROVE  Fee(side, g) <= Fee(side, h)
<1>1. /\ g * FeeRate \in Nat /\ h * FeeRate \in Nat /\ g * FeeRate <= h * FeeRate
      /\ g * DutyRate \in Nat /\ h * DutyRate \in Nat /\ g * DutyRate <= h * DutyRate
  BY LedgerAssumption
<1>2. /\ HalfEven(g * FeeRate, 100) <= HalfEven(h * FeeRate, 100)
      /\ HalfEven(g * DutyRate, 100) <= HalfEven(h * DutyRate, 100)
  BY <1>1, HalfEvenMonotone
<1>3. /\ HalfEven(g * FeeRate, 100) \in Nat /\ HalfEven(h * FeeRate, 100) \in Nat
      /\ HalfEven(g * DutyRate, 100) \in Nat /\ HalfEven(h * DutyRate, 100) \in Nat
      /\ MinFee \in Nat
  BY <1>1, HalfEvenNat, LedgerAssumption
<1>4. Fee(side, h) \in Nat
  BY FeeNat
<1>5. CASE g = 0
  BY <1>4, <1>5 DEF Fee
<1>6. CASE g # 0
  BY <1>2, <1>3, <1>6 DEF Fee
<1> QED
  BY <1>5, <1>6

\* Prices in whole cents are never rounded.
LEMMA GrossExact ==
  ASSUME CentUnits = 1, NEW q \in Nat, NEW p \in Nat
  PROVE  Gross(q, p) = q * p
<1>1. q * p \in Nat
  OBVIOUS
<1>2. \A n \in Nat : n \div 1 = n /\ n % 1 = 0
  OBVIOUS
<1> QED
  BY <1>1, <1>2 DEF Gross, HalfEven

----------------------------------------------------------------------------
\* The rows, one by one.  What a row holds or keeps from sale is a function of
\* the row alone, and what the account holds the total of it.

\* No order is filled beyond its quantity or spends more than it reserved; an
\* active one has something left to fill.
SoundOrder(o) ==
  /\ o.quantity > 0
  /\ o.filled <= o.quantity
  /\ o.consumed <= o.reserved
  /\ o.status = "ACTIVE" => o.filled < o.quantity
SoundOrders == {NoOrder} \cup {o \in Orders : SoundOrder(o)}
OrderSound == order \in [Keys -> SoundOrders]

HeldBy(o) == IF o.status = "ACTIVE" THEN o.reserved - o.consumed ELSE 0
SharesHeldBy(o, a) ==
  IF o.status = "ACTIVE" /\ o.side = "sell" /\ o.asset = a
  THEN o.quantity - o.filled ELSE 0
PendingBy(r, a) ==
  IF r.side # "none" /\ r.asset = a /\ r.settlement = "pending"
  THEN r.quantity ELSE 0

HeldIn(orders) == Total([k \in Keys |-> HeldBy(orders[k])])
SharesHeldIn(orders, a) == Total([k \in Keys |-> SharesHeldBy(orders[k], a)])
PendingIn(rows, a) == Total([t \in Rows |-> PendingBy(rows[t], a)])

LEMMA HoldsAreIn ==
  /\ HeldCash = HeldIn(order) /\ HeldCash' = HeldIn(order')
  /\ \A a : HeldShares(a) = SharesHeldIn(order, a)
  /\ \A a : HeldShares(a)' = SharesHeldIn(order', a)
  /\ \A a : PendingShares(a) = PendingIn(trade, a)
  /\ \A a : PendingShares(a)' = PendingIn(trade', a)
BY DEF HeldCash, HeldShares, PendingShares, HeldIn, SharesHeldIn, PendingIn,
       HeldBy, SharesHeldBy, PendingBy, Held, HeldOf, PendingOf, Pending, Active,
       Remaining, Traded

LEMMA RowsFinite == IsFiniteSet(Keys) /\ IsFiniteSet(Events) /\ IsFiniteSet(Rows)
BY LedgerAssumption, FS_Union DEF Rows

LEMMA OrderRow ==
  ASSUME NEW o \in SoundOrders
  PROVE  /\ HeldBy(o) \in Nat
         /\ \A a : SharesHeldBy(o, a) \in Nat
         /\ o # NoOrder => /\ o \in Orders /\ SoundOrder(o)
                           /\ o.side \in Sides /\ o.asset \in Assets
                           /\ o.quantity \in Nat /\ o.limit \in Nat /\ o.lag \in Nat
                           /\ o.session \in Nat /\ o.reserved \in Nat
                           /\ o.filled \in Nat /\ o.gross \in Nat /\ o.consumed \in Nat
                           /\ o.status \in {"ACTIVE", "COMPLETED", "CANCELLED"}
         /\ o = NoOrder => o.status = "none"
BY DEF SoundOrders, SoundOrder, HeldBy, SharesHeldBy, Orders, NoOrder

LEMMA TradeRow ==
  ASSUME NEW r \in {NoTrade} \cup Trades
  PROVE  /\ \A a : PendingBy(r, a) \in Nat
         /\ r.side # "none" => /\ r \in Trades
                               /\ r.side \in Sides /\ r.asset \in Assets
                               /\ r.quantity \in Nat /\ r.gross \in Nat /\ r.fee \in Nat
                               /\ r.charged \in Nat /\ r.session \in Nat /\ r.lag \in Nat
                               /\ r.settlement \in {"pending", "released", "none"}
         /\ r \in Trades => r.side # "none"
BY DEF PendingBy, Trades, NoTrade, Sides

LEMMA TotalsNat ==
  /\ \A orders \in [Keys -> SoundOrders] :
       /\ HeldIn(orders) \in Nat
       /\ \A k \in Keys : HeldBy(orders[k]) <= HeldIn(orders)
       /\ \A a : /\ SharesHeldIn(orders, a) \in Nat
                 /\ \A k \in Keys : SharesHeldBy(orders[k], a) <= SharesHeldIn(orders, a)
  /\ \A rows \in [Rows -> {NoTrade} \cup Trades] :
       \A a : /\ PendingIn(rows, a) \in Nat
              /\ \A t \in Rows : PendingBy(rows[t], a) <= PendingIn(rows, a)
<1>1. ASSUME NEW orders \in [Keys -> SoundOrders]
      PROVE  [k \in Keys |-> HeldBy(orders[k])] \in [Keys -> Nat]
  BY OrderRow
<1>2. ASSUME NEW orders \in [Keys -> SoundOrders], NEW a
      PROVE  [k \in Keys |-> SharesHeldBy(orders[k], a)] \in [Keys -> Nat]
  BY OrderRow
<1>3. ASSUME NEW rows \in [Rows -> {NoTrade} \cup Trades], NEW a
      PROVE  [t \in Rows |-> PendingBy(rows[t], a)] \in [Rows -> Nat]
  BY TradeRow
<1>4. ASSUME NEW orders \in [Keys -> SoundOrders]
      PROVE  HeldIn(orders) \in Nat /\ \A k \in Keys : HeldBy(orders[k]) <= HeldIn(orders)
  BY <1>1, RowsFinite, UnitsFinite, TotalBound DEF HeldIn
<1>5. ASSUME NEW orders \in [Keys -> SoundOrders], NEW a
      PROVE  /\ SharesHeldIn(orders, a) \in Nat
             /\ \A k \in Keys : SharesHeldBy(orders[k], a) <= SharesHeldIn(orders, a)
  BY <1>2, RowsFinite, UnitsFinite, TotalBound DEF SharesHeldIn
<1>6. ASSUME NEW rows \in [Rows -> {NoTrade} \cup Trades], NEW a
      PROVE  /\ PendingIn(rows, a) \in Nat
             /\ \A t \in Rows : PendingBy(rows[t], a) <= PendingIn(rows, a)
  BY <1>3, RowsFinite, UnitsFinite, TotalBound DEF PendingIn
<1> QED
  BY <1>4, <1>5, <1>6

\* One row written: the totals move by what that row does.
LEMMA OrderWritten ==
  ASSUME NEW orders \in [Keys -> SoundOrders], NEW after \in [Keys -> SoundOrders],
         NEW k \in Keys, \A j \in Keys \ {k} : after[j] = orders[j]
  PROVE  /\ HeldIn(after) = HeldIn(orders) - HeldBy(orders[k]) + HeldBy(after[k])
         /\ \A a : SharesHeldIn(after, a)
                     = SharesHeldIn(orders, a) - SharesHeldBy(orders[k], a)
                         + SharesHeldBy(after[k], a)
<1>1. HeldIn(after) = HeldIn(orders) - HeldBy(orders[k]) + HeldBy(after[k])
  <2> DEFINE f == [j \in Keys |-> HeldBy(orders[j])]
             g == [j \in Keys |-> HeldBy(after[j])]
  <2>1. /\ f \in [Keys -> Nat] /\ g \in [Keys -> Nat]
        /\ f[k] = HeldBy(orders[k]) /\ g[k] = HeldBy(after[k])
        /\ \A j \in Keys \ {k} : f[j] = g[j]
    BY OrderRow
  <2>2. HeldIn(after) = Total(g) /\ HeldIn(orders) = Total(f)
    BY DEF HeldIn
  <2> HIDE DEF f, g
  <2>3. Total(g) = Total(f) - f[k] + g[k]
    BY <2>1, RowsFinite, TotalChange
  <2> QED
    BY <2>1, <2>2, <2>3
<1>2. ASSUME NEW a
      PROVE  SharesHeldIn(after, a)
               = SharesHeldIn(orders, a) - SharesHeldBy(orders[k], a) + SharesHeldBy(after[k], a)
  <2> DEFINE f == [j \in Keys |-> SharesHeldBy(orders[j], a)]
             g == [j \in Keys |-> SharesHeldBy(after[j], a)]
  <2>1. /\ f \in [Keys -> Nat] /\ g \in [Keys -> Nat]
        /\ f[k] = SharesHeldBy(orders[k], a) /\ g[k] = SharesHeldBy(after[k], a)
        /\ \A j \in Keys \ {k} : f[j] = g[j]
    BY OrderRow
  <2>2. SharesHeldIn(after, a) = Total(g) /\ SharesHeldIn(orders, a) = Total(f)
    BY DEF SharesHeldIn
  <2> HIDE DEF f, g
  <2>3. Total(g) = Total(f) - f[k] + g[k]
    BY <2>1, RowsFinite, TotalChange
  <2> QED
    BY <2>1, <2>2, <2>3
<1> QED
  BY <1>1, <1>2

LEMMA TradeWritten ==
  ASSUME NEW rows \in [Rows -> {NoTrade} \cup Trades], NEW t \in Rows, NEW r \in Trades, NEW a
  PROVE  PendingIn([rows EXCEPT ![t] = r], a)
           = PendingIn(rows, a) - PendingBy(rows[t], a) + PendingBy(r, a)
<1> DEFINE after == [rows EXCEPT ![t] = r]
           f == [u \in Rows |-> PendingBy(rows[u], a)]
           g == [u \in Rows |-> PendingBy(after[u], a)]
<1>1. after \in [Rows -> {NoTrade} \cup Trades] /\ after[t] = r
      /\ \A u \in Rows \ {t} : after[u] = rows[u]
  OBVIOUS
<1> HIDE DEF after
<1>2. /\ f \in [Rows -> Nat] /\ g \in [Rows -> Nat]
      /\ f[t] = PendingBy(rows[t], a) /\ g[t] = PendingBy(r, a)
      /\ \A u \in Rows \ {t} : f[u] = g[u]
  BY <1>1, TradeRow
<1>3. PendingIn(after, a) = Total(g) /\ PendingIn(rows, a) = Total(f)
  BY DEF PendingIn
<1> HIDE DEF f, g
<1>4. Total(g) = Total(f) - f[t] + g[t]
  BY <1>2, RowsFinite, TotalChange
<1> QED
  BY <1>2, <1>3, <1>4 DEF after

----------------------------------------------------------------------------
\* Settlement.

\* Releasing the due rows of a changes their settlement and nothing else, and
\* takes what they bring off the pending shares of a.
LEMMA ReleaseRow ==
  ASSUME TypeOK, NEW a \in Assets, NEW t \in Rows
  PROVE  LET r == trade[t]
             s == ReleasedRows(a)[t]
         IN  /\ s \in {NoTrade} \cup Trades
             /\ ~Due(t, a) => s = r
             /\ s.side = r.side
             /\ Traded(t) =>
                  /\ s.asset = r.asset /\ s.quantity = r.quantity
                  /\ s.gross = r.gross /\ s.fee = r.fee /\ s.charged = r.charged
                  /\ s.corrected = r.corrected
                  /\ s.session = r.session /\ s.lag = r.lag
             /\ Due(t, a) =>
                  /\ s.settlement = "released" /\ r.asset = a
                  /\ session - r.session >= r.lag
                  /\ DueOf(t, a) = PendingBy(r, a)
             /\ PendingBy(s, a) + DueOf(t, a) = PendingBy(r, a)
             /\ PendingBy(s, a) = 0 \/ DueOf(t, a) = 0
             /\ DueOf(t, a) \in Nat
             /\ \A b : b # a => PendingBy(s, b) = PendingBy(r, b)
<1>1. trade[t] \in {NoTrade} \cup Trades
  BY DEF TypeOK
<1>2. CASE Due(t, a)
  <2>1. /\ trade[t] \in Trades /\ trade[t].asset = a /\ trade[t].settlement = "pending"
        /\ trade[t].side # "none" /\ trade[t].quantity \in Nat
        /\ session - trade[t].session >= trade[t].lag
    BY <1>1, <1>2, TradeRow DEF Due, Pending, Traded
  <2>2. ReleasedRows(a)[t] = [trade[t] EXCEPT !.settlement = "released"]
    BY <1>2 DEF ReleasedRows
  <2>3. DueOf(t, a) = trade[t].quantity
    BY <1>2 DEF DueOf
  <2>4. /\ ReleasedRows(a)[t] \in Trades
        /\ ReleasedRows(a)[t].settlement = "released"
        /\ ReleasedRows(a)[t].side = trade[t].side
        /\ ReleasedRows(a)[t].asset = trade[t].asset
        /\ ReleasedRows(a)[t].quantity = trade[t].quantity
        /\ ReleasedRows(a)[t].gross = trade[t].gross
        /\ ReleasedRows(a)[t].fee = trade[t].fee
        /\ ReleasedRows(a)[t].charged = trade[t].charged
        /\ ReleasedRows(a)[t].corrected = trade[t].corrected
        /\ ReleasedRows(a)[t].session = trade[t].session
        /\ ReleasedRows(a)[t].lag = trade[t].lag
    BY <2>1, <2>2 DEF Trades
  <2> QED
    BY <1>2, <2>1, <2>3, <2>4 DEF PendingBy
<1>3. CASE ~Due(t, a)
  <2>1. ReleasedRows(a)[t] = trade[t] /\ DueOf(t, a) = 0
    BY <1>3 DEF ReleasedRows, DueOf
  <2> QED
    BY <1>1, <1>3, <2>1, TradeRow
<1> QED
  BY <1>2, <1>3

LEMMA Released ==
  ASSUME TypeOK, NEW a \in Assets
  PROVE  /\ ReleasedRows(a) \in [Rows -> {NoTrade} \cup Trades]
         /\ DueQuantity(a) \in Nat
         /\ PendingIn(ReleasedRows(a), a) = PendingIn(trade, a) - DueQuantity(a)
         /\ \A b : b # a => PendingIn(ReleasedRows(a), b) = PendingIn(trade, b)
<1> DEFINE f == [t \in Rows |-> PendingBy(trade[t], a)]
           g == [t \in Rows |-> PendingBy(ReleasedRows(a)[t], a)]
           h == [t \in Rows |-> DueOf(t, a)]
<1>1. ReleasedRows(a) \in [Rows -> {NoTrade} \cup Trades]
  <2>1. \A t \in Rows : ReleasedRows(a)[t] \in {NoTrade} \cup Trades
    BY ReleaseRow
  <2> QED
    BY <2>1 DEF ReleasedRows
<1>2. trade \in [Rows -> {NoTrade} \cup Trades]
  BY DEF TypeOK
<1>3. /\ f \in [Rows -> Nat] /\ g \in [Rows -> Nat] /\ h \in [Rows -> Nat]
      /\ \A t \in Rows : f[t] = g[t] + h[t] /\ (g[t] = 0 \/ h[t] = 0)
  <2>1. f \in [Rows -> Nat] /\ g \in [Rows -> Nat]
    BY <1>1, <1>2, TradeRow
  <2>2. h \in [Rows -> Nat]
    BY ReleaseRow
  <2>3. \A t \in Rows : f[t] = g[t] + h[t] /\ (g[t] = 0 \/ h[t] = 0)
    BY ReleaseRow
  <2> QED
    BY <2>1, <2>2, <2>3
<1>4. /\ PendingIn(trade, a) = Total(f) /\ PendingIn(ReleasedRows(a), a) = Total(g)
      /\ DueQuantity(a) = Total(h)
  BY DEF PendingIn, DueQuantity
<1>5. ASSUME NEW b, b # a
      PROVE  PendingIn(ReleasedRows(a), b) = PendingIn(trade, b)
  <2>1. \A t \in Rows : PendingBy(ReleasedRows(a)[t], b) = PendingBy(trade[t], b)
    BY <1>5, ReleaseRow
  <2> QED
    BY <2>1 DEF PendingIn
<1> HIDE DEF f, g, h
<1>6. Total(f) = Total(g) + Total(h)
  BY <1>3, RowsFinite, TotalSplit
<1>7. Total(f) \in Nat /\ Total(g) \in Nat /\ Total(h) \in Nat
  BY <1>3, RowsFinite, UnitsFinite
<1> QED
  BY <1>1, <1>4, <1>5, <1>6, <1>7

\* Every decision is about an order that exists and a session that has been;
\* a fill exists only for a matched event.
MatchSound ==
  \A e \in Events :
    /\ match[e] # NoMatch =>
         order[match[e].order] # NoOrder /\ match[e].session <= session
    /\ Matched(e) => match[e].quantity > 0 /\ match[e].price > 0
    /\ Traded(e) => Matched(e)

\* The invariant of types, holds and settlement.
CoreInv == TypeOK /\ OrderSound /\ MatchSound /\ HoldsCovered /\ SettledOnly

\* What a release leaves of the positions.
LEMMA ReleaseSettles ==
  ASSUME TypeOK, SettledOnly, NEW a \in Assets
  PROVE  /\ AvailableNow(a) \in Nat
         /\ AvailableNow(a) >= avail[a]
         /\ AvailableNow(a) + PendingIn(ReleasedRows(a), a) = qty[a]
         /\ PendingIn(ReleasedRows(a), a) \in Nat
         /\ AvailableNow(a) <= qty[a]
         /\ \A b \in Assets \ {a} : avail[b] + PendingIn(ReleasedRows(a), b) = qty[b]
         /\ \A u \in Rows : ReleasedRows(a)[u].side # "none"
                /\ ReleasedRows(a)[u].settlement = "released"
              => session >= ReleasedRows(a)[u].session + ReleasedRows(a)[u].lag
<1>1. /\ ReleasedRows(a) \in [Rows -> {NoTrade} \cup Trades]
      /\ DueQuantity(a) \in Nat
      /\ PendingIn(ReleasedRows(a), a) = PendingIn(trade, a) - DueQuantity(a)
      /\ \A b : b # a => PendingIn(ReleasedRows(a), b) = PendingIn(trade, b)
  BY Released
<1>2. \A b \in Assets : avail[b] + PendingIn(trade, b) = qty[b] /\ avail[b] \in Nat /\ qty[b] \in Nat
  BY HoldsAreIn DEF SettledOnly, TypeOK
<1>3. PendingIn(ReleasedRows(a), a) \in Nat /\ PendingIn(trade, a) \in Nat
  BY <1>1, TotalsNat DEF TypeOK
<1>4. ASSUME NEW u \in Rows, ReleasedRows(a)[u].side # "none",
             ReleasedRows(a)[u].settlement = "released"
      PROVE  session >= ReleasedRows(a)[u].session + ReleasedRows(a)[u].lag
  <2>1. Traded(u) /\ trade[u].session \in Nat /\ trade[u].lag \in Nat
        /\ ReleasedRows(a)[u].session = trade[u].session
        /\ ReleasedRows(a)[u].lag = trade[u].lag
    <3>1. Traded(u)
      BY <1>4, ReleaseRow DEF Traded
    <3> QED
      BY <3>1, ReleaseRow, TradeRow DEF Traded, TypeOK
  <2>2. CASE Due(u, a)
    <3>1. session - trade[u].session >= trade[u].lag /\ session \in Nat
      BY <2>2, ReleaseRow DEF TypeOK
    <3> QED
      BY <2>1, <3>1
  <2>3. CASE ~Due(u, a)
    <3>1. trade[u].settlement = "released"
      BY <1>4, <2>3, ReleaseRow
    <3> QED
      BY <2>1, <3>1 DEF SettledOnly
  <2> QED
    BY <2>2, <2>3
<1> QED
  BY <1>1, <1>2, <1>3, <1>4 DEF AvailableNow

\* Booking keeps the books typed and the settlement exact.
LEMMA BookSettles ==
  ASSUME TypeOK, SettledOnly, session' = session,
         NEW t \in Rows, ~Traded(t), NEW side \in Sides, NEW a \in Assets,
         NEW q \in Nat, NEW gross \in Nat, NEW fee \in Nat,
         NEW s \in Nat, s <= session, NEW lag \in Nat,
         Book(t, side, a, q, gross, fee, s, lag),
         side = "buy" => gross + fee <= cash,
         side = "sell" => q <= AvailableNow(a) /\ fee <= cash + gross
  PROVE  /\ cash' \in Nat
         /\ qty' \in [Assets -> Nat]
         /\ avail' \in [Assets -> Nat]
         /\ trade' \in [Rows -> {NoTrade} \cup Trades]
         /\ SettledOnly'
         /\ side = "buy" => cash' = cash - (gross + fee)
         /\ side = "sell" => cash' = cash + gross - fee
         /\ \A b \in Assets \ {a} : avail'[b] = avail[b]
         /\ side = "buy" => avail'[a] >= avail[a]
         /\ side = "sell" => \/ qty[a] = q
                             \/ avail'[a] = AvailableNow(a) - q
         /\ \A u \in Rows \ {t} : trade'[u] = ReleasedRows(a)[u]
         /\ trade'[t] \in Trades
         /\ trade'[t].side = side /\ trade'[t].asset = a
         /\ trade'[t].quantity = q /\ trade'[t].gross = gross
         /\ trade'[t].fee = fee /\ trade'[t].charged = fee
<1> DEFINE r == [side |-> side, asset |-> a, quantity |-> q, gross |-> gross,
                 fee |-> fee, charged |-> fee, corrected |-> FALSE, session |-> s,
                 lag |-> lag, settlement |-> IF side = "sell" THEN "none"
                                             ELSE IF lag = 0 THEN "released" ELSE "pending"]
<1>1. r \in Trades
  BY DEF Trades
<1>2. trade' = [ReleasedRows(a) EXCEPT ![t] = r]
  BY DEF Book
<1>3. ReleasedRows(a) \in [Rows -> {NoTrade} \cup Trades]
  BY Released
<1>4. /\ trade' \in [Rows -> {NoTrade} \cup Trades]
      /\ trade'[t] = r /\ \A u \in Rows \ {t} : trade'[u] = ReleasedRows(a)[u]
  BY <1>1, <1>2, <1>3
<1>5. \A b : PendingIn(trade', b) = PendingIn(ReleasedRows(a), b) + PendingBy(r, b)
  <2>1. ReleasedRows(a)[t].side = "none"
    BY ReleaseRow DEF Traded
  <2>2. \A b : PendingBy(ReleasedRows(a)[t], b) = 0
    BY <2>1 DEF PendingBy
  <2>3. \A b : PendingIn(ReleasedRows(a), b) \in Nat /\ PendingBy(r, b) \in Nat
    BY <1>1, <1>3, TotalsNat, TradeRow
  <2>4. ASSUME NEW b
        PROVE  PendingIn(trade', b) = PendingIn(ReleasedRows(a), b) + PendingBy(r, b)
    <3> HIDE DEF r
    <3>1. PendingIn([ReleasedRows(a) EXCEPT ![t] = r], b)
            = PendingIn(ReleasedRows(a), b) - PendingBy(ReleasedRows(a)[t], b) + PendingBy(r, b)
      BY <1>1, <1>3, TradeWritten
    <3> QED
      BY <1>2, <2>2, <2>3, <3>1
  <2> QED
    BY <2>4
<1>6. /\ AvailableNow(a) \in Nat /\ AvailableNow(a) >= avail[a]
      /\ AvailableNow(a) + PendingIn(ReleasedRows(a), a) = qty[a]
      /\ PendingIn(ReleasedRows(a), a) \in Nat
      /\ \A b \in Assets \ {a} : avail[b] + PendingIn(ReleasedRows(a), b) = qty[b]
      /\ \A u \in Rows : ReleasedRows(a)[u].side # "none"
             /\ ReleasedRows(a)[u].settlement = "released"
           => session >= ReleasedRows(a)[u].session + ReleasedRows(a)[u].lag
  BY ReleaseSettles
<1>7. /\ \A b : b # a => PendingBy(r, b) = 0
      /\ PendingBy(r, a) = IF side = "buy" /\ lag # 0 THEN q ELSE 0
  BY DEF PendingBy, Sides
<1>8. /\ \A b \in Assets : avail[b] \in Nat /\ qty[b] \in Nat
      /\ avail \in [Assets -> Nat] /\ qty \in [Assets -> Nat]
      /\ session \in Nat /\ cash \in Nat
  BY DEF TypeOK
<1>9. \A u \in Rows : trade'[u].side # "none" /\ trade'[u].settlement = "released"
        => session >= trade'[u].session + trade'[u].lag
  <2>1. ASSUME r.settlement = "released"
        PROVE  session >= r.session + r.lag
    BY <1>8, <2>1
  <2> QED
    BY <1>4, <1>6, <2>1
<1> HIDE DEF r
<1>10. CASE side = "buy"
  <2>1. /\ cash' = cash - (gross + fee)
        /\ qty' = [qty EXCEPT ![a] = @ + q]
        /\ avail' = [avail EXCEPT ![a] = AvailableNow(a) + (IF lag = 0 THEN q ELSE 0)]
    BY <1>10 DEF Book
  <2>2. /\ \A b \in Assets \ {a} : avail'[b] = avail[b] /\ qty'[b] = qty[b]
        /\ qty'[a] = qty[a] + q
        /\ avail'[a] = AvailableNow(a) + (IF lag = 0 THEN q ELSE 0)
        /\ qty' \in [Assets -> Nat] /\ avail' \in [Assets -> Nat]
    BY <1>6, <1>8, <2>1
  <2>3. \A b \in Assets : avail'[b] + PendingIn(trade', b) = qty'[b]
    <3>1. avail'[a] + PendingIn(trade', a) = qty'[a]
      BY <1>5, <1>6, <1>7, <1>8, <1>10, <2>2
    <3>2. ASSUME NEW b \in Assets \ {a}
          PROVE  avail'[b] + PendingIn(trade', b) = qty'[b]
      <4>1. PendingIn(trade', b) = PendingIn(ReleasedRows(a), b) + 0
        BY <1>5, <1>7
      <4>2. PendingIn(ReleasedRows(a), b) \in Nat
        BY <1>3, TotalsNat
      <4> QED
        BY <1>6, <2>2, <4>1, <4>2
    <3> QED
      BY <3>1, <3>2
  <2>4. SettledOnly'
    BY <1>9, <2>3, HoldsAreIn DEF SettledOnly, Traded
  <2> QED
    BY <1>1, <1>4, <1>6, <1>8, <1>10, <2>1, <2>2, <2>4 DEF r
<1>11. CASE side = "sell"
  <2>1. /\ cash' = cash + gross - fee
        /\ qty' = [qty EXCEPT ![a] = @ - q]
        /\ avail' = [avail EXCEPT ![a] = IF qty[a] = q THEN 0 ELSE AvailableNow(a) - q]
    BY <1>11 DEF Book
  <2>2. /\ \A b \in Assets \ {a} : avail'[b] = avail[b] /\ qty'[b] = qty[b]
        /\ qty'[a] = qty[a] - q
        /\ avail'[a] = IF qty[a] = q THEN 0 ELSE AvailableNow(a) - q
        /\ qty' \in [Assets -> Nat] /\ avail' \in [Assets -> Nat]
    BY <1>6, <1>8, <1>11, <2>1
  <2>3. \A b \in Assets : avail'[b] + PendingIn(trade', b) = qty'[b]
    <3>1. avail'[a] + PendingIn(trade', a) = qty'[a]
      BY <1>5, <1>6, <1>7, <1>8, <1>11, <2>2
    <3>2. ASSUME NEW b \in Assets \ {a}
          PROVE  avail'[b] + PendingIn(trade', b) = qty'[b]
      <4>1. PendingIn(trade', b) = PendingIn(ReleasedRows(a), b) + 0
        BY <1>5, <1>7
      <4>2. PendingIn(ReleasedRows(a), b) \in Nat
        BY <1>3, TotalsNat
      <4> QED
        BY <1>6, <2>2, <4>1, <4>2
    <3> QED
      BY <3>1, <3>2
  <2>4. SettledOnly'
    BY <1>9, <2>3, HoldsAreIn DEF SettledOnly, Traded
  <2> QED
    BY <1>1, <1>4, <1>6, <1>8, <1>11, <2>1, <2>2, <2>4 DEF r
<1> QED
  BY <1>10, <1>11 DEF Sides

----------------------------------------------------------------------------
\* The core invariant, action by action.

LEMMA Inputs ==
  /\ \A q \in Quantities : q \in Nat /\ q > 0
  /\ \A p \in Prices : p \in Nat /\ p > 0
  /\ Budgets \subseteq Nat /\ Lags \subseteq Nat /\ Corrections \subseteq Nat
  /\ Keys \subseteq Rows /\ Events \subseteq Rows /\ Keys \cap Events = {}
  /\ Capacities \subseteq Nat /\ Steps \subseteq Nat \ {0} /\ InitialCash \in Nat
BY LedgerAssumption DEF Rows

LEMMA MatchRow ==
  ASSUME TypeOK, NEW e \in Events, match[e] # NoMatch
  PROVE  /\ match[e] \in Matches
         /\ match[e].order \in Keys /\ match[e].session \in Nat
         /\ match[e].price \in Nat /\ match[e].quantity \in Nat
         /\ match[e].final \in BOOLEAN
BY DEF TypeOK, Matches

LEMMA MatchedRow ==
  ASSUME NEW e \in Events, Matched(e)
  PROVE  match[e] # NoMatch
BY DEF Matched, NoMatch

LEMMA OrdersTyped ==
  /\ OrderSound => order \in [Keys -> {NoOrder} \cup Orders]
  /\ OrderSound' => order' \in [Keys -> {NoOrder} \cup Orders]
BY DEF OrderSound, SoundOrders

\* Decisions stay sound as long as orders are kept and fills need a match.
LEMMA MatchSoundKept ==
  ASSUME TypeOK, MatchSound, match' = match, session' \in Nat, session' >= session,
         \A k \in Keys : order[k] # NoOrder => order'[k] # NoOrder,
         \A e \in Events : Traded(e)' => Traded(e) \/ Matched(e)
  PROVE  MatchSound'
<1>1. ASSUME NEW e \in Events
      PROVE  /\ match'[e] # NoMatch =>
                  order'[match'[e].order] # NoOrder /\ match'[e].session <= session'
             /\ match'[e].outcome = "MATCHED" => match'[e].quantity > 0 /\ match'[e].price > 0
             /\ Traded(e)' => match'[e].outcome = "MATCHED"
  <2>1. match[e] # NoMatch =>
          order[match[e].order] # NoOrder /\ match[e].session <= session
    BY DEF MatchSound
  <2>2. match'[e] # NoMatch =>
          order'[match'[e].order] # NoOrder /\ match'[e].session <= session'
    BY <2>1, MatchRow DEF TypeOK
  <2> QED
    BY <2>2 DEF MatchSound, Matched
<1> QED
  BY <1>1 DEF MatchSound, Matched

LEMMA ReleaseKeepsTraded ==
  ASSUME TypeOK, NEW a \in Assets
  PROVE  \A t \in Rows : ReleasedRows(a)[t].side = trade[t].side
BY ReleaseRow

LEMMA HoldForNat ==
  ASSUME NEW side \in Sides, NEW q \in Nat, NEW p \in Nat, NEW budget \in Nat
  PROVE  HoldFor(side, q, p, budget) \in Nat
<1>1. Gross(q, p) \in Nat
  BY GrossNat
<1>2. Fee(side, Gross(q, p)) \in Nat
  BY <1>1, FeeNat
<1>3. Spent(side, Gross(q, p), Fee(side, Gross(q, p))) \in Nat
  BY <1>1, <1>2, SpentNat
<1> QED
  BY <1>1, <1>2, <1>3 DEF HoldFor

LEMMA ReserveCore ==
  ASSUME CoreInv,
         NEW k \in Keys, NEW side \in Sides, NEW a \in Assets, NEW q \in Quantities,
         NEW p \in Prices, NEW lag \in Lags, NEW budget \in Budgets,
         Reserve(k, side, a, q, p, lag, budget)
  PROVE  CoreInv'
<1> DEFINE hold == HoldFor(side, q, p, budget)
           o == [status |-> "ACTIVE", side |-> side, asset |-> a, quantity |-> q,
                 limit |-> p, lag |-> lag, session |-> session, reserved |-> hold,
                 filled |-> 0, gross |-> 0, consumed |-> 0]
<1> USE DEF CoreInv
<1>1. q \in Nat /\ q > 0 /\ p \in Nat /\ lag \in Nat /\ budget \in Nat /\ session \in Nat
  BY Inputs DEF TypeOK
<1>2. hold \in Nat
  BY <1>1, HoldForNat
<1> HIDE DEF hold
<1>3. /\ active /\ ~Traded(k) /\ order[k] = NoOrder
      /\ hold > 0 => hold <= cash - HeldCash
      /\ side = "sell" => q <= AvailableNow(a) - HeldShares(a)
      /\ order' = [order EXCEPT ![k] = o]
      /\ avail' = [avail EXCEPT ![a] = AvailableNow(a)]
      /\ trade' = ReleasedRows(a)
      /\ UNCHANGED <<active, session, cash, qty, match>>
  BY DEF Reserve, KeyFree, FreeCash, SellableShares, hold
<1>4. o \in Orders
  BY <1>1, <1>2 DEF Orders
<1>5. o \in SoundOrders /\ o # NoOrder
      /\ HeldBy(o) = hold
      /\ \A b : SharesHeldBy(o, b) = IF side = "sell" /\ b = a THEN q ELSE 0
  <2>1. o.status = "ACTIVE" /\ o.quantity = q /\ o.filled = 0 /\ o.consumed = 0
        /\ o.reserved = hold /\ o.side = side /\ o.asset = a
    OBVIOUS
  <2> HIDE DEF o
  <2> QED
    BY <1>1, <1>2, <1>4, <2>1 DEF SoundOrders, SoundOrder, NoOrder, HeldBy, SharesHeldBy
<1> HIDE DEF o
<1>6. /\ order' \in [Keys -> SoundOrders]
      /\ HeldIn(order') = HeldIn(order) - HeldBy(order[k]) + HeldBy(o)
      /\ \A b : SharesHeldIn(order', b)
                  = SharesHeldIn(order, b) - SharesHeldBy(order[k], b) + SharesHeldBy(o, b)
  <2>1. order \in [Keys -> SoundOrders]
    BY DEF OrderSound
  <2>2. /\ order' \in [Keys -> SoundOrders] /\ order'[k] = o
        /\ \A j \in Keys \ {k} : order'[j] = order[j]
    BY <1>3, <1>5, <2>1
  <2> QED
    BY <2>1, <2>2, OrderWritten
<1>7. /\ HeldBy(order[k]) = 0 /\ \A b : SharesHeldBy(order[k], b) = 0
      /\ HeldIn(order) \in Nat /\ \A b : SharesHeldIn(order, b) \in Nat
  BY <1>3, TotalsNat DEF NoOrder, HeldBy, SharesHeldBy, OrderSound
<1>8. /\ AvailableNow(a) \in Nat /\ AvailableNow(a) >= avail[a]
      /\ AvailableNow(a) + PendingIn(ReleasedRows(a), a) = qty[a]
      /\ \A b \in Assets \ {a} : avail[b] + PendingIn(ReleasedRows(a), b) = qty[b]
      /\ \A u \in Rows : ReleasedRows(a)[u].side # "none"
             /\ ReleasedRows(a)[u].settlement = "released"
           => session >= ReleasedRows(a)[u].session + ReleasedRows(a)[u].lag
  BY ReleaseSettles
<1>9. /\ avail \in [Assets -> Nat] /\ avail' \in [Assets -> Nat]
      /\ avail'[a] = AvailableNow(a) /\ \A b \in Assets \ {a} : avail'[b] = avail[b]
  BY <1>3, <1>8 DEF TypeOK
<1>10. TypeOK'
  <2>1. trade' \in [Rows -> {NoTrade} \cup Trades]
    BY <1>3, Released
  <2>2. order' \in [Keys -> {NoOrder} \cup Orders]
    BY <1>6 DEF SoundOrders
  <2> QED
    BY <1>3, <1>9, <2>1, <2>2 DEF TypeOK
<1>11. OrderSound'
  BY <1>6 DEF OrderSound
<1>12. MatchSound'
  <2>1. \A j \in Keys : order[j] # NoOrder => order'[j] # NoOrder
    BY <1>3, <1>5 DEF TypeOK
  <2>2. \A e \in Events : Traded(e)' => Traded(e)
    BY <1>3, ReleaseKeepsTraded, Inputs DEF Traded
  <2> QED
    BY <1>1, <1>3, <2>1, <2>2, MatchSoundKept
<1>13. HoldsCovered'
  <2>1. HeldIn(order) <= cash /\ HeldCash = HeldIn(order) /\ cash \in Nat /\ cash' = cash
    BY <1>3, HoldsAreIn DEF HoldsCovered, TypeOK
  <2>2. HeldIn(order') <= cash'
    BY <1>2, <1>3, <1>5, <1>6, <1>7, <2>1
  <2>3. \A b \in Assets : SharesHeldIn(order, b) <= avail[b] /\ HeldShares(b) = SharesHeldIn(order, b)
    BY HoldsAreIn DEF HoldsCovered
  <2>4. ASSUME NEW b \in Assets
        PROVE  SharesHeldIn(order', b) <= avail'[b]
    <3>1. SharesHeldIn(order', b)
            = SharesHeldIn(order, b) - 0 + (IF side = "sell" /\ b = a THEN q ELSE 0)
      BY <1>5, <1>6, <1>7
    <3>2. avail[b] \in Nat /\ SharesHeldIn(order, b) \in Nat
      BY <1>7, <1>9
    <3>3. CASE b = a
      BY <1>1, <1>3, <1>8, <1>9, <2>3, <3>1, <3>2, <3>3
    <3>4. CASE b # a
      BY <1>9, <2>3, <3>1, <3>2, <3>4
    <3> QED
      BY <3>3, <3>4
  <2> QED
    BY <2>2, <2>4, HoldsAreIn DEF HoldsCovered
<1>14. SettledOnly'
  <2>1. \A b \in Assets : avail'[b] + PendingIn(trade', b) = qty'[b]
    BY <1>3, <1>8, <1>9
  <2> QED
    BY <1>3, <1>8, <2>1, HoldsAreIn DEF SettledOnly, Traded
<1> QED
  BY <1>10, <1>11, <1>12, <1>13, <1>14

\* Nothing new is held or kept from sale when no order is touched.
LEMMA ExecuteTradeCore ==
  ASSUME CoreInv,
         NEW k \in Keys, NEW side \in Sides, NEW a \in Assets, NEW q \in Quantities,
         NEW p \in Prices, NEW lag \in Lags, ExecuteTrade(k, side, a, q, p, lag)
  PROVE  CoreInv'
<1> DEFINE gross == Gross(q, p)
           fee == Fee(side, gross)
<1> USE DEF CoreInv
<1>1. q \in Nat /\ p \in Nat /\ lag \in Nat /\ session \in Nat /\ k \in Rows
  BY Inputs DEF TypeOK
<1>2. gross \in Nat /\ fee \in Nat
  BY <1>1, GrossNat, FeeNat
<1>3. /\ ~Traded(k)
      /\ side = "buy" => gross + fee <= cash - HeldCash
      /\ side = "sell" => /\ q <= AvailableNow(a) - HeldShares(a)
                          /\ cash + gross - fee >= HeldCash
      /\ Book(k, side, a, q, gross, fee, session, lag)
      /\ UNCHANGED <<active, session, order, match>>
  BY DEF ExecuteTrade, KeyFree, FreeCash, SellableShares
<1> HIDE DEF gross, fee
<1>4. /\ HeldCash \in Nat /\ HeldCash = HeldIn(order) /\ cash \in Nat
      /\ \A b \in Assets : /\ HeldShares(b) \in Nat /\ HeldShares(b) <= avail[b]
                           /\ avail[b] \in Nat
  BY HoldsAreIn, TotalsNat DEF OrderSound, TypeOK, HoldsCovered
<1>5. AvailableNow(a) \in Nat /\ avail[a] <= AvailableNow(a) /\ AvailableNow(a) <= qty[a]
  BY ReleaseSettles
<1>6. /\ side = "buy" => gross + fee <= cash
      /\ side = "sell" => q <= AvailableNow(a) /\ fee <= cash + gross
  BY <1>1, <1>2, <1>3, <1>4, <1>5
<1>7. /\ cash' \in Nat /\ qty' \in [Assets -> Nat] /\ avail' \in [Assets -> Nat]
      /\ trade' \in [Rows -> {NoTrade} \cup Trades]
      /\ SettledOnly'
      /\ side = "buy" => cash' = cash - (gross + fee)
      /\ side = "sell" => cash' = cash + gross - fee
      /\ \A b \in Assets \ {a} : avail'[b] = avail[b]
      /\ side = "buy" => avail'[a] >= avail[a]
      /\ side = "sell" => qty[a] = q \/ avail'[a] = AvailableNow(a) - q
      /\ \A u \in Rows \ {k} : trade'[u] = ReleasedRows(a)[u]
  <2>1. /\ TypeOK /\ SettledOnly /\ session' = session /\ ~Traded(k)
        /\ q \in Nat /\ session \in Nat /\ session <= session /\ lag \in Nat /\ k \in Rows
        /\ Book(k, side, a, q, gross, fee, session, lag)
    BY <1>1, <1>3
  <2> QED
    BY <2>1, <1>2, <1>6, BookSettles
<1>8. TypeOK' /\ OrderSound'
  BY <1>3, <1>7, OrdersTyped DEF TypeOK, OrderSound
<1>9. MatchSound'
  <2>1. \A e \in Events : Traded(e)' => Traded(e)
    BY <1>7, ReleaseKeepsTraded, Inputs DEF Traded
  <2> QED
    BY <1>1, <1>3, <2>1, MatchSoundKept
<1>10. HoldsCovered'
  <2>1. HeldCash' = HeldCash /\ \A b : HeldShares(b)' = HeldShares(b)
    BY <1>3, HoldsAreIn
  <2>2. HeldCash <= cash'
    BY <1>2, <1>3, <1>4, <1>7 DEF Sides
  <2>3. ASSUME NEW b \in Assets
        PROVE  HeldShares(b) <= avail'[b]
    <3>1. CASE b # a
      BY <1>4, <1>7, <3>1
    <3>2. CASE b = a /\ side = "buy"
      BY <1>4, <1>7, <3>2
    <3>3. CASE b = a /\ side = "sell"
      <4>1. avail'[a] \in Nat /\ HeldShares(a) \in Nat /\ qty[a] \in Nat
        BY <1>4, <1>7 DEF TypeOK
      <4> QED
        BY <1>1, <1>3, <1>5, <1>7, <3>3, <4>1
    <3> QED
      BY <3>1, <3>2, <3>3 DEF Sides
  <2> QED
    BY <2>1, <2>2, <2>3 DEF HoldsCovered
<1> QED
  BY <1>7, <1>8, <1>9, <1>10

\* What a fill does: it spends from its own order's hold and takes from its own
\* order's shares, and no more than they are.
LEMMA FillFacts ==
  ASSUME CoreInv, NEW e \in Events, ApplyFill(e)
  PROVE  LET k == match[e].order
             o == order[k]
             spent == FillSpent(e)
         IN  /\ Matched(e) /\ ~Traded(e) /\ k \in Keys /\ match[e] \in Matches
             /\ match[e].quantity \in Nat /\ match[e].quantity > 0
             /\ match[e].session \in Nat /\ match[e].session <= session
             /\ match[e].final \in BOOLEAN
             /\ o \in Orders /\ SoundOrder(o) /\ o.status = "ACTIVE"
             /\ o.side \in Sides /\ o.asset \in Assets /\ o.lag \in Nat
             /\ o.quantity \in Nat /\ o.filled \in Nat /\ o.gross \in Nat
             /\ o.reserved \in Nat /\ o.consumed \in Nat
             /\ FillGross(e) \in Nat /\ FillFee(e) \in Nat /\ spent \in Nat
             /\ spent = Spent(o.side, FillGross(e), FillFee(e))
             /\ FillFee(e) = Fee(o.side, o.gross + FillGross(e)) - Fee(o.side, o.gross)
             /\ o.filled + match[e].quantity <= o.quantity
             /\ o.consumed + spent <= o.reserved
             /\ order' \in [Keys -> SoundOrders]
             /\ order' \in [Keys -> {NoOrder} \cup Orders]
             /\ \A j \in Keys \ {k} : order'[j] = order[j]
             /\ order'[k] \in Orders
             /\ order'[k].side = o.side /\ order'[k].asset = o.asset
             /\ order'[k].quantity = o.quantity /\ order'[k].limit = o.limit
             /\ order'[k].reserved = o.reserved
             /\ order'[k].filled = o.filled + match[e].quantity
             /\ order'[k].gross = o.gross + FillGross(e)
             /\ order'[k].consumed = o.consumed + spent
             /\ order'[k].status = IF o.filled + match[e].quantity = o.quantity
                                   THEN "COMPLETED"
                                   ELSE IF match[e].final THEN "CANCELLED" ELSE "ACTIVE"
<1> DEFINE k == match[e].order
           o == order[k]
           spent == FillSpent(e)
           full == o.filled + match[e].quantity = o.quantity
           o2 == [o EXCEPT !.filled = @ + match[e].quantity,
                           !.gross = @ + FillGross(e),
                           !.consumed = @ + FillSpent(e),
                           !.status = IF full THEN "COMPLETED"
                                      ELSE IF match[e].final THEN "CANCELLED" ELSE @]
<1> USE DEF CoreInv
<1>1. /\ Unapplied(e) /\ Active(k) /\ FillFits(e)
      /\ order' = [order EXCEPT ![k] = o2]
  BY DEF ApplyFill
<1>2. Matched(e) /\ ~Traded(e) /\ match[e] # NoMatch
  BY <1>1, MatchedRow DEF Unapplied
<1>3. /\ k \in Keys /\ match[e] \in Matches
      /\ match[e].quantity \in Nat /\ match[e].price \in Nat
      /\ match[e].session \in Nat /\ match[e].final \in BOOLEAN
  BY <1>2, MatchRow
<1>4. match[e].quantity > 0 /\ match[e].session <= session
  BY <1>2 DEF MatchSound
<1>5. o \in SoundOrders /\ o # NoOrder /\ o.status = "ACTIVE"
  BY <1>1, <1>3 DEF OrderSound, Active, NoOrder
<1>6. /\ o \in Orders /\ SoundOrder(o)
      /\ o.side \in Sides /\ o.asset \in Assets /\ o.lag \in Nat
      /\ o.quantity \in Nat /\ o.filled \in Nat /\ o.gross \in Nat
      /\ o.reserved \in Nat /\ o.consumed \in Nat
  BY <1>5, OrderRow
<1>7. FillGross(e) \in Nat
  BY <1>3, GrossNat DEF FillGross
<1>8. FillFee(e) = Fee(o.side, o.gross + FillGross(e)) - Fee(o.side, o.gross)
  BY DEF FillFee
<1>9. /\ FillFee(e) >= 0 /\ o.filled + match[e].quantity <= o.quantity
      /\ o.consumed + spent <= o.reserved
  BY <1>1 DEF FillFits
<1>10. FillFee(e) \in Nat
  <2>1. Fee(o.side, o.gross + FillGross(e)) \in Nat /\ Fee(o.side, o.gross) \in Nat
    BY <1>6, <1>7, FeeNat
  <2> QED
    BY <1>8, <1>9, <2>1
<1>11. spent = Spent(o.side, FillGross(e), FillFee(e)) /\ spent \in Nat
  BY <1>6, <1>7, <1>10, SpentNat DEF FillSpent
<1> HIDE DEF spent
<1>12. o2.status = IF full THEN "COMPLETED" ELSE IF match[e].final THEN "CANCELLED" ELSE "ACTIVE"
  BY <1>5, <1>6 DEF Orders
<1>13. /\ o2.side = o.side /\ o2.asset = o.asset
       /\ o2.quantity = o.quantity /\ o2.limit = o.limit /\ o2.reserved = o.reserved
       /\ o2.filled = o.filled + match[e].quantity
       /\ o2.gross = o.gross + FillGross(e)
       /\ o2.consumed = o.consumed + spent
  BY <1>6 DEF Orders, spent
<1>14. o2 \in Orders
  <2>1. /\ o.filled + match[e].quantity \in Nat /\ o.gross + FillGross(e) \in Nat
        /\ o.consumed + FillSpent(e) \in Nat
        /\ (IF full THEN "COMPLETED" ELSE IF match[e].final THEN "CANCELLED" ELSE o.status)
             \in {"ACTIVE", "COMPLETED", "CANCELLED"}
    BY <1>3, <1>5, <1>6, <1>7, <1>11 DEF spent
  <2> QED
    BY <1>6, <2>1 DEF Orders
<1> HIDE DEF o2
<1>15. o2 \in SoundOrders
  <2>1. SoundOrder(o2)
    BY <1>3, <1>5, <1>6, <1>9, <1>11, <1>12, <1>13 DEF SoundOrder
  <2> QED
    BY <1>14, <2>1 DEF SoundOrders
<1>16. order \in [Keys -> SoundOrders]
  BY DEF OrderSound
<1>17. /\ order' \in [Keys -> SoundOrders] /\ order'[k] = o2
       /\ \A j \in Keys \ {k} : order'[j] = order[j]
  BY <1>1, <1>3, <1>15, <1>16
<1>18. order' \in [Keys -> {NoOrder} \cup Orders]
  BY <1>17 DEF SoundOrders
<1> QED
  BY <1>2, <1>3, <1>4, <1>5, <1>6, <1>7, <1>8, <1>9, <1>10, <1>11, <1>12, <1>13,
     <1>14, <1>17, <1>18 DEF spent

\* The books after a fill, and what it leaves of the holds.
LEMMA FillBooks ==
  ASSUME CoreInv, NEW e \in Events, ApplyFill(e)
  PROVE  LET k == match[e].order
             o == order[k]
             spent == FillSpent(e)
         IN  /\ cash' \in Nat /\ qty' \in [Assets -> Nat] /\ avail' \in [Assets -> Nat]
             /\ trade' \in [Rows -> {NoTrade} \cup Trades]
             /\ SettledOnly'
             /\ cash' >= cash - spent
             /\ o.side = "buy" => cash' = cash - (FillGross(e) + FillFee(e))
             /\ o.side = "sell" => cash' = cash + FillGross(e) - FillFee(e)
             /\ \A b \in Assets \ {o.asset} : avail'[b] = avail[b]
             /\ o.side = "buy" => avail'[o.asset] >= avail[o.asset]
             /\ o.side = "sell" => \/ qty[o.asset] = match[e].quantity
                                   \/ avail'[o.asset] = AvailableNow(o.asset) - match[e].quantity
             /\ \A u \in Rows \ {e} : trade'[u] = ReleasedRows(o.asset)[u]
             /\ trade'[e] \in Trades
             /\ trade'[e].side = o.side /\ trade'[e].asset = o.asset
             /\ trade'[e].quantity = match[e].quantity
             /\ trade'[e].gross = FillGross(e)
             /\ trade'[e].fee = FillFee(e) /\ trade'[e].charged = FillFee(e)
             /\ UNCHANGED <<active, session, match>>
<1> DEFINE k == match[e].order
           side == order[k].side
           a == order[k].asset
           q == match[e].quantity
           lag == order[k].lag
           s == match[e].session
           gross == FillGross(e)
           fee == FillFee(e)
           spent == FillSpent(e)
<1> USE DEF CoreInv
<1>1. /\ Book(e, side, a, q, gross, fee, s, lag)
      /\ UNCHANGED <<active, session, match>>
  BY DEF ApplyFill
<1>2. /\ k \in Keys /\ ~Traded(e) /\ q \in Nat /\ q > 0 /\ s \in Nat /\ s <= session
      /\ side \in Sides /\ a \in Assets /\ lag \in Nat
      /\ order[k].status = "ACTIVE" /\ SoundOrder(order[k])
      /\ order[k].quantity \in Nat /\ order[k].filled \in Nat
      /\ order[k].reserved \in Nat /\ order[k].consumed \in Nat
      /\ gross \in Nat /\ fee \in Nat /\ spent \in Nat
      /\ spent = Spent(side, gross, fee)
      /\ order[k].filled + q <= order[k].quantity
      /\ order[k].consumed + spent <= order[k].reserved
  BY FillFacts
<1> HIDE DEF k, side, a, q, lag, s, gross, fee, spent
<1>3. HeldBy(order[k]) = order[k].reserved - order[k].consumed
  BY <1>2 DEF HeldBy
<1>4. spent <= cash
  <2>1. HeldBy(order[k]) <= HeldIn(order) /\ HeldIn(order) \in Nat
    BY <1>2, TotalsNat DEF OrderSound
  <2>2. HeldIn(order) <= cash /\ cash \in Nat
    BY HoldsAreIn DEF HoldsCovered, TypeOK
  <2> QED
    BY <1>2, <1>3, <2>1, <2>2
<1>5. side = "sell" => q <= AvailableNow(a)
  <2>1. ASSUME side = "sell"
        PROVE  SharesHeldBy(order[k], a) = order[k].quantity - order[k].filled
    BY <1>2, <2>1 DEF SharesHeldBy, side, a
  <2>2. SharesHeldBy(order[k], a) <= SharesHeldIn(order, a) /\ SharesHeldIn(order, a) \in Nat
    BY <1>2, TotalsNat DEF OrderSound
  <2>3. SharesHeldIn(order, a) <= avail[a] /\ avail[a] \in Nat
    BY <1>2, HoldsAreIn DEF HoldsCovered, TypeOK
  <2>4. AvailableNow(a) \in Nat /\ avail[a] <= AvailableNow(a)
    BY <1>2, ReleaseSettles
  <2> QED
    BY <1>2, <2>1, <2>2, <2>3, <2>4
<1>6. /\ side = "buy" => gross + fee <= cash
      /\ side = "sell" => q <= AvailableNow(a) /\ fee <= cash + gross
      /\ cash \in Nat
  BY <1>2, <1>4, <1>5 DEF Spent, TypeOK
<1>7. TypeOK /\ SettledOnly /\ session' = session /\ e \in Rows
  BY <1>1, Inputs
<1>8. /\ cash' \in Nat /\ qty' \in [Assets -> Nat] /\ avail' \in [Assets -> Nat]
      /\ trade' \in [Rows -> {NoTrade} \cup Trades]
      /\ SettledOnly'
      /\ side = "buy" => cash' = cash - (gross + fee)
      /\ side = "sell" => cash' = cash + gross - fee
      /\ \A b \in Assets \ {a} : avail'[b] = avail[b]
      /\ side = "buy" => avail'[a] >= avail[a]
      /\ side = "sell" => \/ qty[a] = q
                          \/ avail'[a] = AvailableNow(a) - q
      /\ \A u \in Rows \ {e} : trade'[u] = ReleasedRows(a)[u]
      /\ trade'[e] \in Trades
      /\ trade'[e].side = side /\ trade'[e].asset = a
      /\ trade'[e].quantity = q /\ trade'[e].gross = gross
      /\ trade'[e].fee = fee /\ trade'[e].charged = fee
  <2>1. /\ TypeOK /\ SettledOnly /\ session' = session /\ e \in Rows /\ ~Traded(e)
        /\ side \in Sides /\ a \in Assets /\ q \in Nat /\ gross \in Nat /\ fee \in Nat
        /\ s \in Nat /\ s <= session /\ lag \in Nat
        /\ Book(e, side, a, q, gross, fee, s, lag)
        /\ side = "buy" => gross + fee <= cash
        /\ side = "sell" => q <= AvailableNow(a) /\ fee <= cash + gross
    BY <1>1, <1>2, <1>6, <1>7
  <2> QED
    BY <2>1, BookSettles
<1>9. cash' >= cash - spent
  BY <1>2, <1>6, <1>8 DEF Spent, Sides
<1> QED
  BY <1>1, <1>8, <1>9 DEF k, side, a, q, lag, s, gross, fee, spent

\* A fill takes no more off the holds than its order held.
LEMMA FillHolds ==
  ASSUME CoreInv, NEW e \in Events, ApplyFill(e)
  PROVE  LET k == match[e].order
             o == order[k]
         IN  /\ HeldIn(order') = HeldIn(order) - HeldBy(o) + HeldBy(order'[k])
             /\ \A b : SharesHeldIn(order', b) = SharesHeldIn(order, b)
                         - SharesHeldBy(o, b) + SharesHeldBy(order'[k], b)
             /\ HeldBy(o) \in Nat /\ HeldBy(order'[k]) \in Nat
             /\ FillSpent(e) <= HeldBy(o)
             /\ order'[k].status = "ACTIVE" => HeldBy(order'[k]) = HeldBy(o) - FillSpent(e)
             /\ order'[k].status # "ACTIVE" => HeldBy(order'[k]) = 0
             /\ \A b : b # o.asset \/ o.side = "buy"
                  => SharesHeldBy(o, b) = 0 /\ SharesHeldBy(order'[k], b) = 0
             /\ o.side = "sell" =>
                  SharesHeldBy(order'[k], o.asset)
                    <= SharesHeldBy(o, o.asset) - match[e].quantity
<1> DEFINE k == match[e].order
           o == order[k]
           o2 == order'[k]
<1>1. /\ k \in Keys /\ match[e].quantity \in Nat
      /\ o.status = "ACTIVE"
      /\ o.quantity \in Nat /\ o.filled \in Nat /\ o.reserved \in Nat /\ o.consumed \in Nat
      /\ FillSpent(e) \in Nat /\ o.consumed + FillSpent(e) <= o.reserved
      /\ o.filled + match[e].quantity <= o.quantity
      /\ order' \in [Keys -> SoundOrders]
      /\ \A j \in Keys \ {k} : order'[j] = order[j]
      /\ o2.side = o.side /\ o2.asset = o.asset /\ o2.quantity = o.quantity
      /\ o2.reserved = o.reserved /\ o2.filled = o.filled + match[e].quantity
      /\ o2.consumed = o.consumed + FillSpent(e)
      /\ o.side \in Sides
  BY FillFacts
<1>2. order \in [Keys -> SoundOrders] /\ o \in SoundOrders /\ o2 \in SoundOrders
  BY <1>1 DEF CoreInv, OrderSound
<1>3. /\ HeldIn(order') = HeldIn(order) - HeldBy(o) + HeldBy(o2)
      /\ \A b : SharesHeldIn(order', b)
                  = SharesHeldIn(order, b) - SharesHeldBy(o, b) + SharesHeldBy(o2, b)
  BY <1>1, <1>2, OrderWritten
<1>4. HeldBy(o) \in Nat /\ HeldBy(o2) \in Nat
  BY <1>2, OrderRow
<1> HIDE DEF k, o, o2
<1>5. /\ FillSpent(e) <= HeldBy(o)
      /\ o2.status = "ACTIVE" => HeldBy(o2) = HeldBy(o) - FillSpent(e)
      /\ o2.status # "ACTIVE" => HeldBy(o2) = 0
  BY <1>1 DEF HeldBy
<1>6. \A b : b # o.asset \/ o.side = "buy" => SharesHeldBy(o, b) = 0 /\ SharesHeldBy(o2, b) = 0
  BY <1>1 DEF SharesHeldBy
<1>7. o.side = "sell" =>
        SharesHeldBy(o2, o.asset) <= SharesHeldBy(o, o.asset) - match[e].quantity
  BY <1>1 DEF SharesHeldBy
<1> QED
  BY <1>3, <1>4, <1>5, <1>6, <1>7 DEF k, o, o2

LEMMA ApplyFillCore ==
  ASSUME CoreInv, NEW e \in Events, ApplyFill(e)
  PROVE  CoreInv'
<1> DEFINE k == match[e].order
           a == order[k].asset
           q == match[e].quantity
           side == order[k].side
<1> USE DEF CoreInv
<1>1. /\ k \in Keys /\ Matched(e) /\ q \in Nat /\ FillSpent(e) \in Nat
      /\ order' \in [Keys -> SoundOrders]
      /\ order' \in [Keys -> {NoOrder} \cup Orders]
      /\ \A j \in Keys \ {k} : order'[j] = order[j]
      /\ order'[k] \in Orders
      /\ side \in Sides /\ a \in Assets
  BY FillFacts
<1>2. /\ cash' \in Nat /\ qty' \in [Assets -> Nat] /\ avail' \in [Assets -> Nat]
      /\ trade' \in [Rows -> {NoTrade} \cup Trades]
      /\ SettledOnly'
      /\ cash' >= cash - FillSpent(e)
      /\ \A b \in Assets \ {a} : avail'[b] = avail[b]
      /\ side = "buy" => avail'[a] >= avail[a]
      /\ side = "sell" => \/ qty[a] = q
                          \/ avail'[a] = AvailableNow(a) - q
      /\ \A u \in Rows \ {e} : trade'[u] = ReleasedRows(a)[u]
      /\ UNCHANGED <<active, session, match>>
  BY FillBooks
<1>3. /\ HeldIn(order') = HeldIn(order) - HeldBy(order[k]) + HeldBy(order'[k])
      /\ \A b : SharesHeldIn(order', b) = SharesHeldIn(order, b)
                  - SharesHeldBy(order[k], b) + SharesHeldBy(order'[k], b)
      /\ HeldBy(order[k]) \in Nat /\ HeldBy(order'[k]) \in Nat
      /\ FillSpent(e) <= HeldBy(order[k])
      /\ HeldBy(order'[k]) <= HeldBy(order[k]) - FillSpent(e)
      /\ \A b : b # a \/ side = "buy"
           => SharesHeldBy(order[k], b) = 0 /\ SharesHeldBy(order'[k], b) = 0
      /\ side = "sell" => SharesHeldBy(order'[k], a) <= SharesHeldBy(order[k], a) - q
  <2>1. /\ HeldBy(order[k]) \in Nat /\ FillSpent(e) <= HeldBy(order[k])
        /\ order'[k].status = "ACTIVE" => HeldBy(order'[k]) = HeldBy(order[k]) - FillSpent(e)
        /\ order'[k].status # "ACTIVE" => HeldBy(order'[k]) = 0
    BY FillHolds
  <2>2. HeldBy(order'[k]) <= HeldBy(order[k]) - FillSpent(e)
    BY <1>1, <2>1
  <2> QED
    BY <2>2, FillHolds
<1>4. TypeOK' /\ OrderSound'
  BY <1>1, <1>2 DEF TypeOK, OrderSound
<1>5. MatchSound'
  <2>1. \A d \in Events : Traded(d)' => Traded(d) \/ Matched(d)
    BY <1>1, <1>2, ReleaseKeepsTraded, Inputs DEF Traded
  <2>2. \A j \in Keys : order[j] # NoOrder => order'[j] # NoOrder
    <3>1. order'[k] # NoOrder
      BY <1>1, OrderRow DEF Orders, NoOrder
    <3> QED
      BY <1>1, <3>1
  <2>3. session' \in Nat /\ session' >= session /\ match' = match
    BY <1>2 DEF TypeOK
  <2> QED
    BY <2>1, <2>2, <2>3, MatchSoundKept
<1> HIDE DEF k, a, q, side
<1>6. HeldCash' <= cash'
  <2>1. HeldIn(order) <= cash /\ cash \in Nat /\ HeldIn(order) \in Nat
    BY HoldsAreIn, TotalsNat DEF HoldsCovered, TypeOK, OrderSound
  <2> QED
    BY <1>1, <1>2, <1>3, <2>1, HoldsAreIn
<1>7. ASSUME NEW b \in Assets
      PROVE  SharesHeldIn(order', b) <= avail'[b]
  <2>1. /\ SharesHeldIn(order, b) <= avail[b] /\ avail[b] \in Nat /\ SharesHeldIn(order, b) \in Nat
        /\ SharesHeldBy(order[k], b) \in Nat /\ SharesHeldBy(order'[k], b) \in Nat
        /\ avail'[b] \in Nat /\ qty[b] \in Nat
        /\ SharesHeldIn(order', b) = SharesHeldIn(order, b)
             - SharesHeldBy(order[k], b) + SharesHeldBy(order'[k], b)
    BY <1>1, <1>2, <1>3, HoldsAreIn, TotalsNat, OrderRow DEF HoldsCovered, TypeOK, OrderSound
  <2>2. CASE b # a
    BY <1>2, <1>3, <2>1, <2>2
  <2>3. CASE b = a /\ side = "buy"
    BY <1>2, <1>3, <2>1, <2>3
  <2>4. CASE b = a /\ side = "sell"
    <3>1. avail[a] <= AvailableNow(a) /\ AvailableNow(a) <= qty[a] /\ AvailableNow(a) \in Nat
      BY <1>1, ReleaseSettles
    <3>2. SharesHeldIn(order', a) <= SharesHeldIn(order, a) - q
      BY <1>1, <1>3, <2>1, <2>4
    <3>3. SharesHeldIn(order, a) <= avail[a] /\ avail[a] \in Nat /\ SharesHeldIn(order, a) \in Nat
          /\ avail'[a] \in Nat /\ qty[a] \in Nat /\ SharesHeldIn(order', a) \in Int
      BY <2>1, <2>4
    <3> QED
      BY <1>1, <1>2, <2>4, <3>1, <3>2, <3>3
  <2> QED
    BY <1>1, <2>2, <2>3, <2>4 DEF Sides
<1>8. HoldsCovered'
  BY <1>6, <1>7, HoldsAreIn DEF HoldsCovered
<1> QED
  BY <1>2, <1>4, <1>5, <1>8

LEMMA CancelCore ==
  ASSUME CoreInv, NEW k \in Keys, Cancel(k)
  PROVE  CoreInv'
<1> USE DEF CoreInv
<1>1. /\ order[k].status = "ACTIVE"
      /\ order' = [order EXCEPT ![k].status = "CANCELLED"]
      /\ UNCHANGED <<active, session, cash, qty, avail, match, trade>>
  BY DEF Cancel, Active
<1>2. order \in [Keys -> SoundOrders]
  BY DEF OrderSound
<1>3. order[k] \in Orders /\ SoundOrder(order[k]) /\ order[k] \in SoundOrders
  BY <1>1, <1>2, OrderRow DEF NoOrder
<1>4. /\ order'[k] = [order[k] EXCEPT !.status = "CANCELLED"]
      /\ \A j \in Keys \ {k} : order'[j] = order[j]
  BY <1>1, <1>2
<1>5. order'[k] \in Orders /\ order'[k].status = "CANCELLED" /\ SoundOrder(order'[k])
  BY <1>3, <1>4 DEF Orders, SoundOrder
<1>6. order' \in [Keys -> SoundOrders]
  <2>1. order'[k] \in SoundOrders
    BY <1>5 DEF SoundOrders
  <2>2. DOMAIN order' = Keys /\ order' = [j \in Keys |-> order'[j]]
    BY <1>1, <1>2
  <2> QED
    BY <1>2, <1>4, <2>1, <2>2
<1>7. HeldBy(order'[k]) = 0 /\ \A b : SharesHeldBy(order'[k], b) = 0
  BY <1>5 DEF HeldBy, SharesHeldBy
<1>8. /\ HeldIn(order') = HeldIn(order) - HeldBy(order[k]) + HeldBy(order'[k])
      /\ \A b : SharesHeldIn(order', b)
                  = SharesHeldIn(order, b) - SharesHeldBy(order[k], b) + SharesHeldBy(order'[k], b)
  BY <1>2, <1>4, <1>6, OrderWritten
<1>9. /\ HeldIn(order) \in Nat /\ HeldBy(order[k]) \in Nat
      /\ \A b : SharesHeldIn(order, b) \in Nat /\ SharesHeldBy(order[k], b) \in Nat
  BY <1>2, <1>3, TotalsNat, OrderRow
<1>10. HoldsCovered'
  <2>1. HeldIn(order) <= cash /\ cash \in Nat /\ cash' = cash /\ avail' = avail
        /\ \A b \in Assets : SharesHeldIn(order, b) <= avail[b] /\ avail[b] \in Nat
    BY <1>1, HoldsAreIn DEF HoldsCovered, TypeOK
  <2>2. HeldIn(order') <= cash'
    BY <1>7, <1>8, <1>9, <2>1
  <2>3. \A b \in Assets : SharesHeldIn(order', b) <= avail'[b]
    BY <1>7, <1>8, <1>9, <2>1
  <2> QED
    BY <2>2, <2>3, HoldsAreIn DEF HoldsCovered
<1>11. TypeOK' /\ OrderSound'
  BY <1>1, <1>6, OrdersTyped DEF TypeOK, OrderSound
<1>12. MatchSound'
  <2>1. \A j \in Keys : order[j] # NoOrder => order'[j] # NoOrder
    BY <1>4, <1>5, OrderRow DEF NoOrder
  <2>2. session' \in Nat /\ session' >= session /\ match' = match
        /\ \A d \in Events : Traded(d)' => Traded(d)
    BY <1>1 DEF TypeOK, Traded
  <2> QED
    BY <2>1, <2>2, MatchSoundKept
<1>13. SettledOnly'
  BY <1>1 DEF SettledOnly, PendingShares, PendingOf, Pending, Traded
<1> QED
  BY <1>10, <1>11, <1>12, <1>13

LEMMA FloorStepFacts ==
  ASSUME NEW n \in Nat, NEW step \in Steps
  PROVE  FloorStep(n, step) \in Nat /\ FloorStep(n, step) <= n
<1>1. ASSUME NEW d \in Nat \ {0}
      PROVE  (n \div d) * d <= n
  OBVIOUS
<1>2. ASSUME NEW d \in Nat \ {0}
      PROVE  n \div d \in Nat
  OBVIOUS
<1>3. ASSUME NEW m \in Nat, NEW d \in Nat \ {0}
      PROVE  m * d \in Nat
  OBVIOUS
<1>4. step \in Nat \ {0}
  BY LedgerAssumption
<1> QED
  BY <1>1, <1>2, <1>3, <1>4 DEF FloorStep

LEMMA MatchedSharesNat ==
  ASSUME TypeOK, NEW a, NEW s
  PROVE  /\ [e \in Events |-> MatchedOf(e, a, s)] \in [Events -> Nat]
         /\ MatchedShares(a, s) \in Nat
<1>1. \A e \in Events : MatchedOf(e, a, s) \in Nat
  BY MatchRow, MatchedRow DEF MatchedOf
<1>2. [e \in Events |-> MatchedOf(e, a, s)] \in [Events -> Nat]
  BY <1>1
<1> QED
  BY <1>2, RowsFinite, UnitsFinite DEF MatchedShares

\* A match takes no more than what the session's capacity and the order leave.
LEMMA MatchQuantityFacts ==
  ASSUME TypeOK, OrderSound, NEW k \in Keys, order[k].status = "ACTIVE", NEW s, NEW close,
         NEW capacity \in Capacities, NEW step \in Steps,
         MatchedShares(order[k].asset, s) <= capacity
  PROVE  LET q == MatchQuantity(k, s, close, capacity, step)
         IN  /\ q \in Nat
             /\ q <= Remaining(k) /\ Remaining(k) \in Nat
             /\ MatchedShares(order[k].asset, s) + q <= capacity
             /\ q > 0 => Crosses(k, close)
<1> DEFINE room == FloorStep(capacity - MatchedShares(order[k].asset, s), step)
           least == Least(room, Remaining(k))
<1>1. Remaining(k) \in Nat
  <2>1. order[k] \in SoundOrders /\ order[k] # NoOrder
    BY DEF OrderSound, NoOrder
  <2> QED
    BY <2>1, OrderRow DEF Remaining, SoundOrder
<1>2. MatchedShares(order[k].asset, s) \in Nat /\ capacity \in Nat
  BY MatchedSharesNat, Inputs
<1>3. room \in Nat /\ room <= capacity - MatchedShares(order[k].asset, s)
  <2>1. capacity - MatchedShares(order[k].asset, s) \in Nat
    BY <1>2
  <2> QED
    BY <2>1, FloorStepFacts
<1> HIDE DEF room
<1>4. least \in Nat /\ least <= room /\ least <= Remaining(k)
  BY <1>1, <1>3 DEF Least
<1>5. MatchQuantity(k, s, close, capacity, step) = IF Crosses(k, close) THEN FloorStep(least, step) ELSE 0
  BY DEF MatchQuantity, Room, room
<1> HIDE DEF least
<1>6. FloorStep(least, step) \in Nat /\ FloorStep(least, step) <= least
  BY <1>4, FloorStepFacts
<1> QED
  BY <1>1, <1>2, <1>3, <1>4, <1>5, <1>6

LEMMA RecordMatchCore ==
  ASSUME CoreInv, NEW e \in Events, NEW k \in Keys, NEW s \in 0 .. session,
         NEW close \in Prices, NEW capacity \in Capacities, NEW step \in Steps,
         RecordMatch(e, k, s, close, capacity, step)
  PROVE  CoreInv'
<1> DEFINE q == MatchQuantity(k, s, close, capacity, step)
           m == [outcome |-> IF q > 0 THEN "MATCHED" ELSE "NO_MATCH", order |-> k,
                 session |-> s, capacity |-> capacity, price |-> close, quantity |-> q,
                 final |-> q = Remaining(k)]
<1> USE DEF CoreInv
<1>1. /\ order[k].status = "ACTIVE" /\ match[e] = NoMatch
      /\ MatchedShares(order[k].asset, s) <= capacity
      /\ match' = [match EXCEPT ![e] = m]
      /\ UNCHANGED <<active, session, cash, qty, avail, order, trade>>
  BY DEF RecordMatch, Active
<1>2. q \in Nat
  BY <1>1, MatchQuantityFacts
<1>3. close \in Nat /\ close > 0 /\ session \in Nat /\ s \in Nat /\ s <= session
  BY Inputs DEF TypeOK
<1> HIDE DEF q
<1>4. m \in Matches
  BY <1>2, <1>3, Inputs DEF Matches
<1>5. /\ m.order = k /\ m.session = s /\ m.price = close /\ m.quantity = q
      /\ m.outcome = "MATCHED" => q > 0
  OBVIOUS
<1> HIDE DEF m
<1>6. match' \in [Events -> {NoMatch} \cup Matches]
      /\ match'[e] = m /\ \A d \in Events \ {e} : match'[d] = match[d]
  BY <1>1, <1>4 DEF TypeOK
<1>7. TypeOK' /\ OrderSound'
  BY <1>1, <1>6, OrdersTyped DEF TypeOK, OrderSound
<1>8. MatchSound'
  <2>1. ~Traded(e)
    BY <1>1, MatchedRow DEF MatchSound
  <2>2. order[k] # NoOrder
    BY <1>1 DEF NoOrder
  <2>3. ASSUME NEW d \in Events
        PROVE  /\ match'[d] # NoMatch =>
                    order'[match'[d].order] # NoOrder /\ match'[d].session <= session'
               /\ match'[d].outcome = "MATCHED" => match'[d].quantity > 0 /\ match'[d].price > 0
               /\ Traded(d)' => match'[d].outcome = "MATCHED"
    <3>1. CASE d = e
      BY <1>1, <1>3, <1>5, <1>6, <2>1, <2>2, <3>1 DEF Traded
    <3>2. CASE d # e
      BY <1>1, <1>6, <3>2 DEF MatchSound, Matched, Traded
    <3> QED
      BY <3>1, <3>2
  <2> QED
    BY <2>3 DEF MatchSound, Matched
<1>9. HoldsCovered'
  BY <1>1, HoldsAreIn DEF HoldsCovered
<1>10. SettledOnly'
  BY <1>1 DEF SettledOnly, PendingShares, PendingOf, Pending, Traded
<1> QED
  BY <1>7, <1>8, <1>9, <1>10

LEMMA ReleaseDueCore ==
  ASSUME CoreInv, NEW a \in Assets, ReleaseDue(a)
  PROVE  CoreInv'
<1> USE DEF CoreInv
<1>1. /\ avail' = [avail EXCEPT ![a] = AvailableNow(a)]
      /\ trade' = ReleasedRows(a)
      /\ UNCHANGED <<active, session, cash, qty, order, match>>
  BY DEF ReleaseDue
<1>2. /\ AvailableNow(a) \in Nat /\ AvailableNow(a) >= avail[a]
      /\ AvailableNow(a) + PendingIn(ReleasedRows(a), a) = qty[a]
      /\ \A b \in Assets \ {a} : avail[b] + PendingIn(ReleasedRows(a), b) = qty[b]
      /\ \A u \in Rows : ReleasedRows(a)[u].side # "none"
             /\ ReleasedRows(a)[u].settlement = "released"
           => session >= ReleasedRows(a)[u].session + ReleasedRows(a)[u].lag
  BY ReleaseSettles
<1>3. /\ avail \in [Assets -> Nat] /\ avail' \in [Assets -> Nat]
      /\ avail'[a] = AvailableNow(a) /\ \A b \in Assets \ {a} : avail'[b] = avail[b]
  BY <1>1, <1>2 DEF TypeOK
<1>4. TypeOK' /\ OrderSound'
  BY <1>1, <1>3, Released, OrdersTyped DEF TypeOK, OrderSound
<1>5. MatchSound'
  <2>1. session' \in Nat /\ session' >= session /\ match' = match /\ order' = order
        /\ \A d \in Events : Traded(d)' => Traded(d)
    BY <1>1, ReleaseKeepsTraded, Inputs DEF TypeOK, Traded
  <2> QED
    BY <2>1, MatchSoundKept
<1>6. HoldsCovered'
  <2>1. ASSUME NEW b \in Assets
        PROVE  SharesHeldIn(order', b) <= avail'[b]
    <3>1. SharesHeldIn(order, b) <= avail[b] /\ avail[b] \in Nat /\ SharesHeldIn(order, b) \in Nat
      BY <1>3, HoldsAreIn, TotalsNat DEF HoldsCovered, OrderSound
    <3> QED
      BY <1>1, <1>2, <1>3, <3>1
  <2> QED
    BY <1>1, <2>1, HoldsAreIn DEF HoldsCovered
<1>7. SettledOnly'
  BY <1>1, <1>2, <1>3, HoldsAreIn DEF SettledOnly, Traded
<1> QED
  BY <1>4, <1>5, <1>6, <1>7

\* Without an active order nothing is held.
LEMMA NothingHeld ==
  ASSUME OrderSound, NoActiveOrders
  PROVE  /\ HeldIn(order) = 0 /\ \A a : SharesHeldIn(order, a) = 0
         /\ \A k \in Keys : Held(k) = 0
<1>1. \A k \in Keys : HeldBy(order[k]) = 0 /\ \A a : SharesHeldBy(order[k], a) = 0
  BY DEF NoActiveOrders, Active, HeldBy, SharesHeldBy
<1>2. HeldIn(order) = 0
  <2>1. [k \in Keys |-> HeldBy(order[k])] \in [Keys -> Nat]
    BY <1>1
  <2> QED
    BY <1>1, <2>1, TotalZero DEF HeldIn
<1>3. ASSUME NEW a
      PROVE  SharesHeldIn(order, a) = 0
  <2>1. [k \in Keys |-> SharesHeldBy(order[k], a)] \in [Keys -> Nat]
    BY <1>1
  <2> QED
    BY <1>1, <2>1, TotalZero DEF SharesHeldIn
<1> QED
  BY <1>2, <1>3 DEF NoActiveOrders, Held

LEMMA CorrectFeeCore ==
  ASSUME CoreInv, NEW t \in Rows, NEW fee \in Corrections, CorrectFee(t, fee)
  PROVE  CoreInv'
<1> USE DEF CoreInv
<1>1. /\ Traded(t) /\ NoActiveOrders
      /\ cash + trade[t].charged - fee >= 0
      /\ cash' = cash + trade[t].charged - fee
      /\ trade' = [trade EXCEPT ![t].charged = fee, ![t].corrected = TRUE]
      /\ UNCHANGED <<active, session, qty, avail, order, match>>
  BY DEF CorrectFee
<1>2. fee \in Nat /\ cash \in Nat /\ trade[t] \in Trades /\ trade[t].charged \in Nat
      /\ trade \in [Rows -> {NoTrade} \cup Trades]
  BY <1>1, Inputs, TradeRow DEF TypeOK, Traded
<1>3. /\ trade'[t] \in Trades /\ trade'[t].side = trade[t].side
      /\ trade'[t].asset = trade[t].asset
      /\ trade'[t].quantity = trade[t].quantity
      /\ trade'[t].session = trade[t].session
      /\ trade'[t].lag = trade[t].lag
      /\ trade'[t].settlement = trade[t].settlement
      /\ trade' = [trade EXCEPT ![t] = trade'[t]]
      /\ \A u \in Rows \ {t} : trade'[u] = trade[u]
  <2>1. trade'[t] = [trade[t] EXCEPT !.charged = fee, !.corrected = TRUE]
        /\ trade' = [trade EXCEPT ![t] = trade'[t]]
        /\ \A u \in Rows \ {t} : trade'[u] = trade[u]
    BY <1>1, <1>2
  <2> QED
    BY <1>2, <2>1 DEF Trades
<1>4. trade' \in [Rows -> {NoTrade} \cup Trades]
  BY <1>2, <1>3
<1>5. TypeOK' /\ OrderSound'
  BY <1>1, <1>2, <1>4, OrdersTyped DEF TypeOK, OrderSound
<1>6. MatchSound'
  <2>1. session' \in Nat /\ session' >= session /\ match' = match /\ order' = order
        /\ \A d \in Events : Traded(d)' => Traded(d)
    BY <1>1, <1>3, Inputs DEF TypeOK, Traded
  <2> QED
    BY <2>1, MatchSoundKept
<1>7. HoldsCovered'
  <2>1. HeldIn(order') = 0 /\ \A b : SharesHeldIn(order', b) = 0
    BY <1>1, NothingHeld
  <2>2. 0 <= cash' /\ \A b \in Assets : 0 <= avail'[b]
    BY <1>5 DEF TypeOK
  <2> QED
    BY <2>1, <2>2, HoldsAreIn DEF HoldsCovered
<1>8. SettledOnly'
  <2>1. \A u \in Rows : /\ trade'[u].side = trade[u].side
                        /\ Traded(u) => /\ trade'[u].settlement = trade[u].settlement
                                        /\ trade'[u].session = trade[u].session
                                        /\ trade'[u].lag = trade[u].lag
    BY <1>3
  <2>2. \A u \in Rows : \A b : PendingBy(trade'[u], b) = PendingBy(trade[u], b)
    BY <1>3 DEF PendingBy
  <2>3. \A b : PendingIn(trade', b) = PendingIn(trade, b)
    BY <2>2 DEF PendingIn
  <2>4. \A b \in Assets : avail'[b] + PendingIn(trade', b) = qty'[b]
    BY <1>1, <2>3, HoldsAreIn DEF SettledOnly
  <2>5. \A u \in Rows : trade'[u].side # "none" /\ trade'[u].settlement = "released"
          => session' >= trade'[u].session + trade'[u].lag
    BY <1>1, <2>1 DEF SettledOnly, Traded
  <2> QED
    BY <2>4, <2>5, HoldsAreIn DEF SettledOnly, Traded
<1> QED
  BY <1>5, <1>6, <1>7, <1>8

LEMMA ResetCore ==
  ASSUME CoreInv, Reset
  PROVE  CoreInv'
<1> USE DEF CoreInv
<1>1. /\ NoActiveOrders
      /\ \A e \in Events : match[e] = NoMatch
      /\ cash' = InitialCash
      /\ qty' = [a \in Assets |-> 0] /\ avail' = [a \in Assets |-> 0]
      /\ trade' = [t \in Rows |-> NoTrade]
      /\ UNCHANGED <<active, session, order, match>>
  BY DEF Reset
<1>2. \A t \in Rows : trade'[t].side = "none" /\ \A a : PendingBy(trade'[t], a) = 0
  BY <1>1 DEF NoTrade, PendingBy
<1>3. \A a : PendingIn(trade', a) = 0
  <2>1. ASSUME NEW a
        PROVE  PendingIn(trade', a) = 0
    <3>1. [t \in Rows |-> PendingBy(trade'[t], a)] \in [Rows -> Nat]
      BY <1>2
    <3> QED
      BY <1>2, <3>1, TotalZero DEF PendingIn
  <2> QED
    BY <2>1
<1>4. HeldIn(order') = 0 /\ \A a : SharesHeldIn(order', a) = 0
  BY <1>1, NothingHeld
<1>5. TypeOK' /\ OrderSound'
  BY <1>1, OrdersTyped, Inputs DEF TypeOK, OrderSound
<1>6. MatchSound'
  BY <1>1, <1>2, Inputs DEF MatchSound, Matched, NoMatch, Traded
<1>7. HoldsCovered'
  BY <1>1, <1>4, HoldsAreIn, Inputs DEF HoldsCovered
<1>8. SettledOnly'
  BY <1>1, <1>2, <1>3, HoldsAreIn DEF SettledOnly, Traded
<1> QED
  BY <1>5, <1>6, <1>7, <1>8

\* Steps of the account and of the calendar, and stuttering.
LEMMA FrameCore ==
  ASSUME CoreInv, UNCHANGED <<cash, qty, avail, order, match, trade>>,
         active' \in BOOLEAN, session' \in Nat, session' >= session
  PROVE  CoreInv'
<1> USE DEF CoreInv
<1>1. TypeOK' /\ OrderSound'
  BY OrdersTyped DEF TypeOK, OrderSound
<1>2. MatchSound'
  BY MatchSoundKept DEF Traded
<1>3. HoldsCovered'
  BY HoldsAreIn DEF HoldsCovered
<1>4. SettledOnly'
  <2>1. ASSUME NEW t \in Rows, trade[t].side # "none", trade[t].settlement = "released"
        PROVE  session' >= trade[t].session + trade[t].lag
    <3>1. session >= trade[t].session + trade[t].lag
      BY <2>1 DEF SettledOnly, Traded
    <3>2. trade[t].session \in Nat /\ trade[t].lag \in Nat /\ session \in Nat
      BY <2>1, TradeRow DEF TypeOK
    <3> QED
      BY <3>1, <3>2
  <2> QED
    BY <2>1, HoldsAreIn DEF SettledOnly, Traded
<1> QED
  BY <1>1, <1>2, <1>3, <1>4

LEMMA InitCore == Init => CoreInv
<1> SUFFICES ASSUME Init PROVE CoreInv
  OBVIOUS
<1> USE DEF Init
<1>1. order \in [Keys -> SoundOrders] /\ \A k \in Keys : order[k].status = "none"
  BY DEF SoundOrders, NoOrder
<1>2. NoActiveOrders
  BY <1>1 DEF NoActiveOrders, Active
<1>3. HeldIn(order) = 0 /\ \A a : SharesHeldIn(order, a) = 0
  BY <1>1, <1>2, NothingHeld DEF OrderSound
<1>4. \A t \in Rows : trade[t].side = "none" /\ \A a : PendingBy(trade[t], a) = 0
  BY DEF NoTrade, PendingBy
<1>5. \A a : PendingIn(trade, a) = 0
  <2>1. ASSUME NEW a
        PROVE  PendingIn(trade, a) = 0
    <3>1. [t \in Rows |-> PendingBy(trade[t], a)] \in [Rows -> Nat]
      BY <1>4
    <3> QED
      BY <1>4, <3>1, TotalZero DEF PendingIn
  <2> QED
    BY <2>1
<1>6. OrderSound
  BY <1>1 DEF OrderSound
<1>7. TypeOK
  BY <1>6, OrdersTyped, Inputs DEF TypeOK
<1>8. MatchSound
  BY <1>4, Inputs DEF MatchSound, Matched, NoMatch, Traded
<1>9. HoldsCovered
  BY <1>3, HoldsAreIn, Inputs DEF HoldsCovered
<1>10. SettledOnly
  BY <1>4, <1>5, HoldsAreIn DEF SettledOnly, Traded
<1> QED
  BY <1>6, <1>7, <1>8, <1>9, <1>10 DEF CoreInv

LEMMA CoreStep == CoreInv /\ [Next]_vars => CoreInv'
<1> SUFFICES ASSUME CoreInv, [Next]_vars PROVE CoreInv'
  OBVIOUS
<1>1. session \in Nat /\ session + 1 \in Nat /\ session <= session + 1 /\ active \in BOOLEAN
  BY DEF CoreInv, TypeOK
<1>2. ASSUME NEW k \in Keys, NEW side \in Sides, NEW a \in Assets, NEW q \in Quantities,
             NEW p \in Prices, NEW lag \in Lags, NEW budget \in Budgets,
             Reserve(k, side, a, q, p, lag, budget)
      PROVE  CoreInv'
  BY <1>2, ReserveCore
<1>3. ASSUME NEW k \in Keys, NEW side \in Sides, NEW a \in Assets, NEW q \in Quantities,
             NEW p \in Prices, NEW lag \in Lags, ExecuteTrade(k, side, a, q, p, lag)
      PROVE  CoreInv'
  BY <1>3, ExecuteTradeCore
<1>4. ASSUME NEW k \in Keys, Cancel(k) PROVE CoreInv'
  BY <1>4, CancelCore
<1>5. ASSUME NEW e \in Events, NEW k \in Keys, NEW s \in 0 .. session, NEW close \in Prices,
             NEW capacity \in Capacities, NEW step \in Steps,
             RecordMatch(e, k, s, close, capacity, step)
      PROVE  CoreInv'
  BY <1>5, RecordMatchCore
<1>6. ASSUME NEW e \in Events, ApplyFill(e) PROVE CoreInv'
  BY <1>6, ApplyFillCore
<1>7. ASSUME NEW a \in Assets, ReleaseDue(a) PROVE CoreInv'
  BY <1>7, ReleaseDueCore
<1>8. ASSUME NEW t \in Rows, NEW fee \in Corrections, CorrectFee(t, fee) PROVE CoreInv'
  BY <1>8, CorrectFeeCore
<1>9. CASE Deactivate
  <2>1. active' \in BOOLEAN
    BY <1>9 DEF Deactivate
  <2>2. session' = session /\ UNCHANGED <<cash, qty, avail, order, match, trade>>
    BY <1>9 DEF Deactivate
  <2>3. session' \in Nat /\ session' >= session
    BY <1>1, <2>2
  <2> QED
    BY <2>1, <2>2, <2>3, FrameCore
<1>10. CASE Reactivate
  <2>1. active' \in BOOLEAN
    BY <1>10 DEF Reactivate
  <2>2. session' = session /\ UNCHANGED <<cash, qty, avail, order, match, trade>>
    BY <1>10 DEF Reactivate
  <2>3. session' \in Nat /\ session' >= session
    BY <1>1, <2>2
  <2> QED
    BY <2>1, <2>2, <2>3, FrameCore
<1>11. CASE Reset
  BY <1>11, ResetCore
<1>12. CASE NextSession
  BY <1>1, <1>12, FrameCore DEF NextSession
<1>13. CASE UNCHANGED vars
  BY <1>1, <1>13, FrameCore DEF vars
<1> QED
  BY <1>2, <1>3, <1>4, <1>5, <1>6, <1>7, <1>8, <1>9, <1>10, <1>11, <1>12, <1>13 DEF Next

THEOREM CoreAlways == Spec => []CoreInv
BY InitCore, CoreStep, PTL DEF Spec

\* Amounts, holds and counters are never negative: no operation takes cash or
\* shares below zero, whatever the orders, prices and fees.
THEOREM LedgerTypes == Spec => []TypeOK
BY CoreAlways, PTL DEF CoreInv

\* The cash and the shares held for all active orders are always there.
THEOREM HoldsAreCovered == Spec => []HoldsCovered
BY CoreAlways, PTL DEF CoreInv

\* Shares are sellable exactly when released, and released only after their lag.
THEOREM SharesSettle == Spec => []SettledOnly
BY CoreAlways, PTL DEF CoreInv

\* A key serves one order or one direct trade: reserving refuses the key of a
\* trade, trading that of an order, and a reset forgets no order.
THEOREM KeysServeOnce == Spec => []KeyUsedOnce
<1>1. Init => KeyUsedOnce
  BY DEF Init, KeyUsedOnce, Traded, NoTrade
<1>2. CoreInv /\ KeyUsedOnce /\ [Next]_vars => KeyUsedOnce'
  <2> SUFFICES ASSUME CoreInv, KeyUsedOnce, [Next]_vars PROVE KeyUsedOnce'
    OBVIOUS
  <2> USE DEF KeyUsedOnce, Traded
  <2>1. /\ order \in [Keys -> {NoOrder} \cup Orders]
        /\ trade \in [Rows -> {NoTrade} \cup Trades]
        /\ TypeOK
    BY DEF CoreInv, TypeOK
  <2>2. ASSUME NEW k \in Keys, NEW side \in Sides, NEW a \in Assets, NEW q \in Quantities,
               NEW p \in Prices, NEW lag \in Lags, NEW budget \in Budgets,
               Reserve(k, side, a, q, p, lag, budget)
        PROVE  KeyUsedOnce'
    <3>1. /\ trade[k].side = "none" /\ trade' = ReleasedRows(a)
          /\ \A j \in Keys \ {k} : order'[j] = order[j]
      BY <2>1, <2>2 DEF Reserve, KeyFree
    <3>2. \A j \in Keys : trade'[j].side = trade[j].side
      BY <2>1, <3>1, ReleaseKeepsTraded, Inputs
    <3> QED
      BY <3>1, <3>2
  <2>3. ASSUME NEW k \in Keys, NEW side \in Sides, NEW a \in Assets, NEW q \in Quantities,
               NEW p \in Prices, NEW lag \in Lags, ExecuteTrade(k, side, a, q, p, lag)
        PROVE  KeyUsedOnce'
    <3> DEFINE r == [side |-> side, asset |-> a, quantity |-> q, gross |-> Gross(q, p),
                     fee |-> Fee(side, Gross(q, p)), charged |-> Fee(side, Gross(q, p)),
                     corrected |-> FALSE, session |-> session, lag |-> lag,
                     settlement |-> IF side = "sell" THEN "none"
                                    ELSE IF lag = 0 THEN "released" ELSE "pending"]
    <3>1. order[k] = NoOrder /\ order' = order
          /\ trade' = [ReleasedRows(a) EXCEPT ![k] = r]
      BY <2>3 DEF ExecuteTrade, KeyFree, Book
    <3> HIDE DEF r
    <3>2. \A j \in Keys \ {k} : trade'[j].side = trade[j].side
      BY <2>1, <3>1, ReleaseKeepsTraded, Released, Inputs
    <3> QED
      BY <3>1, <3>2
  <2>4. ASSUME NEW k \in Keys, Cancel(k) PROVE KeyUsedOnce'
    BY <2>1, <2>4 DEF Cancel, Active, NoOrder
  <2>5. ASSUME NEW e \in Events, ApplyFill(e) PROVE KeyUsedOnce'
    <3>1. /\ match[e].order \in Keys /\ order[match[e].order] # NoOrder
          /\ \A j \in Keys \ {match[e].order} : order'[j] = order[j]
          /\ order[match[e].order].asset \in Assets
      BY <2>5, FillFacts DEF NoOrder
    <3>2. \A u \in Rows \ {e} : trade'[u] = ReleasedRows(order[match[e].order].asset)[u]
      BY <2>5, FillBooks
    <3>3. \A j \in Keys : trade'[j].side = trade[j].side
      BY <2>1, <3>1, <3>2, ReleaseKeepsTraded, Inputs
    <3> QED
      BY <3>1, <3>3
  <2>6. ASSUME NEW a \in Assets, ReleaseDue(a) PROVE KeyUsedOnce'
    BY <2>1, <2>6, ReleaseKeepsTraded, Inputs DEF ReleaseDue
  <2>7. ASSUME NEW t \in Rows, NEW fee \in Corrections, CorrectFee(t, fee) PROVE KeyUsedOnce'
    <3>1. /\ order' = order /\ Traded(t)
          /\ trade' = [trade EXCEPT ![t].charged = fee, ![t].corrected = TRUE]
      BY <2>7 DEF CorrectFee
    <3>2. trade'[t].side = trade[t].side /\ \A u \in Rows \ {t} : trade'[u] = trade[u]
      BY <2>1, <3>1, TradeRow DEF Trades
    <3> QED
      BY <3>1, <3>2, Inputs
  <2>8. CASE Reset
    BY <2>8, Inputs DEF Reset, NoTrade
  <2>9. CASE \/ \E e \in Events, k \in Keys, s \in 0 .. session, close \in Prices,
                   capacity \in Capacities, step \in Steps :
                  RecordMatch(e, k, s, close, capacity, step)
             \/ Deactivate \/ Reactivate \/ NextSession \/ UNCHANGED vars
    BY <2>9 DEF RecordMatch, Deactivate, Reactivate, NextSession, vars
  <2> QED
    BY <2>2, <2>3, <2>4, <2>5, <2>6, <2>7, <2>8, <2>9 DEF Next
<1> QED
  BY <1>1, <1>2, CoreAlways, PTL DEF Spec

----------------------------------------------------------------------------
\* What a step leaves of the orders, of the decisions and of the trade rows.

\* What each action leaves alone.
LEMMA Frames ==
  /\ \A k, side, a, q, p, lag, budget : Reserve(k, side, a, q, p, lag, budget)
       => /\ session' = session /\ cash' = cash /\ qty' = qty /\ match' = match
          /\ trade' = ReleasedRows(a)
  /\ \A k, side, a, q, p, lag : ExecuteTrade(k, side, a, q, p, lag)
       => session' = session /\ order' = order /\ match' = match
  /\ \A k : Cancel(k)
       => /\ session' = session /\ cash' = cash /\ qty' = qty /\ match' = match
          /\ trade' = trade
  /\ \A e, k, s, close, capacity, step : RecordMatch(e, k, s, close, capacity, step)
       => /\ session' = session /\ cash' = cash /\ qty' = qty /\ order' = order
          /\ trade' = trade
  /\ \A e : ApplyFill(e) => session' = session /\ match' = match
  /\ \A a : ReleaseDue(a)
       => /\ session' = session /\ cash' = cash /\ qty' = qty /\ order' = order
          /\ match' = match /\ trade' = ReleasedRows(a)
  /\ \A t, fee : CorrectFee(t, fee)
       => session' = session /\ qty' = qty /\ order' = order /\ match' = match
  /\ Reset => session' = session /\ order' = order /\ match' = match
  /\ Deactivate \/ Reactivate \/ NextSession \/ UNCHANGED vars
       => /\ cash' = cash /\ qty' = qty /\ order' = order /\ match' = match
          /\ trade' = trade
  /\ Deactivate \/ Reactivate \/ UNCHANGED vars => session' = session
<1>1. \A k, side, a, q, p, lag, budget : Reserve(k, side, a, q, p, lag, budget)
        => /\ session' = session /\ cash' = cash /\ qty' = qty /\ match' = match
           /\ trade' = ReleasedRows(a)
  BY DEF Reserve
<1>2. \A k, side, a, q, p, lag : ExecuteTrade(k, side, a, q, p, lag)
        => session' = session /\ order' = order /\ match' = match
  BY DEF ExecuteTrade
<1>3. \A e : ApplyFill(e) => session' = session /\ match' = match
  BY DEF ApplyFill
<1>4. \A t, fee : CorrectFee(t, fee)
        => session' = session /\ qty' = qty /\ order' = order /\ match' = match
  BY DEF CorrectFee
<1>5. /\ \A k : Cancel(k)
           => /\ session' = session /\ cash' = cash /\ qty' = qty /\ match' = match
              /\ trade' = trade
      /\ \A e, k, s, close, capacity, step : RecordMatch(e, k, s, close, capacity, step)
           => /\ session' = session /\ cash' = cash /\ qty' = qty /\ order' = order
              /\ trade' = trade
      /\ \A a : ReleaseDue(a)
           => /\ session' = session /\ cash' = cash /\ qty' = qty /\ order' = order
              /\ match' = match /\ trade' = ReleasedRows(a)
  BY DEF Cancel, RecordMatch, ReleaseDue
<1>6. /\ Reset => session' = session /\ order' = order /\ match' = match
      /\ Deactivate \/ Reactivate \/ NextSession \/ UNCHANGED vars
           => /\ cash' = cash /\ qty' = qty /\ order' = order /\ match' = match
              /\ trade' = trade
      /\ Deactivate \/ Reactivate \/ UNCHANGED vars => session' = session
  BY DEF Reset, Deactivate, Reactivate, NextSession, vars
<1> QED
  BY <1>1, <1>2, <1>3, <1>4, <1>5, <1>6

\* An order keeps what it was opened with, and a terminal one everything.
OrderKept(k) ==
  order[k] # NoOrder =>
    /\ order'[k] # NoOrder
    /\ order'[k].side = order[k].side /\ order'[k].asset = order[k].asset
    /\ order'[k].quantity = order[k].quantity /\ order'[k].limit = order[k].limit
    /\ ~Active(k) => order'[k] = order[k]

LEMMA OrdersKept ==
  ASSUME CoreInv, [Next]_vars
  PROVE  \A k \in Keys : OrderKept(k)
<1>1. order \in [Keys -> SoundOrders]
  BY DEF CoreInv, OrderSound
<1>2. CASE order' = order
  BY <1>2 DEF OrderKept
<1>3. ASSUME NEW k \in Keys, NEW side \in Sides, NEW a \in Assets, NEW q \in Quantities,
             NEW p \in Prices, NEW lag \in Lags, NEW budget \in Budgets,
             Reserve(k, side, a, q, p, lag, budget)
      PROVE  \A j \in Keys : OrderKept(j)
  <2>1. order[k] = NoOrder /\ \A j \in Keys \ {k} : order'[j] = order[j]
    BY <1>1, <1>3 DEF Reserve, KeyFree
  <2> QED
    BY <2>1 DEF OrderKept
<1>4. ASSUME NEW k \in Keys, Cancel(k) PROVE \A j \in Keys : OrderKept(j)
  <2>1. /\ Active(k) /\ order'[k] = [order[k] EXCEPT !.status = "CANCELLED"]
        /\ \A j \in Keys \ {k} : order'[j] = order[j]
    BY <1>1, <1>4 DEF Cancel
  <2>2. order[k] \in Orders
    BY <1>1, <2>1, OrderRow DEF Active, NoOrder
  <2>3. /\ order'[k] # NoOrder
        /\ order'[k].side = order[k].side /\ order'[k].asset = order[k].asset
        /\ order'[k].quantity = order[k].quantity /\ order'[k].limit = order[k].limit
    <3>1. order'[k].status = "CANCELLED"
      BY <2>1, <2>2 DEF Orders
    <3> QED
      BY <2>1, <2>2, <3>1 DEF Orders, NoOrder
  <2> QED
    BY <2>1, <2>3 DEF OrderKept
<1>5. ASSUME NEW e \in Events, ApplyFill(e) PROVE \A j \in Keys : OrderKept(j)
  <2> DEFINE k == match[e].order
  <2>1. /\ k \in Keys /\ \A j \in Keys \ {k} : order'[j] = order[j]
        /\ order'[k] \in Orders /\ order[k].status = "ACTIVE"
        /\ order'[k].side = order[k].side /\ order'[k].asset = order[k].asset
        /\ order'[k].quantity = order[k].quantity /\ order'[k].limit = order[k].limit
    BY <1>5, FillFacts
  <2>2. order'[k] # NoOrder
    BY <2>1 DEF Orders, NoOrder
  <2> HIDE DEF k
  <2> QED
    BY <2>1, <2>2 DEF OrderKept, Active
<1> QED
  BY <1>2, <1>3, <1>4, <1>5, Frames DEF Next

\* Decisions are final, and the calendar only moves on.
LEMMA DecisionsKept ==
  ASSUME CoreInv, [Next]_vars
  PROVE  /\ \A e \in Events : match[e] # NoMatch => match'[e] = match[e]
         /\ session' \in Nat /\ session' >= session
<1>1. session \in Nat /\ match \in [Events -> {NoMatch} \cup Matches]
  BY DEF CoreInv, TypeOK
<1>2. CASE match' = match /\ session' = session
  BY <1>1, <1>2
<1>3. ASSUME NEW e \in Events, NEW k \in Keys, NEW s \in 0 .. session, NEW close \in Prices,
             NEW capacity \in Capacities, NEW step \in Steps,
             RecordMatch(e, k, s, close, capacity, step)
      PROVE  /\ \A d \in Events : match[d] # NoMatch => match'[d] = match[d]
             /\ session' = session
  BY <1>1, <1>3 DEF RecordMatch
<1>4. CASE NextSession
  BY <1>1, <1>4 DEF NextSession
<1> QED
  BY <1>1, <1>2, <1>3, <1>4, Frames DEF Next

\* The part of a trade row that settlement and corrections leave alone, but for
\* the fee charged.
SameTrade(r, s) ==
  /\ s.side = r.side
  /\ r.side # "none" => /\ s.asset = r.asset /\ s.quantity = r.quantity
                        /\ s.gross = r.gross /\ s.fee = r.fee
SameRow(r, s) == SameTrade(r, s) /\ (r.side # "none" => s.charged = r.charged)

\* A trade is booked under t, and nothing else but settlement changes.
Booked(t) ==
  LET r == trade'[t]
  IN  /\ ~Traded(t) /\ r \in Trades /\ r.charged = r.fee
      /\ \A u \in Rows \ {t} : SameRow(trade[u], trade'[u])
      /\ r.side = "buy" => /\ cash' = cash - (r.gross + r.fee)
                           /\ qty' = [qty EXCEPT ![r.asset] = @ + r.quantity]
      /\ r.side = "sell" => /\ cash' = cash + r.gross - r.fee
                            /\ qty' = [qty EXCEPT ![r.asset] = @ - r.quantity]

LEMMA ReleaseSame ==
  ASSUME TypeOK, NEW a \in Assets
  PROVE  \A u \in Rows : SameRow(trade[u], ReleasedRows(a)[u])
BY ReleaseRow DEF SameRow, SameTrade, Traded

\* Every step books one trade, corrects one fee, resets the account, or leaves
\* its books alone.
LEMMA Moves ==
  ASSUME CoreInv, [Next]_vars
  PROVE  \/ /\ cash' = cash /\ qty' = qty
            /\ \A u \in Rows : SameRow(trade[u], trade'[u])
         \/ /\ \E t \in Keys : Booked(t)
            /\ UNCHANGED <<order, match>>
         \/ \E e \in Events : ApplyFill(e) /\ Booked(e)
         \/ \E t \in Rows, fee \in Corrections : CorrectFee(t, fee)
         \/ Reset
<1> DEFINE Goal == \/ /\ cash' = cash /\ qty' = qty
                      /\ \A u \in Rows : SameRow(trade[u], trade'[u])
                   \/ /\ \E t \in Keys : Booked(t)
                      /\ UNCHANGED <<order, match>>
                   \/ \E e \in Events : ApplyFill(e) /\ Booked(e)
                   \/ \E t \in Rows, fee \in Corrections : CorrectFee(t, fee)
                   \/ Reset
<1>1. TypeOK /\ SettledOnly
  BY DEF CoreInv
<1>2. CASE cash' = cash /\ qty' = qty /\ trade' = trade
  BY <1>2 DEF SameRow, SameTrade
<1>3. ASSUME NEW a \in Assets, cash' = cash, qty' = qty, trade' = ReleasedRows(a)
      PROVE  Goal
  BY <1>1, <1>3, ReleaseSame
<1>4. ASSUME NEW k \in Keys, NEW side \in Sides, NEW a \in Assets, NEW q \in Quantities,
             NEW p \in Prices, NEW lag \in Lags, ExecuteTrade(k, side, a, q, p, lag)
      PROVE  Booked(k) /\ UNCHANGED <<order, match>>
  <2> DEFINE gross == Gross(q, p)
             fee == Fee(side, gross)
             r == [side |-> side, asset |-> a, quantity |-> q, gross |-> gross,
                   fee |-> fee, charged |-> fee, corrected |-> FALSE, session |-> session,
                   lag |-> lag, settlement |-> IF side = "sell" THEN "none"
                                               ELSE IF lag = 0 THEN "released" ELSE "pending"]
  <2>1. /\ q \in Nat /\ p \in Nat /\ lag \in Nat /\ session \in Nat /\ k \in Rows
        /\ gross \in Nat /\ fee \in Nat
    BY <1>1, Inputs, GrossNat, FeeNat DEF TypeOK
  <2>2. r \in Trades
    BY <2>1 DEF Trades
  <2>3. /\ ~Traded(k) /\ UNCHANGED <<order, match>>
        /\ Book(k, side, a, q, gross, fee, session, lag)
    BY <1>4 DEF ExecuteTrade, KeyFree
  <2>4. trade' = [ReleasedRows(a) EXCEPT ![k] = r]
        /\ \/ /\ side = "buy" /\ cash' = cash - (gross + fee)
              /\ qty' = [qty EXCEPT ![a] = @ + q]
           \/ /\ side = "sell" /\ cash' = cash + gross - fee
              /\ qty' = [qty EXCEPT ![a] = @ - q]
    BY <2>3 DEF Book
  <2>5. /\ r.side = side /\ r.asset = a /\ r.quantity = q /\ r.gross = gross
        /\ r.fee = fee /\ r.charged = fee
    OBVIOUS
  <2> HIDE DEF r, gross, fee
  <2>6. trade'[k] = r /\ \A u \in Rows \ {k} : trade'[u] = ReleasedRows(a)[u]
    BY <1>1, <2>1, <2>4, Released
  <2>7. \A u \in Rows \ {k} : SameRow(trade[u], trade'[u])
    BY <1>1, <2>6, ReleaseSame
  <2> QED
    BY <2>2, <2>3, <2>4, <2>5, <2>6, <2>7 DEF Booked
<1>5. ASSUME NEW e \in Events, ApplyFill(e)
      PROVE  Booked(e)
  <2> DEFINE o == order[match[e].order]
             q == match[e].quantity
  <2>1. /\ ~Traded(e) /\ o.side \in Sides /\ o.asset \in Assets
    BY <1>5, FillFacts
  <2>2. /\ \A u \in Rows \ {e} : trade'[u] = ReleasedRows(o.asset)[u]
        /\ trade'[e] \in Trades
        /\ trade'[e].side = o.side /\ trade'[e].asset = o.asset
        /\ trade'[e].quantity = q
        /\ trade'[e].gross = FillGross(e)
        /\ trade'[e].fee = FillFee(e) /\ trade'[e].charged = FillFee(e)
        /\ o.side = "buy" => cash' = cash - (FillGross(e) + FillFee(e))
        /\ o.side = "sell" => cash' = cash + FillGross(e) - FillFee(e)
    BY <1>5, FillBooks
  <2>3. /\ o.side = "buy" => qty' = [qty EXCEPT ![o.asset] = @ + q]
        /\ o.side = "sell" => qty' = [qty EXCEPT ![o.asset] = @ - q]
    BY <1>5 DEF ApplyFill, Book
  <2> HIDE DEF o, q
  <2>4. \A u \in Rows \ {e} : SameRow(trade[u], trade'[u])
    BY <1>1, <2>1, <2>2, ReleaseSame
  <2> QED
    BY <2>1, <2>2, <2>3, <2>4 DEF Booked
<1>6. ASSUME NEW k \in Keys, NEW side \in Sides, NEW a \in Assets, NEW q \in Quantities,
             NEW p \in Prices, NEW lag \in Lags, NEW budget \in Budgets,
             Reserve(k, side, a, q, p, lag, budget)
      PROVE  Goal
  BY <1>3, <1>6 DEF Reserve, KeyFree
<1>7. ASSUME NEW a \in Assets, ReleaseDue(a)
      PROVE  Goal
  BY <1>3, <1>7 DEF ReleaseDue
<1>8. CASE \/ \E k \in Keys : Cancel(k)
           \/ \E e \in Events, k \in Keys, s \in 0 .. session, close \in Prices,
                 capacity \in Capacities, step \in Steps :
                RecordMatch(e, k, s, close, capacity, step)
           \/ Deactivate \/ Reactivate \/ NextSession \/ UNCHANGED vars
  BY <1>2, <1>8 DEF Cancel, RecordMatch, Deactivate, Reactivate, NextSession, vars
<1> QED
  BY <1>4, <1>5, <1>6, <1>7, <1>8 DEF Next

----------------------------------------------------------------------------
\* Cash and positions are what the trade rows make of the initial capital.

PaidRow(r) ==
  IF r.side = "buy" THEN r.gross + r.charged
  ELSE IF r.side = "sell" THEN r.charged ELSE 0
ReceivedRow(r) == IF r.side = "sell" THEN r.gross ELSE 0
SharesRow(r, side, a) == IF r.side = side /\ r.asset = a THEN r.quantity ELSE 0

PaidIn(rows) == Total([t \in Rows |-> PaidRow(rows[t])])
ReceivedIn(rows) == Total([t \in Rows |-> ReceivedRow(rows[t])])
SharesIn(rows, side, a) == Total([t \in Rows |-> SharesRow(rows[t], side, a)])

BooksOf(money, shares, rows) ==
  /\ money + PaidIn(rows) = InitialCash + ReceivedIn(rows)
  /\ \A a \in Assets : shares[a] + SharesIn(rows, "sell", a) = SharesIn(rows, "buy", a)

LEMMA BooksAreOf ==
  /\ BooksReconcile <=> BooksOf(cash, qty, trade)
  /\ BooksReconcile' <=> BooksOf(cash', qty', trade')
BY DEF BooksReconcile, BooksOf, PaidIn, ReceivedIn, SharesIn, PaidRow, ReceivedRow,
       SharesRow, PaidBy, ReceivedBy, SharesTraded, SharesOf

LEMMA RowAmounts ==
  ASSUME NEW r \in {NoTrade} \cup Trades
  PROVE  /\ PaidRow(r) \in Nat /\ ReceivedRow(r) \in Nat
         /\ \A side \in Sides : \A a : SharesRow(r, side, a) \in Nat
         /\ \A s : SameRow(r, s) =>
              /\ PaidRow(s) = PaidRow(r) /\ ReceivedRow(s) = ReceivedRow(r)
              /\ \A side \in Sides : \A a : SharesRow(s, side, a) = SharesRow(r, side, a)
<1>1. CASE r.side = "none"
  BY <1>1 DEF PaidRow, ReceivedRow, SharesRow, SameRow, SameTrade, Sides
<1>2. CASE r.side # "none"
  <2>1. /\ r.side \in Sides /\ r.gross \in Nat /\ r.charged \in Nat /\ r.quantity \in Nat
    BY <1>2, TradeRow
  <2> QED
    BY <1>2, <2>1 DEF PaidRow, ReceivedRow, SharesRow, SameRow, SameTrade, Sides
<1> QED
  BY <1>1, <1>2

LEMMA AmountsTotal ==
  ASSUME NEW rows \in [Rows -> {NoTrade} \cup Trades]
  PROVE  /\ [t \in Rows |-> PaidRow(rows[t])] \in [Rows -> Nat]
         /\ [t \in Rows |-> ReceivedRow(rows[t])] \in [Rows -> Nat]
         /\ \A side \in Sides : \A a :
              [t \in Rows |-> SharesRow(rows[t], side, a)] \in [Rows -> Nat]
         /\ PaidIn(rows) \in Nat /\ ReceivedIn(rows) \in Nat
         /\ \A side \in Sides : \A a : SharesIn(rows, side, a) \in Nat
<1>1. /\ [t \in Rows |-> PaidRow(rows[t])] \in [Rows -> Nat]
      /\ [t \in Rows |-> ReceivedRow(rows[t])] \in [Rows -> Nat]
      /\ \A side \in Sides : \A a :
           [t \in Rows |-> SharesRow(rows[t], side, a)] \in [Rows -> Nat]
  BY RowAmounts
<1> QED
  BY <1>1, RowsFinite, UnitsFinite DEF PaidIn, ReceivedIn, SharesIn

LEMMA SameAmounts ==
  ASSUME NEW rows \in [Rows -> {NoTrade} \cup Trades], NEW after,
         \A u \in Rows : SameRow(rows[u], after[u])
  PROVE  /\ PaidIn(after) = PaidIn(rows) /\ ReceivedIn(after) = ReceivedIn(rows)
         /\ \A side \in Sides : \A a : SharesIn(after, side, a) = SharesIn(rows, side, a)
<1>1. \A u \in Rows :
        /\ PaidRow(after[u]) = PaidRow(rows[u]) /\ ReceivedRow(after[u]) = ReceivedRow(rows[u])
        /\ \A side \in Sides : \A a : SharesRow(after[u], side, a) = SharesRow(rows[u], side, a)
  BY RowAmounts
<1>2. PaidIn(after) = PaidIn(rows) /\ ReceivedIn(after) = ReceivedIn(rows)
  BY <1>1 DEF PaidIn, ReceivedIn
<1>3. ASSUME NEW side \in Sides, NEW a
      PROVE  SharesIn(after, side, a) = SharesIn(rows, side, a)
  BY <1>1 DEF SharesIn
<1> QED
  BY <1>2, <1>3

\* One row written: the totals move by what that row does.
LEMMA AmountsWritten ==
  ASSUME NEW rows \in [Rows -> {NoTrade} \cup Trades],
         NEW after \in [Rows -> {NoTrade} \cup Trades], NEW t \in Rows,
         \A u \in Rows \ {t} : SameRow(rows[u], after[u])
  PROVE  /\ PaidIn(after) = PaidIn(rows) - PaidRow(rows[t]) + PaidRow(after[t])
         /\ ReceivedIn(after) = ReceivedIn(rows) - ReceivedRow(rows[t]) + ReceivedRow(after[t])
         /\ \A side \in Sides : \A a :
              SharesIn(after, side, a) = SharesIn(rows, side, a)
                - SharesRow(rows[t], side, a) + SharesRow(after[t], side, a)
<1>1. \A u \in Rows \ {t} :
        /\ PaidRow(after[u]) = PaidRow(rows[u]) /\ ReceivedRow(after[u]) = ReceivedRow(rows[u])
        /\ \A side \in Sides : \A a : SharesRow(after[u], side, a) = SharesRow(rows[u], side, a)
  BY RowAmounts
<1>2. PaidIn(after) = PaidIn(rows) - PaidRow(rows[t]) + PaidRow(after[t])
  <2> DEFINE f == [u \in Rows |-> PaidRow(rows[u])]
             g == [u \in Rows |-> PaidRow(after[u])]
  <2>1. /\ f \in [Rows -> Nat] /\ g \in [Rows -> Nat]
        /\ f[t] = PaidRow(rows[t]) /\ g[t] = PaidRow(after[t])
        /\ \A u \in Rows \ {t} : f[u] = g[u]
    BY <1>1, RowAmounts
  <2>2. PaidIn(after) = Total(g) /\ PaidIn(rows) = Total(f)
    BY DEF PaidIn
  <2> HIDE DEF f, g
  <2>3. Total(g) = Total(f) - f[t] + g[t]
    BY <2>1, RowsFinite, TotalChange
  <2> QED
    BY <2>1, <2>2, <2>3
<1>3. ReceivedIn(after) = ReceivedIn(rows) - ReceivedRow(rows[t]) + ReceivedRow(after[t])
  <2> DEFINE f == [u \in Rows |-> ReceivedRow(rows[u])]
             g == [u \in Rows |-> ReceivedRow(after[u])]
  <2>1. /\ f \in [Rows -> Nat] /\ g \in [Rows -> Nat]
        /\ f[t] = ReceivedRow(rows[t]) /\ g[t] = ReceivedRow(after[t])
        /\ \A u \in Rows \ {t} : f[u] = g[u]
    BY <1>1, RowAmounts
  <2>2. ReceivedIn(after) = Total(g) /\ ReceivedIn(rows) = Total(f)
    BY DEF ReceivedIn
  <2> HIDE DEF f, g
  <2>3. Total(g) = Total(f) - f[t] + g[t]
    BY <2>1, RowsFinite, TotalChange
  <2> QED
    BY <2>1, <2>2, <2>3
<1>4. ASSUME NEW side \in Sides, NEW a
      PROVE  SharesIn(after, side, a) = SharesIn(rows, side, a)
               - SharesRow(rows[t], side, a) + SharesRow(after[t], side, a)
  <2> DEFINE f == [u \in Rows |-> SharesRow(rows[u], side, a)]
             g == [u \in Rows |-> SharesRow(after[u], side, a)]
  <2>1. /\ f \in [Rows -> Nat] /\ g \in [Rows -> Nat]
        /\ f[t] = SharesRow(rows[t], side, a) /\ g[t] = SharesRow(after[t], side, a)
        /\ \A u \in Rows \ {t} : f[u] = g[u]
    BY <1>1, RowAmounts
  <2>2. SharesIn(after, side, a) = Total(g) /\ SharesIn(rows, side, a) = Total(f)
    BY DEF SharesIn
  <2> HIDE DEF f, g
  <2>3. Total(g) = Total(f) - f[t] + g[t]
    BY <2>1, RowsFinite, TotalChange
  <2> QED
    BY <2>1, <2>2, <2>3
<1> QED
  BY <1>2, <1>3, <1>4

\* No row, no amount.
LEMMA NoAmounts ==
  ASSUME NEW rows \in [Rows -> {NoTrade} \cup Trades], \A t \in Rows : rows[t] = NoTrade
  PROVE  /\ PaidIn(rows) = 0 /\ ReceivedIn(rows) = 0
         /\ \A side \in Sides : \A a : SharesIn(rows, side, a) = 0
<1>1. \A t \in Rows : /\ PaidRow(rows[t]) = 0 /\ ReceivedRow(rows[t]) = 0
                      /\ \A side \in Sides : \A a : SharesRow(rows[t], side, a) = 0
  BY DEF NoTrade, PaidRow, ReceivedRow, SharesRow, Sides
<1>2. PaidIn(rows) = 0 /\ ReceivedIn(rows) = 0
  BY <1>1, AmountsTotal, TotalZero DEF PaidIn, ReceivedIn
<1>3. ASSUME NEW side \in Sides, NEW a
      PROVE  SharesIn(rows, side, a) = 0
  BY <1>1, AmountsTotal, TotalZero DEF SharesIn
<1> QED
  BY <1>2, <1>3

LEMMA BookedReconciles ==
  ASSUME CoreInv, CoreInv', BooksReconcile, NEW t \in Rows, Booked(t)
  PROVE  BooksReconcile'
<1> DEFINE r == trade'[t]
<1>1. /\ trade \in [Rows -> {NoTrade} \cup Trades]
      /\ trade' \in [Rows -> {NoTrade} \cup Trades]
      /\ cash \in Nat /\ qty \in [Assets -> Nat]
  BY DEF CoreInv, TypeOK
<1>2. /\ trade[t].side = "none" /\ r \in Trades /\ r.charged = r.fee
      /\ \A u \in Rows \ {t} : SameRow(trade[u], trade'[u])
      /\ r.side = "buy" => /\ cash' = cash - (r.gross + r.fee)
                           /\ qty' = [qty EXCEPT ![r.asset] = @ + r.quantity]
      /\ r.side = "sell" => /\ cash' = cash + r.gross - r.fee
                            /\ qty' = [qty EXCEPT ![r.asset] = @ - r.quantity]
  BY DEF Booked, Traded
<1>3. /\ PaidIn(trade') = PaidIn(trade) - PaidRow(trade[t]) + PaidRow(r)
      /\ ReceivedIn(trade') = ReceivedIn(trade) - ReceivedRow(trade[t]) + ReceivedRow(r)
      /\ \A side \in Sides : \A a :
           SharesIn(trade', side, a) = SharesIn(trade, side, a)
             - SharesRow(trade[t], side, a) + SharesRow(r, side, a)
  BY <1>1, <1>2, AmountsWritten
<1>4. /\ PaidRow(trade[t]) = 0 /\ ReceivedRow(trade[t]) = 0
      /\ \A side \in Sides : \A a : SharesRow(trade[t], side, a) = 0
  BY <1>2 DEF PaidRow, ReceivedRow, SharesRow, Sides
<1>5. /\ r.side \in Sides /\ r.asset \in Assets
      /\ r.gross \in Nat /\ r.fee \in Nat /\ r.quantity \in Nat
  BY <1>2, TradeRow
<1>6. /\ PaidIn(trade) \in Nat /\ ReceivedIn(trade) \in Nat
      /\ \A side \in Sides : \A a : SharesIn(trade, side, a) \in Nat
  BY <1>1, AmountsTotal
<1>7. BooksOf(cash, qty, trade) /\ InitialCash \in Nat
  BY BooksAreOf, Inputs
<1> HIDE DEF r
<1>8. cash' + PaidIn(trade') = InitialCash + ReceivedIn(trade')
  <2>1. cash + PaidIn(trade) = InitialCash + ReceivedIn(trade)
    BY <1>7 DEF BooksOf
  <2>2. CASE r.side = "buy"
    <3>1. PaidRow(r) = r.gross + r.fee /\ ReceivedRow(r) = 0
      BY <1>2, <2>2 DEF PaidRow, ReceivedRow
    <3> QED
      BY <1>1, <1>2, <1>3, <1>4, <1>5, <1>6, <1>7, <2>1, <2>2, <3>1
  <2>3. CASE r.side = "sell"
    <3>1. PaidRow(r) = r.fee /\ ReceivedRow(r) = r.gross
      BY <1>2, <2>3 DEF PaidRow, ReceivedRow
    <3> QED
      BY <1>1, <1>2, <1>3, <1>4, <1>5, <1>6, <1>7, <2>1, <2>3, <3>1
  <2> QED
    BY <1>5, <2>2, <2>3 DEF Sides
<1>9. ASSUME NEW a \in Assets
      PROVE  qty'[a] + SharesIn(trade', "sell", a) = SharesIn(trade', "buy", a)
  <2>1. /\ qty[a] + SharesIn(trade, "sell", a) = SharesIn(trade, "buy", a) /\ qty[a] \in Nat
        /\ SharesIn(trade, "sell", a) \in Nat /\ SharesIn(trade, "buy", a) \in Nat
        /\ SharesIn(trade', "sell", a) = SharesIn(trade, "sell", a) - 0 + SharesRow(r, "sell", a)
        /\ SharesIn(trade', "buy", a) = SharesIn(trade, "buy", a) - 0 + SharesRow(r, "buy", a)
    BY <1>1, <1>3, <1>4, <1>6, <1>7 DEF BooksOf, Sides
  <2>2. CASE r.asset # a
    <3>1. qty'[a] = qty[a]
      BY <1>1, <1>2, <1>5, <2>2 DEF Sides
    <3>2. SharesRow(r, "sell", a) = 0 /\ SharesRow(r, "buy", a) = 0
      BY <2>2 DEF SharesRow
    <3> QED
      BY <2>1, <3>1, <3>2
  <2>3. CASE r.asset = a /\ r.side = "buy"
    <3>1. qty'[a] = qty[a] + r.quantity
      BY <1>1, <1>2, <2>3
    <3>2. SharesRow(r, "sell", a) = 0 /\ SharesRow(r, "buy", a) = r.quantity
      BY <2>3 DEF SharesRow
    <3> QED
      BY <1>5, <2>1, <3>1, <3>2
  <2>4. CASE r.asset = a /\ r.side = "sell"
    <3>1. qty'[a] = qty[a] - r.quantity
      BY <1>1, <1>2, <2>4
    <3>2. SharesRow(r, "sell", a) = r.quantity /\ SharesRow(r, "buy", a) = 0
      BY <2>4 DEF SharesRow
    <3> QED
      BY <1>5, <2>1, <3>1, <3>2
  <2> QED
    BY <1>5, <2>2, <2>3, <2>4 DEF Sides
<1> QED
  BY <1>8, <1>9, BooksAreOf DEF BooksOf

\* Cash and positions are the initial capital plus and minus what the trade
\* rows, with the fees as corrected, say was paid, received, bought and sold.
THEOREM BooksAlwaysReconcile == Spec => []BooksReconcile
<1>1. Init => BooksReconcile
  <2> SUFFICES ASSUME Init PROVE BooksReconcile
    OBVIOUS
  <2>1. /\ trade \in [Rows -> {NoTrade} \cup Trades] /\ \A t \in Rows : trade[t] = NoTrade
        /\ cash = InitialCash /\ InitialCash \in Nat /\ \A a \in Assets : qty[a] = 0
    BY Inputs DEF Init
  <2>2. BooksOf(cash, qty, trade)
    BY <2>1, NoAmounts DEF BooksOf, Sides
  <2> QED
    BY <2>2, BooksAreOf
<1>2. CoreInv /\ CoreInv' /\ BooksReconcile /\ [Next]_vars => BooksReconcile'
  <2> SUFFICES ASSUME CoreInv, CoreInv', BooksReconcile, [Next]_vars PROVE BooksReconcile'
    OBVIOUS
  <2>1. /\ trade \in [Rows -> {NoTrade} \cup Trades]
        /\ trade' \in [Rows -> {NoTrade} \cup Trades] /\ cash \in Nat
    BY DEF CoreInv, TypeOK
  <2>2. BooksOf(cash, qty, trade)
    BY BooksAreOf
  <2>3. CASE /\ cash' = cash /\ qty' = qty
             /\ \A u \in Rows : SameRow(trade[u], trade'[u])
    <3>1. BooksOf(cash', qty', trade')
      BY <2>1, <2>2, <2>3, SameAmounts DEF BooksOf, Sides
    <3> QED
      BY <3>1, BooksAreOf
  <2>4. ASSUME NEW t \in Rows, Booked(t) PROVE BooksReconcile'
    BY <2>4, BookedReconciles
  <2>5. ASSUME NEW t \in Rows, NEW fee \in Corrections, CorrectFee(t, fee)
        PROVE  BooksReconcile'
    <3>1. /\ Traded(t) /\ cash' = cash + trade[t].charged - fee /\ qty' = qty
          /\ trade' = [trade EXCEPT ![t].charged = fee, ![t].corrected = TRUE]
      BY <2>5 DEF CorrectFee
    <3>2. /\ trade[t] \in Trades /\ trade[t].side \in Sides /\ trade[t].gross \in Nat
          /\ trade[t].charged \in Nat /\ fee \in Nat /\ InitialCash \in Nat
      BY <2>1, <3>1, TradeRow, Inputs DEF Traded
    <3>3. /\ trade'[t].side = trade[t].side /\ trade'[t].asset = trade[t].asset
          /\ trade'[t].quantity = trade[t].quantity /\ trade'[t].gross = trade[t].gross
          /\ trade'[t].charged = fee
          /\ \A u \in Rows \ {t} : trade'[u] = trade[u]
      BY <2>1, <3>1, <3>2 DEF Trades
    <3>4. \A u \in Rows \ {t} : SameRow(trade[u], trade'[u])
      BY <3>3 DEF SameRow, SameTrade
    <3>5. /\ PaidIn(trade') = PaidIn(trade) - PaidRow(trade[t]) + PaidRow(trade'[t])
          /\ ReceivedIn(trade')
               = ReceivedIn(trade) - ReceivedRow(trade[t]) + ReceivedRow(trade'[t])
          /\ \A side \in Sides : \A a :
               SharesIn(trade', side, a) = SharesIn(trade, side, a)
                 - SharesRow(trade[t], side, a) + SharesRow(trade'[t], side, a)
      BY <2>1, <3>4, AmountsWritten
    <3>6. /\ PaidRow(trade'[t]) = PaidRow(trade[t]) - trade[t].charged + fee
          /\ ReceivedRow(trade'[t]) = ReceivedRow(trade[t])
          /\ \A side \in Sides : \A a : SharesRow(trade'[t], side, a) = SharesRow(trade[t], side, a)
      BY <3>2, <3>3 DEF PaidRow, ReceivedRow, SharesRow, Sides
    <3>7. /\ PaidIn(trade) \in Nat /\ ReceivedIn(trade) \in Nat
          /\ PaidRow(trade[t]) \in Nat /\ ReceivedRow(trade[t]) \in Nat
          /\ \A side \in Sides : \A a : /\ SharesIn(trade, side, a) \in Nat
                                        /\ SharesRow(trade[t], side, a) \in Nat
      BY <2>1, AmountsTotal, RowAmounts
    <3>8. cash' + PaidIn(trade') = InitialCash + ReceivedIn(trade')
      <4>1. cash + PaidIn(trade) = InitialCash + ReceivedIn(trade)
        BY <2>2 DEF BooksOf
      <4>2. PaidIn(trade') = PaidIn(trade) - trade[t].charged + fee
        <5>1. PaidIn(trade') = PaidIn(trade) - PaidRow(trade[t])
                + (PaidRow(trade[t]) - trade[t].charged + fee)
          BY <3>5, <3>6
        <5> QED
          BY <3>2, <3>7, <5>1
      <4>3. ReceivedIn(trade') = ReceivedIn(trade)
        BY <3>5, <3>6, <3>7
      <4>4. /\ cash \in Nat /\ trade[t].charged \in Nat /\ fee \in Nat
            /\ PaidIn(trade) \in Nat /\ cash' = cash + trade[t].charged - fee
        BY <2>1, <3>1, <3>2, <3>7
      <4> QED
        BY <4>1, <4>2, <4>3, <4>4
    <3>9. \A a \in Assets : qty'[a] + SharesIn(trade', "sell", a) = SharesIn(trade', "buy", a)
      <4>1. \A side \in Sides : \A a : SharesIn(trade', side, a) = SharesIn(trade, side, a)
        BY <3>5, <3>6, <3>7
      <4> QED
        BY <2>2, <3>1, <4>1 DEF BooksOf, Sides
    <3> QED
      BY <3>8, <3>9, BooksAreOf DEF BooksOf
  <2>6. CASE Reset
    <3>1. /\ \A t \in Rows : trade'[t] = NoTrade
          /\ cash' = InitialCash /\ InitialCash \in Nat /\ \A a \in Assets : qty'[a] = 0
      BY <2>6, Inputs DEF Reset
    <3>2. BooksOf(cash', qty', trade')
      BY <2>1, <3>1, NoAmounts DEF BooksOf, Sides
    <3> QED
      BY <3>2, BooksAreOf
  <2> QED
    BY <2>3, <2>4, <2>5, <2>6, Moves, Inputs
<1> QED
  BY <1>1, <1>2, CoreAlways, PTL DEF Spec

----------------------------------------------------------------------------
\* Decisions and the orders they were made for.

\* No step but a reset makes a trade row disappear.
LEMMA TradedKept ==
  ASSUME CoreInv, [Next]_vars, NEW t \in Rows, Traded(t), ~Reset
  PROVE  Traded(t)'
<1>1. CASE \A u \in Rows : SameRow(trade[u], trade'[u])
  BY <1>1 DEF SameRow, SameTrade, Traded
<1>2. ASSUME NEW u \in Rows, Booked(u) PROVE Traded(t)'
  BY <1>2 DEF Booked, SameRow, SameTrade, Traded
<1>3. ASSUME NEW u \in Rows, NEW fee \in Corrections, CorrectFee(u, fee) PROVE Traded(t)'
  <2>1. /\ trade' = [trade EXCEPT ![u].charged = fee, ![u].corrected = TRUE]
        /\ trade \in [Rows -> {NoTrade} \cup Trades]
        /\ trade[u] \in Trades
    BY <1>3, TradeRow DEF CorrectFee, CoreInv, TypeOK, Traded
  <2>2. trade'[t].side = trade[t].side
    BY <2>1 DEF Trades
  <2> QED
    BY <2>2 DEF Traded
<1> QED
  BY <1>1, <1>2, <1>3, Moves, Inputs

\* A waiting match that keeps its order keeps its promise.
LEMMA HonouredKept ==
  ASSUME MatchHonoured, match' = match,
         \A e \in Events : Unapplied(e)' =>
           /\ Unapplied(e)
           /\ order'[match[e].order] = order[match[e].order]
  PROVE  MatchHonoured'
<1>1. ASSUME NEW e \in Events, Unapplied(e)'
      PROVE  /\ Unapplied(e)
             /\ order'[match'[e].order] = order[match[e].order]
             /\ \A d \in Events : Unapplied(d)' => Unapplied(d)
  BY <1>1
<1> QED
  BY <1>1 DEF MatchHonoured, Active, Remaining, Crosses

LEMMA RecordHonours ==
  ASSUME CoreInv, MatchHonoured,
         NEW e \in Events, NEW k \in Keys, NEW s \in 0 .. session, NEW close \in Prices,
         NEW capacity \in Capacities, NEW step \in Steps,
         RecordMatch(e, k, s, close, capacity, step)
  PROVE  MatchHonoured'
<1> DEFINE q == MatchQuantity(k, s, close, capacity, step)
           m == [outcome |-> IF q > 0 THEN "MATCHED" ELSE "NO_MATCH", order |-> k,
                 session |-> s, capacity |-> capacity, price |-> close, quantity |-> q,
                 final |-> q = Remaining(k)]
<1>1. /\ Active(k) /\ match[e] = NoMatch /\ Cancellable(k)
      /\ MatchedShares(order[k].asset, s) <= capacity
      /\ match' = [match EXCEPT ![e] = m]
      /\ order' = order /\ trade' = trade
      /\ match \in [Events -> {NoMatch} \cup Matches]
  BY DEF RecordMatch, CoreInv, TypeOK
<1>2. q \in Nat /\ q <= Remaining(k) /\ Remaining(k) \in Nat /\ (q > 0 => Crosses(k, close))
  BY <1>1, MatchQuantityFacts DEF CoreInv, Active
<1> HIDE DEF q
<1>3. /\ m.order = k /\ m.price = close /\ m.quantity = q
      /\ m.final <=> q = Remaining(k)
      /\ m.outcome = "MATCHED" => q > 0
  OBVIOUS
<1> HIDE DEF m
<1>4. match'[e] = m /\ \A d \in Events \ {e} : match'[d] = match[d]
  BY <1>1
<1>5. \A d \in Events \ {e} : Unapplied(d)' =>
        /\ Unapplied(d) /\ match[d].order # k
  BY <1>1, <1>4 DEF Unapplied, Matched, Traded, Cancellable
<1>6. ASSUME Unapplied(e)'
      PROVE  /\ Active(k) /\ q \in 1 .. Remaining(k)
             /\ m.final <=> q = Remaining(k)
             /\ Crosses(k, close)
             /\ \A d \in Events \ {e} : Unapplied(d)' => match'[d].order # k
  <2>1. q > 0
    BY <1>3, <1>4, <1>6 DEF Unapplied, Matched
  <2>2. q \in 1 .. Remaining(k)
    BY <1>2, <2>1
  <2> QED
    BY <1>1, <1>2, <1>3, <1>4, <1>5, <2>1, <2>2
<1>7. ASSUME NEW d \in Events \ {e}, Unapplied(d)'
      PROVE  /\ Active(match[d].order)
             /\ match[d].quantity \in 1 .. Remaining(match[d].order)
             /\ match[d].final <=> match[d].quantity = Remaining(match[d].order)
             /\ Crosses(match[d].order, match[d].price)
             /\ \A c \in Events \ {d} : Unapplied(c)' => match'[c].order # match[d].order
  <2>1. Unapplied(d) /\ match[d].order # k
    BY <1>5, <1>7
  <2>2. \A c \in Events \ {d} : Unapplied(c)' => match'[c].order # match[d].order
    BY <1>3, <1>4, <1>5, <2>1 DEF MatchHonoured
  <2> QED
    BY <2>1, <2>2 DEF MatchHonoured
<1>8. ASSUME NEW d \in Events, Unapplied(d)'
      PROVE  /\ order'[match'[d].order].status = "ACTIVE"
             /\ match'[d].quantity
                  \in 1 .. order'[match'[d].order].quantity - order'[match'[d].order].filled
             /\ match'[d].final <=>
                  match'[d].quantity
                    = order'[match'[d].order].quantity - order'[match'[d].order].filled
             /\ IF order'[match'[d].order].side = "buy"
                THEN match'[d].price <= order'[match'[d].order].limit
                ELSE match'[d].price >= order'[match'[d].order].limit
             /\ \A c \in Events \ {d} : Unapplied(c)' => match'[c].order # match'[d].order
  <2>1. CASE d = e
    <3>1. match'[d] = m /\ order' = order
      BY <1>1, <1>4, <2>1
    <3>2. /\ Active(k) /\ q \in 1 .. Remaining(k)
          /\ m.final <=> q = Remaining(k)
          /\ Crosses(k, close)
          /\ \A c \in Events \ {d} : Unapplied(c)' => match'[c].order # k
      BY <1>6, <1>8, <2>1
    <3> QED
      BY <1>3, <3>1, <3>2 DEF Active, Remaining, Crosses
  <2>2. CASE d # e
    <3>1. match'[d] = match[d] /\ order' = order
      BY <1>1, <1>4, <2>2
    <3>2. /\ Active(match[d].order)
          /\ match[d].quantity \in 1 .. Remaining(match[d].order)
          /\ match[d].final <=> match[d].quantity = Remaining(match[d].order)
          /\ Crosses(match[d].order, match[d].price)
          /\ \A c \in Events \ {d} : Unapplied(c)' => match'[c].order # match[d].order
      BY <1>7, <1>8, <2>2
    <3> QED
      BY <3>1, <3>2 DEF Active, Remaining, Crosses
  <2> QED
    BY <2>1, <2>2
<1> QED
  BY <1>8 DEF MatchHonoured, Active, Remaining, Crosses

\* A matched event that waits for its fill can count on its order: nothing
\* cancels, fills or rematches the order meanwhile.
THEOREM MatchesAreHonoured == Spec => []MatchHonoured
<1>1. Init => MatchHonoured
  BY DEF Init, MatchHonoured, Unapplied, Matched, NoMatch
<1>2. CoreInv /\ MatchHonoured /\ [Next]_vars => MatchHonoured'
  <2> SUFFICES ASSUME CoreInv, MatchHonoured, [Next]_vars PROVE MatchHonoured'
    OBVIOUS
  <2>1. ASSUME NEW e \in Events, Unapplied(e)', match' = match, ~Reset
        PROVE  Unapplied(e)
    <3>1. Matched(e) /\ ~Traded(e)'
      BY <2>1 DEF Unapplied, Matched
    <3> QED
      BY <2>1, <3>1, TradedKept, Inputs DEF Unapplied
  <2>2. CASE match' = match /\ order' = order
    <3>1. CASE Reset
      BY <3>1 DEF Reset, MatchHonoured, Unapplied, Matched, NoMatch
    <3>2. CASE ~Reset
      BY <2>1, <2>2, <3>2, HonouredKept
    <3> QED
      BY <3>1, <3>2
  <2>3. ASSUME NEW k \in Keys, NEW side \in Sides, NEW a \in Assets, NEW q \in Quantities,
               NEW p \in Prices, NEW lag \in Lags, NEW budget \in Budgets,
               Reserve(k, side, a, q, p, lag, budget)
        PROVE  MatchHonoured'
    <3>1. match' = match /\ order[k] = NoOrder /\ \A j \in Keys \ {k} : order'[j] = order[j]
      BY <2>3 DEF Reserve, KeyFree, CoreInv, TypeOK
    <3>2. \A e \in Events : Unapplied(e)' => Unapplied(e)
      <4>1. \A t \in Rows : Traded(t)' <=> Traded(t)
        BY <2>3, Frames, ReleaseKeepsTraded DEF CoreInv, Traded
      <4> QED
        BY <3>1, <4>1, Inputs DEF Unapplied, Matched
    <3>3. \A e \in Events : Unapplied(e) => match[e].order \in Keys \ {k}
      BY <3>1, MatchRow, MatchedRow DEF MatchHonoured, Unapplied, Active, NoOrder, CoreInv
    <3> QED
      BY <3>1, <3>2, <3>3, HonouredKept
  <2>4. ASSUME NEW k \in Keys, Cancel(k) PROVE MatchHonoured'
    <3>1. /\ match' = match /\ trade' = trade /\ Cancellable(k)
          /\ \A j \in Keys \ {k} : order'[j] = order[j]
      BY <2>4 DEF Cancel, CoreInv, TypeOK
    <3>2. \A e \in Events : Unapplied(e)' => Unapplied(e) /\ match[e].order \in Keys \ {k}
      BY <3>1, MatchRow, MatchedRow DEF Unapplied, Matched, Traded, Cancellable, CoreInv
    <3> QED
      BY <3>1, <3>2, HonouredKept
  <2>5. ASSUME NEW e \in Events, NEW k \in Keys, NEW s \in 0 .. session, NEW close \in Prices,
               NEW capacity \in Capacities, NEW step \in Steps,
               RecordMatch(e, k, s, close, capacity, step)
        PROVE  MatchHonoured'
    BY <2>5, RecordHonours
  <2>6. ASSUME NEW e \in Events, ApplyFill(e) PROVE MatchHonoured'
    <3>1. /\ match' = match /\ Unapplied(e) /\ match[e].order \in Keys
          /\ \A j \in Keys \ {match[e].order} : order'[j] = order[j]
      BY <2>6, FillFacts, Frames DEF Unapplied
    <3>2. Traded(e)'
      BY <2>6, FillBooks, TradeRow DEF Traded
    <3>3. \A d \in Events : Unapplied(d)' => d # e /\ Unapplied(d)
      <4>1. ASSUME NEW d \in Events, Unapplied(d)', d # e
            PROVE  ~Traded(d)
        <5>1. trade'[d] = ReleasedRows(order[match[e].order].asset)[d]
              /\ order[match[e].order].asset \in Assets
          BY <2>6, <4>1, FillBooks, FillFacts, Inputs
        <5>2. trade'[d].side = trade[d].side
          BY <5>1, ReleaseKeepsTraded, Inputs DEF CoreInv
        <5> QED
          BY <4>1, <5>2 DEF Unapplied, Traded
      <4> QED
        BY <3>1, <3>2, <4>1 DEF Unapplied, Matched
    <3>4. \A d \in Events : Unapplied(d)' => match[d].order \in Keys \ {match[e].order}
      BY <3>1, <3>3, MatchRow, MatchedRow DEF MatchHonoured, Unapplied, CoreInv
    <3> QED
      BY <3>1, <3>3, <3>4, HonouredKept
  <2> QED
    BY <2>2, <2>3, <2>4, <2>5, <2>6, Frames DEF Next
<1> QED
  BY <1>1, <1>2, CoreAlways, PTL DEF Spec

LEMMA MatchedOfKept ==
  ASSUME CoreInv, [Next]_vars, NEW e \in Events, match'[e] = match[e], NEW a, NEW s
  PROVE  MatchedOf(e, a, s)' = MatchedOf(e, a, s)
<1>1. CASE Matched(e)
  <2>1. match[e].order \in Keys /\ order[match[e].order] # NoOrder
    BY <1>1, MatchRow, MatchedRow DEF CoreInv, MatchSound
  <2>2. order'[match[e].order].asset = order[match[e].order].asset
    BY <2>1, OrdersKept DEF OrderKept
  <2> QED
    BY <1>1, <2>2 DEF MatchedOf, Matched
<1>2. CASE ~Matched(e)
  BY <1>2 DEF MatchedOf, Matched
<1> QED
  BY <1>1, <1>2

LEMMA RecordFits ==
  ASSUME CoreInv,
         NEW e \in Events, NEW k \in Keys, NEW s \in 0 .. session, NEW close \in Prices,
         NEW capacity \in Capacities, NEW step \in Steps,
         RecordMatch(e, k, s, close, capacity, step)
  PROVE  WithinCapacity(e)' /\ \A d \in Events \ {e} : match'[d] = match[d]
<1> DEFINE q == MatchQuantity(k, s, close, capacity, step)
           m == [outcome |-> IF q > 0 THEN "MATCHED" ELSE "NO_MATCH", order |-> k,
                 session |-> s, capacity |-> capacity, price |-> close, quantity |-> q,
                 final |-> q = Remaining(k)]
           a == order[k].asset
<1>1. /\ Active(k) /\ match[e] = NoMatch
      /\ MatchedShares(a, s) <= capacity
      /\ match' = [match EXCEPT ![e] = m]
      /\ order' = order
      /\ match \in [Events -> {NoMatch} \cup Matches]
      /\ [Next]_vars
  BY DEF RecordMatch, CoreInv, TypeOK, Next
<1>2. q \in Nat /\ MatchedShares(a, s) + q <= capacity
  BY <1>1, MatchQuantityFacts DEF CoreInv, Active
<1>3. /\ capacity \in Nat /\ MatchedShares(a, s) \in Nat
      /\ [d \in Events |-> MatchedOf(d, a, s)] \in [Events -> Nat]
  BY MatchedSharesNat, Inputs DEF CoreInv
<1> HIDE DEF q
<1>4. m.order = k /\ m.session = s /\ m.capacity = capacity /\ m.quantity = q
  OBVIOUS
<1> HIDE DEF m
<1>5. match'[e] = m /\ \A d \in Events \ {e} : match'[d] = match[d]
  BY <1>1
<1>6. PICK b : b = a
  OBVIOUS
<1> DEFINE f == [d \in Events |-> MatchedOf(d, b, s)]
           g == [d \in Events |-> MatchedOf(d, b, s)']
<1>7. f[e] = 0
  BY <1>1, MatchedRow DEF MatchedOf
<1>8. g[e] \in Nat /\ g[e] <= q
  BY <1>1, <1>2, <1>4, <1>5 DEF MatchedOf
<1>9. \A d \in Events \ {e} : f[d] = g[d]
  BY <1>1, <1>5, MatchedOfKept
<1>10. f \in [Events -> Nat]
  BY <1>3, <1>6
<1>11. g \in [Events -> Nat]
  BY <1>8, <1>9, <1>10
<1>12. MatchedShares(b, s) = Total(f)
  BY DEF MatchedShares
<1>13. MatchedShares(b, s)' = Total(g)
  BY DEF MatchedShares
<1> HIDE DEF f, g
<1>14. Total(g) = Total(f) - f[e] + g[e]
  BY <1>9, <1>10, <1>11, RowsFinite, TotalChange
<1>15. MatchedShares(b, s)' <= capacity
  BY <1>2, <1>3, <1>6, <1>7, <1>8, <1>12, <1>13, <1>14
<1>16. order'[match'[e].order].asset = b /\ match'[e].session = s /\ match'[e].capacity = capacity
  BY <1>1, <1>4, <1>5, <1>6
<1> QED
  BY <1>5, <1>15, <1>16 DEF WithinCapacity

\* No decision takes the session's matches above the capacity it read, whatever
\* capacities the decisions before it read.
THEOREM CapacityIsKept == Spec => DailyCapacity
<1>1. CoreInv /\ [Next]_vars => \A e \in Events : match'[e] # match[e] => WithinCapacity(e)'
  <2> SUFFICES ASSUME CoreInv, [Next]_vars, NEW d \in Events, match'[d] # match[d]
               PROVE  WithinCapacity(d)'
    OBVIOUS
  <2>1. ASSUME NEW e \in Events, NEW k \in Keys, NEW s \in 0 .. session, NEW close \in Prices,
               NEW capacity \in Capacities, NEW step \in Steps,
               RecordMatch(e, k, s, close, capacity, step)
        PROVE  WithinCapacity(d)'
    BY <2>1, RecordFits
  <2> QED
    BY <2>1, Frames DEF Next
<1> QED
  BY <1>1, CoreAlways, PTL DEF Spec, DailyCapacity

\* What was decided or booked stays.
HistoryStep ==
  /\ \A e \in Events : match[e] # NoMatch => match'[e] = match[e]
  /\ \A e \in Events : Traded(e) =>
       /\ trade'[e].side = trade[e].side
       /\ trade'[e].asset = trade[e].asset
       /\ trade'[e].quantity = trade[e].quantity
       /\ trade'[e].gross = trade[e].gross
       /\ trade'[e].fee = trade[e].fee
  /\ \A k \in Keys : order[k].status \in {"COMPLETED", "CANCELLED"}
                       => order'[k] = order[k]

\* Decisions, fills and terminal orders are never rewritten.
THEOREM HistoryIsKept == Spec => HistoryKept
<1>1. CoreInv /\ [Next]_vars => HistoryStep
  <2> SUFFICES ASSUME CoreInv, [Next]_vars PROVE HistoryStep
    OBVIOUS
  <2>1. \A k \in Keys : order[k].status \in {"COMPLETED", "CANCELLED"} => order'[k] = order[k]
    BY OrdersKept DEF OrderKept, Active, NoOrder
  <2>2. ASSUME NEW e \in Events, Traded(e)
        PROVE  SameTrade(trade[e], trade'[e])
    <3>1. CASE \A u \in Rows : SameRow(trade[u], trade'[u])
      BY <3>1, Inputs DEF SameRow
    <3>2. ASSUME NEW u \in Rows, Booked(u) PROVE SameTrade(trade[e], trade'[e])
      BY <2>2, <3>2, Inputs DEF Booked, SameRow
    <3>3. ASSUME NEW u \in Rows, NEW fee \in Corrections, CorrectFee(u, fee)
          PROVE  SameTrade(trade[e], trade'[e])
      <4>1. /\ trade' = [trade EXCEPT ![u].charged = fee, ![u].corrected = TRUE]
            /\ trade \in [Rows -> {NoTrade} \cup Trades] /\ trade[u] \in Trades
        BY <3>3, TradeRow DEF CorrectFee, CoreInv, TypeOK, Traded
      <4> QED
        BY <4>1, Inputs DEF Trades, SameTrade
    <3>4. ~Reset
      BY <2>2 DEF Reset
    <3> QED
      BY <3>1, <3>2, <3>3, <3>4, Moves, Inputs
  <2> QED
    BY <2>1, <2>2, DecisionsKept DEF HistoryStep, SameTrade, Traded
<1>2. HistoryKept <=> [][HistoryStep]_vars
  BY DEF HistoryKept, HistoryStep
<1> QED
  BY <1>1, <1>2, CoreAlways, PTL DEF Spec

----------------------------------------------------------------------------
\* Every order is the sum of its fills.

FillsAre(k) ==
  order[k] # NoOrder =>
    /\ order[k].filled = Total([e \in Events |-> FilledBy(e, k)])
    /\ order[k].gross = Total([e \in Events |-> GrossBy(e, k)])
    /\ order[k].consumed = Total([e \in Events |-> SpentBy(e, k)])
    /\ Fee(order[k].side, order[k].gross) = Total([e \in Events |-> FeeBy(e, k)])

LEMMA FillAmounts ==
  ASSUME TypeOK, NEW k \in Keys
  PROVE  /\ [e \in Events |-> FilledBy(e, k)] \in [Events -> Nat]
         /\ [e \in Events |-> GrossBy(e, k)] \in [Events -> Nat]
         /\ [e \in Events |-> SpentBy(e, k)] \in [Events -> Nat]
         /\ [e \in Events |-> FeeBy(e, k)] \in [Events -> Nat]
<1>1. ASSUME NEW e \in Events
      PROVE  /\ FilledBy(e, k) \in Nat /\ GrossBy(e, k) \in Nat
             /\ SpentBy(e, k) \in Nat /\ FeeBy(e, k) \in Nat
  <2>1. CASE IsFillOf(e, k)
    <3>1. /\ trade[e].side \in Sides /\ trade[e].quantity \in Nat
          /\ trade[e].gross \in Nat /\ trade[e].fee \in Nat
      BY <2>1, TradeRow, Inputs DEF IsFillOf, Traded, TypeOK
    <3>2. Spent(trade[e].side, trade[e].gross, trade[e].fee) \in Nat
      BY <3>1, SpentNat
    <3> QED
      BY <3>1, <3>2 DEF FilledBy, GrossBy, SpentBy, FeeBy
  <2>2. CASE ~IsFillOf(e, k)
    BY <2>2 DEF FilledBy, GrossBy, SpentBy, FeeBy
  <2> QED
    BY <2>1, <2>2
<1> QED
  BY <1>1

\* What a fill row brings to its order is unchanged by a step that changes
\* neither its decision nor its trade.
LEMMA FillKept ==
  ASSUME NEW e \in Events, NEW k \in Keys,
         IsFillOf(e, k)' <=> IsFillOf(e, k),
         IsFillOf(e, k) => SameTrade(trade[e], trade'[e])
  PROVE  /\ FilledBy(e, k)' = FilledBy(e, k) /\ GrossBy(e, k)' = GrossBy(e, k)
         /\ SpentBy(e, k)' = SpentBy(e, k) /\ FeeBy(e, k)' = FeeBy(e, k)
BY DEF FilledBy, GrossBy, SpentBy, FeeBy, SameTrade, IsFillOf, Traded

LEMMA FillsKept ==
  ASSUME NEW k \in Keys, FillsAre(k),
         \A e \in Events : /\ IsFillOf(e, k)' <=> IsFillOf(e, k)
                           /\ IsFillOf(e, k) => SameTrade(trade[e], trade'[e]),
         order'[k] # NoOrder =>
           /\ order[k] # NoOrder
           /\ order'[k].side = order[k].side /\ order'[k].filled = order[k].filled
           /\ order'[k].gross = order[k].gross /\ order'[k].consumed = order[k].consumed
  PROVE  FillsAre(k)'
<1>1. \A e \in Events :
        /\ FilledBy(e, k)' = FilledBy(e, k) /\ GrossBy(e, k)' = GrossBy(e, k)
        /\ SpentBy(e, k)' = SpentBy(e, k) /\ FeeBy(e, k)' = FeeBy(e, k)
  BY FillKept
<1>2. /\ [e \in Events |-> FilledBy(e, k)'] = [e \in Events |-> FilledBy(e, k)]
      /\ [e \in Events |-> GrossBy(e, k)'] = [e \in Events |-> GrossBy(e, k)]
      /\ [e \in Events |-> SpentBy(e, k)'] = [e \in Events |-> SpentBy(e, k)]
      /\ [e \in Events |-> FeeBy(e, k)'] = [e \in Events |-> FeeBy(e, k)]
  BY <1>1
<1> QED
  BY <1>2 DEF FillsAre

\* A new order has no fills.
LEMMA NoFills ==
  ASSUME NEW k \in Keys, \A e \in Events : ~IsFillOf(e, k)',
         order'[k].filled = 0, order'[k].gross = 0, order'[k].consumed = 0
  PROVE  FillsAre(k)'
<1>1. \A e \in Events : /\ FilledBy(e, k)' = 0 /\ GrossBy(e, k)' = 0
                        /\ SpentBy(e, k)' = 0 /\ FeeBy(e, k)' = 0
  BY DEF FilledBy, GrossBy, SpentBy, FeeBy
<1>2. /\ [e \in Events |-> FilledBy(e, k)'] \in [Events -> Nat]
      /\ [e \in Events |-> GrossBy(e, k)'] \in [Events -> Nat]
      /\ [e \in Events |-> SpentBy(e, k)'] \in [Events -> Nat]
      /\ [e \in Events |-> FeeBy(e, k)'] \in [Events -> Nat]
  BY <1>1
<1>3. /\ Total([e \in Events |-> FilledBy(e, k)']) = 0
      /\ Total([e \in Events |-> GrossBy(e, k)']) = 0
      /\ Total([e \in Events |-> SpentBy(e, k)']) = 0
      /\ Total([e \in Events |-> FeeBy(e, k)']) = 0
  BY <1>1, <1>2, TotalZero
<1>4. \A side : Fee(side, 0) = 0
  BY DEF Fee
<1> QED
  BY <1>3, <1>4 DEF FillsAre

\* A value added where there was none.
LEMMA TotalAdded ==
  ASSUME NEW f \in [Events -> Nat], NEW g, NEW e \in Events, NEW n \in Nat,
         g = [d \in Events |-> g[d]], f[e] = 0, g[e] = n,
         \A d \in Events \ {e} : f[d] = g[d]
  PROVE  Total(g) = Total(f) + n /\ Total(f) \in Nat
<1>1. \A d \in Events : g[d] \in Nat
  OBVIOUS
<1>2. g \in [Events -> Nat]
  BY <1>1
<1>3. Total(g) = Total(f) - f[e] + g[e] /\ Total(f) \in Nat
  BY <1>2, RowsFinite, TotalChange, UnitsFinite
<1> QED
  BY <1>3

LEMMA FillAdds ==
  ASSUME CoreInv, NEW e \in Events, ApplyFill(e),
         NEW k \in Keys, k = match[e].order, FillsAre(k)
  PROVE  FillsAre(k)'
<1> DEFINE o == order[k]
<1>1. /\ k \in Keys /\ Matched(e) /\ ~Traded(e)
      /\ o \in Orders /\ o.side \in Sides /\ o.gross \in Nat /\ o.filled \in Nat /\ o.consumed \in Nat
      /\ match[e].quantity \in Nat
      /\ FillGross(e) \in Nat /\ FillFee(e) \in Nat /\ FillSpent(e) \in Nat
      /\ FillSpent(e) = Spent(o.side, FillGross(e), FillFee(e))
      /\ FillFee(e) = Fee(o.side, o.gross + FillGross(e)) - Fee(o.side, o.gross)
      /\ order'[k].side = o.side
      /\ order'[k].filled = o.filled + match[e].quantity
      /\ order'[k].gross = o.gross + FillGross(e)
      /\ order'[k].consumed = o.consumed + FillSpent(e)
      /\ o.asset \in Assets
  BY FillFacts
<1>2. /\ \A u \in Rows \ {e} : trade'[u] = ReleasedRows(o.asset)[u]
      /\ trade'[e] \in Trades /\ trade'[e].side = o.side
      /\ trade'[e].quantity = match[e].quantity
      /\ trade'[e].gross = FillGross(e) /\ trade'[e].fee = FillFee(e)
      /\ match' = match
  BY FillBooks
<1>3. o # NoOrder
  BY <1>1 DEF Orders, NoOrder
<1>4. Fee(o.side, o.gross) \in Nat /\ Fee(o.side, o.gross + FillGross(e)) \in Nat
  BY <1>1, FeeNat
<1> HIDE DEF o
<1>5. \A d \in Events \ {e} : SameRow(trade[d], trade'[d])
  BY <1>1, <1>2, ReleaseSame, Inputs DEF CoreInv
<1>6. ASSUME NEW d \in Events \ {e}
      PROVE  /\ FilledBy(d, k)' = FilledBy(d, k) /\ GrossBy(d, k)' = GrossBy(d, k)
             /\ SpentBy(d, k)' = SpentBy(d, k) /\ FeeBy(d, k)' = FeeBy(d, k)
  <2>1. /\ trade'[d].side = trade[d].side
        /\ Traded(d) => /\ trade'[d].quantity = trade[d].quantity
                        /\ trade'[d].gross = trade[d].gross /\ trade'[d].fee = trade[d].fee
    BY <1>5 DEF SameRow, SameTrade, Traded
  <2> QED
    BY <1>2, <2>1 DEF FilledBy, GrossBy, SpentBy, FeeBy, IsFillOf, Matched, Traded
<1>7. /\ FilledBy(e, k) = 0 /\ GrossBy(e, k) = 0 /\ SpentBy(e, k) = 0 /\ FeeBy(e, k) = 0
  BY <1>1 DEF FilledBy, GrossBy, SpentBy, FeeBy, IsFillOf
<1>8. /\ FilledBy(e, k)' = match[e].quantity /\ GrossBy(e, k)' = FillGross(e)
      /\ SpentBy(e, k)' = FillSpent(e) /\ FeeBy(e, k)' = FillFee(e)
  <2>1. IsFillOf(e, k)'
    BY <1>1, <1>2, TradeRow DEF IsFillOf, Matched, Traded
  <2> QED
    BY <1>1, <1>2, <2>1 DEF FilledBy, GrossBy, SpentBy, FeeBy
<1>9. /\ Total([d \in Events |-> FilledBy(d, k)'])
           = Total([d \in Events |-> FilledBy(d, k)]) + match[e].quantity
      /\ Total([d \in Events |-> FilledBy(d, k)]) \in Nat
  <2> DEFINE f == [d \in Events |-> FilledBy(d, k)]
             g == [d \in Events |-> FilledBy(d, k)']
  <2>1. /\ f \in [Events -> Nat] /\ f[e] = 0 /\ g[e] = match[e].quantity
        /\ g = [d \in Events |-> g[d]] /\ \A d \in Events \ {e} : f[d] = g[d]
    BY <1>1, <1>6, <1>7, <1>8, FillAmounts DEF CoreInv
  <2> HIDE DEF f, g
  <2>2. Total(g) = Total(f) + match[e].quantity /\ Total(f) \in Nat
    BY <1>1, <2>1, TotalAdded
  <2> QED
    BY <2>2 DEF f, g
<1>10. /\ Total([d \in Events |-> GrossBy(d, k)'])
            = Total([d \in Events |-> GrossBy(d, k)]) + FillGross(e)
       /\ Total([d \in Events |-> GrossBy(d, k)]) \in Nat
  <2> DEFINE f == [d \in Events |-> GrossBy(d, k)]
             g == [d \in Events |-> GrossBy(d, k)']
  <2>1. /\ f \in [Events -> Nat] /\ f[e] = 0 /\ g[e] = FillGross(e)
        /\ g = [d \in Events |-> g[d]] /\ \A d \in Events \ {e} : f[d] = g[d]
    BY <1>1, <1>6, <1>7, <1>8, FillAmounts DEF CoreInv
  <2> HIDE DEF f, g
  <2>2. Total(g) = Total(f) + FillGross(e) /\ Total(f) \in Nat
    BY <1>1, <2>1, TotalAdded
  <2> QED
    BY <2>2 DEF f, g
<1>11. /\ Total([d \in Events |-> SpentBy(d, k)'])
            = Total([d \in Events |-> SpentBy(d, k)]) + FillSpent(e)
       /\ Total([d \in Events |-> SpentBy(d, k)]) \in Nat
  <2> DEFINE f == [d \in Events |-> SpentBy(d, k)]
             g == [d \in Events |-> SpentBy(d, k)']
  <2>1. /\ f \in [Events -> Nat] /\ f[e] = 0 /\ g[e] = FillSpent(e)
        /\ g = [d \in Events |-> g[d]] /\ \A d \in Events \ {e} : f[d] = g[d]
    BY <1>1, <1>6, <1>7, <1>8, FillAmounts DEF CoreInv
  <2> HIDE DEF f, g
  <2>2. Total(g) = Total(f) + FillSpent(e) /\ Total(f) \in Nat
    BY <1>1, <2>1, TotalAdded
  <2> QED
    BY <2>2 DEF f, g
<1>12. /\ Total([d \in Events |-> FeeBy(d, k)'])
            = Total([d \in Events |-> FeeBy(d, k)]) + FillFee(e)
       /\ Total([d \in Events |-> FeeBy(d, k)]) \in Nat
  <2> DEFINE f == [d \in Events |-> FeeBy(d, k)]
             g == [d \in Events |-> FeeBy(d, k)']
  <2>1. /\ f \in [Events -> Nat] /\ f[e] = 0 /\ g[e] = FillFee(e)
        /\ g = [d \in Events |-> g[d]] /\ \A d \in Events \ {e} : f[d] = g[d]
    BY <1>1, <1>6, <1>7, <1>8, FillAmounts DEF CoreInv
  <2> HIDE DEF f, g
  <2>2. Total(g) = Total(f) + FillFee(e) /\ Total(f) \in Nat
    BY <1>1, <2>1, TotalAdded
  <2> QED
    BY <2>2 DEF f, g
<1>13. /\ o.filled = Total([d \in Events |-> FilledBy(d, k)])
       /\ o.gross = Total([d \in Events |-> GrossBy(d, k)])
       /\ o.consumed = Total([d \in Events |-> SpentBy(d, k)])
       /\ Fee(o.side, o.gross) = Total([d \in Events |-> FeeBy(d, k)])
  BY <1>3 DEF FillsAre, o
<1>14. /\ order'[k].filled = Total([d \in Events |-> FilledBy(d, k)'])
       /\ order'[k].gross = Total([d \in Events |-> GrossBy(d, k)'])
       /\ order'[k].consumed = Total([d \in Events |-> SpentBy(d, k)'])
       /\ Fee(order'[k].side, order'[k].gross) = Total([d \in Events |-> FeeBy(d, k)'])
  <2>1. Fee(order'[k].side, order'[k].gross) = Fee(o.side, o.gross) + FillFee(e)
    BY <1>1, <1>4
  <2> QED
    BY <1>1, <1>9, <1>10, <1>11, <1>12, <1>13, <2>1
<1> QED
  BY <1>14 DEF FillsAre

\* Only its own fill writes the trade row of an event.
LEMMA EventRows ==
  ASSUME CoreInv, [Next]_vars, \A d \in Events : ~ApplyFill(d), NEW e \in Events
  PROVE  /\ Traded(e)' <=> Traded(e)
         /\ Traded(e) => SameTrade(trade[e], trade'[e])
<1>1. CASE \A u \in Rows : SameRow(trade[u], trade'[u])
  BY <1>1, Inputs DEF SameRow, SameTrade, Traded
<1>2. ASSUME NEW t \in Keys, Booked(t)
      PROVE  SameRow(trade[e], trade'[e])
  BY <1>2, Inputs DEF Booked
<1>3. ASSUME NEW u \in Rows, NEW fee \in Corrections, CorrectFee(u, fee)
      PROVE  SameTrade(trade[e], trade'[e])
  <2>1. /\ trade' = [trade EXCEPT ![u].charged = fee, ![u].corrected = TRUE]
        /\ trade \in [Rows -> {NoTrade} \cup Trades] /\ trade[u] \in Trades
    BY <1>3, TradeRow DEF CorrectFee, CoreInv, TypeOK, Traded
  <2> QED
    BY <2>1, Inputs DEF Trades, SameTrade
<1>4. CASE Reset
  BY <1>4, Inputs DEF Reset, Traded, NoTrade
<1>5. SameTrade(trade[e], trade'[e]) =>
        /\ Traded(e)' <=> Traded(e)
        /\ Traded(e) => SameTrade(trade[e], trade'[e])
  BY DEF SameTrade, Traded
<1> QED
  BY <1>1, <1>2, <1>3, <1>4, <1>5, Moves DEF SameRow

\* The counters of every order are the totals of its fill rows, and the fees
\* of its fills add up to the fee of its whole gross, however rounded.
THEOREM OrdersAreTheirFills == Spec => []OrderIsItsFills
<1>1. OrderIsItsFills <=> \A k \in Keys : FillsAre(k)
  BY DEF OrderIsItsFills, FillsAre
<1>2. Init => OrderIsItsFills
  BY DEF Init, OrderIsItsFills
<1>3. CoreInv /\ OrderIsItsFills /\ [Next]_vars => OrderIsItsFills'
  <2> SUFFICES ASSUME CoreInv, OrderIsItsFills, [Next]_vars, NEW k \in Keys
      PROVE  FillsAre(k)'
    BY DEF OrderIsItsFills, FillsAre
  <2>1. FillsAre(k)
    BY <1>1
  <2>2. ASSUME NEW e \in Events, ApplyFill(e) PROVE FillsAre(k)'
    <3>1. CASE k = match[e].order
      BY <2>1, <2>2, <3>1, FillAdds
    <3>2. CASE k # match[e].order
      <4>1. /\ match' = match /\ order'[k] = order[k]
            /\ order[match[e].order].asset \in Assets
            /\ \A u \in Rows \ {e} : trade'[u] = ReleasedRows(order[match[e].order].asset)[u]
        BY <2>2, <3>2, FillFacts, FillBooks
      <4>2. \A d \in Events \ {e} : SameTrade(trade[d], trade'[d])
        BY <4>1, ReleaseSame, Inputs DEF CoreInv, SameRow
      <4>3. \A d \in Events \ {e} : IsFillOf(d, k)' <=> IsFillOf(d, k)
        BY <4>1, <4>2 DEF IsFillOf, Matched, Traded, SameTrade
      <4>4. ~IsFillOf(e, k) /\ ~IsFillOf(e, k)'
        BY <3>2, <4>1 DEF IsFillOf
      <4> QED
        BY <2>1, <4>1, <4>2, <4>3, <4>4, FillsKept
    <3> QED
      BY <3>1, <3>2
  <2>3. CASE \A d \in Events : ~ApplyFill(d)
    <3>1. \A e \in Events : /\ Traded(e)' <=> Traded(e)
                            /\ Traded(e) => SameTrade(trade[e], trade'[e])
      BY <2>3, EventRows
    <3>2. \A e \in Events : Traded(e) => Matched(e) /\ match'[e] = match[e]
      BY DecisionsKept, MatchedRow DEF CoreInv, MatchSound
    <3>3. \A e \in Events : /\ IsFillOf(e, k)' <=> IsFillOf(e, k)
                            /\ IsFillOf(e, k) => SameTrade(trade[e], trade'[e])
      BY <3>1, <3>2 DEF IsFillOf, Matched
    <3>4. CASE order'[k] = order[k]
      BY <2>1, <3>3, <3>4, FillsKept
    <3>5. ASSUME Cancel(k)
          PROVE  FillsAre(k)'
      <4>1. order' = [order EXCEPT ![k].status = "CANCELLED"] /\ Active(k)
            /\ order \in [Keys -> SoundOrders]
        BY <3>5 DEF Cancel, CoreInv, OrderSound
      <4>2. order[k] \in Orders /\ order[k] # NoOrder
        BY <4>1, OrderRow DEF Active, NoOrder
      <4>3. /\ order'[k].side = order[k].side /\ order'[k].filled = order[k].filled
            /\ order'[k].gross = order[k].gross /\ order'[k].consumed = order[k].consumed
        BY <4>1, <4>2 DEF Orders
      <4> QED
        BY <2>1, <3>3, <4>2, <4>3, FillsKept
    <3>6. ASSUME NEW side \in Sides, NEW a \in Assets, NEW q \in Quantities,
                 NEW p \in Prices, NEW lag \in Lags, NEW budget \in Budgets,
                 Reserve(k, side, a, q, p, lag, budget)
          PROVE  FillsAre(k)'
      <4>1. /\ order[k] = NoOrder
            /\ order'[k].filled = 0 /\ order'[k].gross = 0 /\ order'[k].consumed = 0
        BY <3>6 DEF Reserve, KeyFree, CoreInv, OrderSound
      <4>2. \A e \in Events : ~IsFillOf(e, k)
        BY <4>1, MatchedRow DEF IsFillOf, CoreInv, MatchSound
      <4> QED
        BY <3>3, <4>1, <4>2, NoFills
    <3>7. ASSUME NEW j \in Keys \ {k}, Cancel(j)
          PROVE  order'[k] = order[k]
      BY <3>7 DEF Cancel, CoreInv, TypeOK
    <3>8. ASSUME NEW j \in Keys \ {k}, NEW side \in Sides, NEW a \in Assets,
                 NEW q \in Quantities, NEW p \in Prices, NEW lag \in Lags, NEW budget \in Budgets,
                 Reserve(j, side, a, q, p, lag, budget)
          PROVE  order'[k] = order[k]
      BY <3>8 DEF Reserve, KeyFree, CoreInv, TypeOK
    <3> QED
      BY <2>3, <3>4, <3>5, <3>6, <3>7, <3>8, Frames DEF Next
  <2> QED
    BY <2>2, <2>3
<1> QED
  BY <1>2, <1>3, CoreAlways, PTL DEF Spec

----------------------------------------------------------------------------
\* With prices in whole cents the hold of a BUY covers every fill to come.

\* What a BUY holds pays the rest of its notional at its limit, and the fee.
BuyBacked(o) ==
  o.status = "ACTIVE" /\ o.side = "buy" =>
    /\ o.gross <= o.filled * o.limit
    /\ o.consumed = o.gross + Fee("buy", o.gross)
    /\ o.reserved >= o.quantity * o.limit + Fee("buy", o.quantity * o.limit)
BuysBacked == CentUnits = 1 => \A k \in Keys : BuyBacked(order[k])

LEMMA ReserveBacked ==
  ASSUME CentUnits = 1, CoreInv, BuysBacked,
         NEW k \in Keys, NEW side \in Sides, NEW a \in Assets, NEW q \in Quantities,
         NEW p \in Prices, NEW lag \in Lags, NEW budget \in Budgets,
         Reserve(k, side, a, q, p, lag, budget)
  PROVE  BuysBacked'
<1> DEFINE hold == HoldFor(side, q, p, budget)
           o == [status |-> "ACTIVE", side |-> side, asset |-> a, quantity |-> q,
                 limit |-> p, lag |-> lag, session |-> session, reserved |-> hold,
                 filled |-> 0, gross |-> 0, consumed |-> 0]
<1>1. q \in Nat /\ p \in Nat /\ budget \in Nat /\ q * p \in Nat
  BY Inputs
<1>2. side = "buy" => hold >= q * p + Fee("buy", q * p)
  <2>1. Gross(q, p) = q * p
    BY <1>1, GrossExact
  <2>2. Fee("buy", q * p) \in Nat
    BY <1>1, FeeNat DEF Sides
  <2> QED
    BY <1>1, <2>1, <2>2 DEF HoldFor
<1> HIDE DEF hold
<1>3. order'[k] = o /\ \A j \in Keys \ {k} : order'[j] = order[j]
  BY DEF Reserve, FreeCash, hold, CoreInv, TypeOK
<1>4. BuyBacked(o)
  <2>1. Fee("buy", 0) = 0 /\ 0 * p = 0
    BY <1>1 DEF Fee
  <2> QED
    BY <1>2, <2>1 DEF BuyBacked
<1> HIDE DEF o
<1> QED
  BY <1>3, <1>4 DEF BuysBacked

\* A fill within the limit spends what the notional at the limit allows.
LEMMA FillBacked ==
  ASSUME CentUnits = 1, CoreInv, BuysBacked, NEW e \in Events, ApplyFill(e)
  PROVE  BuysBacked'
<1> DEFINE k == match[e].order
           o == order[k]
           q == match[e].quantity
           p == match[e].price
<1>1. /\ k \in Keys /\ q \in Nat /\ o \in Orders /\ o.status = "ACTIVE"
      /\ o.gross \in Nat /\ o.filled \in Nat /\ o.quantity \in Nat
      /\ o.consumed \in Nat /\ o.reserved \in Nat /\ o.side \in Sides
      /\ FillSpent(e) = Spent(o.side, FillGross(e), FillFee(e))
      /\ FillFee(e) = Fee(o.side, o.gross + FillGross(e)) - Fee(o.side, o.gross)
      /\ FillGross(e) \in Nat
      /\ \A j \in Keys \ {k} : order'[j] = order[j]
      /\ order'[k].side = o.side /\ order'[k].quantity = o.quantity
      /\ order'[k].limit = o.limit /\ order'[k].reserved = o.reserved
      /\ order'[k].filled = o.filled + q
      /\ order'[k].gross = o.gross + FillGross(e)
      /\ order'[k].consumed = o.consumed + FillSpent(e)
  BY FillFacts
<1>2. o.limit \in Nat
  BY <1>1 DEF Orders
<1>3. p \in Nat /\ FillGross(e) = q * p
  <2>1. Matched(e)
    BY FillFacts
  <2>2. p \in Nat
    BY <2>1, MatchedRow, MatchRow DEF CoreInv
  <2> QED
    BY <1>1, <2>2, GrossExact DEF FillGross
<1>4. o.side = "buy" => p <= o.limit
  BY DEF ApplyFill, FillFits, Crosses
<1>5. BuyBacked(o)
  BY <1>1 DEF BuysBacked
<1> HIDE DEF k, o, q, p
<1>6. BuyBacked(order'[k])
  <2> SUFFICES ASSUME o.side = "buy"
      PROVE  /\ o.gross + FillGross(e) <= (o.filled + q) * o.limit
             /\ o.consumed + FillSpent(e)
                  = o.gross + FillGross(e) + Fee("buy", o.gross + FillGross(e))
             /\ o.reserved >= o.quantity * o.limit + Fee("buy", o.quantity * o.limit)
    BY <1>1 DEF BuyBacked
  <2>1. /\ o.gross <= o.filled * o.limit
        /\ o.consumed = o.gross + Fee("buy", o.gross)
        /\ o.reserved >= o.quantity * o.limit + Fee("buy", o.quantity * o.limit)
    BY <1>1, <1>5 DEF BuyBacked
  <2>2. q * p <= q * o.limit
    BY <1>1, <1>2, <1>3, <1>4
  <2>3. /\ (o.filled + q) * o.limit = o.filled * o.limit + q * o.limit
        /\ o.filled * o.limit \in Nat /\ q * o.limit \in Nat /\ q * p \in Nat
    BY <1>1, <1>2, <1>3
  <2>4. o.gross + FillGross(e) <= (o.filled + q) * o.limit
    BY <1>1, <1>3, <2>1, <2>2, <2>3
  <2>5. FillSpent(e) = FillGross(e) + FillFee(e)
    BY <1>1 DEF Spent
  <2>6. Fee("buy", o.gross) \in Nat /\ Fee("buy", o.gross + FillGross(e)) \in Nat
    BY <1>1, FeeNat DEF Sides
  <2>7. o.consumed + FillSpent(e)
          = o.gross + FillGross(e) + Fee("buy", o.gross + FillGross(e))
    BY <1>1, <2>1, <2>5, <2>6
  <2> QED
    BY <2>1, <2>4, <2>7
<1> QED
  BY <1>1, <1>6 DEF BuysBacked

\* A matched BUY is never refused for lack of held cash.
THEOREM BuyMatchesFit == Spec => []BuyMatchFits
<1>1. Init => BuysBacked
  BY DEF Init, BuysBacked, BuyBacked, NoOrder
<1>2. CoreInv /\ BuysBacked /\ [Next]_vars => BuysBacked'
  <2> SUFFICES ASSUME CoreInv, BuysBacked, [Next]_vars, CentUnits = 1 PROVE BuysBacked'
    BY DEF BuysBacked
  <2>1. CASE order' = order
    BY <2>1 DEF BuysBacked
  <2>2. ASSUME NEW k \in Keys, NEW side \in Sides, NEW a \in Assets, NEW q \in Quantities,
               NEW p \in Prices, NEW lag \in Lags, NEW budget \in Budgets,
               Reserve(k, side, a, q, p, lag, budget)
        PROVE  BuysBacked'
    BY <2>2, ReserveBacked
  <2>3. ASSUME NEW e \in Events, ApplyFill(e) PROVE BuysBacked'
    BY <2>3, FillBacked
  <2>4. ASSUME NEW k \in Keys, Cancel(k) PROVE BuysBacked'
    <3>1. /\ order[k].status = "ACTIVE" /\ order \in [Keys -> SoundOrders]
          /\ order' = [order EXCEPT ![k].status = "CANCELLED"]
      BY <2>4 DEF Cancel, Active, CoreInv, OrderSound
    <3>2. order[k] \in Orders
      BY <3>1, OrderRow DEF NoOrder
    <3>3. order'[k].status = "CANCELLED" /\ \A j \in Keys \ {k} : order'[j] = order[j]
      BY <3>1, <3>2 DEF Orders
    <3> QED
      BY <3>3 DEF BuysBacked, BuyBacked
  <2> QED
    BY <2>1, <2>2, <2>3, <2>4, Frames DEF Next
<1>3. CoreInv /\ MatchHonoured /\ BuysBacked => BuyMatchFits
  <2> SUFFICES ASSUME CoreInv, MatchHonoured, BuysBacked, CentUnits = 1,
                      NEW e \in Events, Unapplied(e), order[match[e].order].side = "buy"
      PROVE  FillFits(e)
    BY DEF BuyMatchFits
  <2> DEFINE k == match[e].order
             o == order[k]
             q == match[e].quantity
             p == match[e].price
  <2>1. Matched(e) /\ match[e] # NoMatch
    BY MatchedRow DEF Unapplied
  <2>2. k \in Keys /\ q \in Nat /\ p \in Nat /\ q > 0 /\ p > 0
    BY <2>1, MatchRow DEF CoreInv, MatchSound
  <2>3. /\ o.status = "ACTIVE" /\ q \in 1 .. Remaining(k)
        /\ match[e].final <=> q = Remaining(k)
        /\ Crosses(k, p)
    BY DEF MatchHonoured, Active
  <2>4. o \in SoundOrders /\ o # NoOrder
    BY <2>2, <2>3 DEF CoreInv, OrderSound, NoOrder
  <2>5. /\ o \in Orders /\ o.quantity \in Nat /\ o.filled \in Nat /\ o.gross \in Nat
        /\ o.limit \in Nat /\ o.reserved \in Nat /\ o.consumed \in Nat
    BY <2>4, OrderRow
  <2>6. /\ o.gross <= o.filled * o.limit
        /\ o.consumed = o.gross + Fee("buy", o.gross)
        /\ o.reserved >= o.quantity * o.limit + Fee("buy", o.quantity * o.limit)
    BY <2>2, <2>3 DEF BuysBacked, BuyBacked
  <2>7. o.filled + q <= o.quantity /\ p <= o.limit
        /\ (o.filled + q # o.quantity => ~match[e].final)
        /\ Crosses(k, p)
    BY <2>2, <2>3, <2>5 DEF Remaining, Crosses
  <2>8. FillGross(e) = q * p
    BY <2>2, GrossExact DEF FillGross
  <2> DEFINE gross == o.gross + FillGross(e)
             most == o.quantity * o.limit
  <2>9. FillFee(e) = Fee("buy", gross) - Fee("buy", o.gross)
    BY DEF FillFee
  <2>10. FillSpent(e) = FillGross(e) + FillFee(e)
    BY DEF FillSpent, Spent
  <2> HIDE DEF k, o, q, p
  <2>11. q * p \in Nat /\ q * p > 0
    <3>1. q * p >= q * 1
      BY <2>2
    <3> QED
      BY <2>2, <3>1
  <2>12. /\ gross \in Nat /\ most \in Nat /\ o.gross <= gross
         /\ gross <= most
         /\ o.filled + q # o.quantity => gross < most
    <3>1. q * p <= q * o.limit
      BY <2>2, <2>5, <2>7
    <3>2. /\ (o.filled + q) * o.limit = o.filled * o.limit + q * o.limit
          /\ o.filled * o.limit \in Nat /\ q * o.limit \in Nat
          /\ (o.filled + q) * o.limit \in Nat
      BY <2>2, <2>5
    <3>3. gross <= (o.filled + q) * o.limit
      BY <2>5, <2>6, <2>8, <2>11, <3>1, <3>2
    <3>4. most \in Nat /\ (o.filled + q) * o.limit <= most
      BY <2>2, <2>5, <2>7
    <3>5. o.filled + q # o.quantity => (o.filled + q) * o.limit + o.limit <= most
      <4>1. ASSUME o.filled + q # o.quantity
            PROVE  (o.filled + q + 1) * o.limit <= most
        <5>1. o.filled + q + 1 <= o.quantity
          BY <2>2, <2>5, <2>7, <4>1
        <5> QED
          BY <2>2, <2>5, <5>1
      <4>2. (o.filled + q + 1) * o.limit = (o.filled + q) * o.limit + o.limit
        BY <2>2, <2>5
      <4> QED
        BY <4>1, <4>2
    <3>6. o.limit > 0
      BY <2>2, <2>5, <2>7
    <3>7. gross \in Nat /\ o.gross <= gross
      BY <2>5, <2>8, <2>11
    <3> HIDE DEF gross, most
    <3> QED
      BY <2>5, <3>2, <3>3, <3>4, <3>5, <3>6, <3>7
  <2>13. /\ Fee("buy", o.gross) <= Fee("buy", gross) /\ Fee("buy", gross) <= Fee("buy", most)
         /\ Fee("buy", o.gross) \in Nat /\ Fee("buy", gross) \in Nat
         /\ Fee("buy", most) \in Nat
    BY <2>5, <2>12, FeeMonotone, FeeNat DEF Sides
  <2>14. o.consumed + FillSpent(e) = gross + Fee("buy", gross)
    BY <2>5, <2>6, <2>8, <2>9, <2>10, <2>11, <2>13
  <2>15. o.reserved >= most + Fee("buy", most)
    BY <2>6
  <2>16. /\ FillGross(e) > 0 /\ FillFee(e) >= 0
         /\ o.consumed + FillSpent(e) <= o.reserved
         /\ o.filled + q # o.quantity => o.consumed + FillSpent(e) < o.reserved
    <3> HIDE DEF gross, most
    <3> QED
      BY <2>5, <2>8, <2>9, <2>11, <2>12, <2>13, <2>14, <2>15
  <2> QED
    BY <2>7, <2>16 DEF FillFits, k, o, q, p
<1> QED
  BY <1>1, <1>2, <1>3, CoreAlways, MatchesAreHonoured, PTL DEF Spec

----------------------------------------------------------------------------
\* When a SELL, too, is never refused.

\* No fill of a SELL owes more fee than it brings in, whatever came before it.
SalesPayTheirFees ==
  \A gross, q \in Nat, p \in Prices :
    (\E step \in Steps : q >= step)
      => Fee("sell", gross + Gross(q, p)) - Fee("sell", gross) <= Gross(q, p)

\* Decisions are made at a price of the market and in whole steps.
MatchedInSteps ==
  \A e \in Events : Matched(e) =>
    match[e].price \in Prices /\ \E step \in Steps : match[e].quantity >= step

LEMMA FloorStepLeast ==
  ASSUME NEW n \in Nat, NEW step \in Steps, FloorStep(n, step) > 0
  PROVE  FloorStep(n, step) >= step
<1>1. ASSUME NEW m \in Nat, NEW d \in Nat \ {0}, m * d > 0
      PROVE  m * d >= d
  <2>1. m >= 1
    BY <1>1
  <2> QED
    BY <2>1
<1>2. ASSUME NEW d \in Nat \ {0}
      PROVE  n \div d \in Nat
  OBVIOUS
<1>3. step \in Nat \ {0}
  BY LedgerAssumption
<1> QED
  BY <1>1, <1>2, <1>3 DEF FloorStep

LEMMA RecordsSteps ==
  ASSUME CoreInv, MatchedInSteps, NEW e \in Events, NEW k \in Keys, NEW s \in 0 .. session,
         NEW close \in Prices, NEW capacity \in Capacities, NEW step \in Steps,
         RecordMatch(e, k, s, close, capacity, step)
  PROVE  MatchedInSteps'
<1> DEFINE q == MatchQuantity(k, s, close, capacity, step)
           room == FloorStep(capacity - MatchedShares(order[k].asset, s), step)
           least == Least(room, Remaining(k))
<1>1. /\ order[k].status = "ACTIVE"
      /\ MatchedShares(order[k].asset, s) <= capacity
      /\ match' = [match EXCEPT ![e] =
           [outcome |-> IF q > 0 THEN "MATCHED" ELSE "NO_MATCH", order |-> k, session |-> s,
            capacity |-> capacity, price |-> close, quantity |-> q, final |-> q = Remaining(k)]]
  BY DEF RecordMatch, Active
<1>2. q > 0 => q >= step
  <2>1. Remaining(k) \in Nat /\ q \in Nat
    BY <1>1, MatchQuantityFacts DEF CoreInv
  <2>2. capacity - MatchedShares(order[k].asset, s) \in Nat
    BY <1>1, MatchedSharesNat, Inputs DEF CoreInv
  <2>3. room \in Nat
    BY <2>2, FloorStepFacts
  <2> HIDE DEF room
  <2>4. least \in Nat
    BY <2>1, <2>3 DEF Least
  <2>5. q = IF Crosses(k, close) THEN FloorStep(least, step) ELSE 0
    BY DEF MatchQuantity, Room, room
  <2> HIDE DEF least, q
  <2> QED
    BY <2>4, <2>5, FloorStepLeast
<1> HIDE DEF q
<1>3. match \in [Events -> {NoMatch} \cup Matches]
  BY DEF CoreInv, TypeOK
<1>4. ASSUME NEW d \in Events, match'[d].outcome = "MATCHED"
      PROVE  /\ match'[d].price \in Prices
             /\ \E st \in Steps : match'[d].quantity >= st
  BY <1>1, <1>2, <1>3, <1>4 DEF MatchedInSteps, Matched
<1> QED
  BY <1>4 DEF MatchedInSteps, Matched

\* With prices in whole cents, and fees that the fills of a SELL pay themselves,
\* every matched event can be filled: what a fill owes beyond its proceeds is the
\* only thing that gets an order stuck.
THEOREM EveryMatchFits ==
  ASSUME CentUnits = 1, SalesPayTheirFees
  PROVE  Spec => []MatchedIsFillable
<1>1. Init => MatchedInSteps
  BY DEF Init, MatchedInSteps, Matched, NoMatch
<1>2. CoreInv /\ MatchedInSteps /\ [Next]_vars => MatchedInSteps'
  <2> SUFFICES ASSUME CoreInv, MatchedInSteps, [Next]_vars PROVE MatchedInSteps'
    OBVIOUS
  <2>1. CASE match' = match
    BY <2>1 DEF MatchedInSteps, Matched
  <2>2. ASSUME NEW e \in Events, NEW k \in Keys, NEW s \in 0 .. session, NEW close \in Prices,
               NEW capacity \in Capacities, NEW step \in Steps,
               RecordMatch(e, k, s, close, capacity, step)
        PROVE  MatchedInSteps'
    BY <2>2, RecordsSteps
  <2> QED
    BY <2>1, <2>2, Frames DEF Next
<1>3. CoreInv /\ MatchHonoured /\ MatchedInSteps /\ BuyMatchFits => MatchedIsFillable
  <2> SUFFICES ASSUME CoreInv, MatchHonoured, MatchedInSteps, BuyMatchFits,
                      NEW e \in Events, Unapplied(e), order[match[e].order].side # "buy"
      PROVE  FillFits(e)
    BY DEF MatchedIsFillable, BuyMatchFits
  <2> DEFINE k == match[e].order
             o == order[k]
             q == match[e].quantity
             p == match[e].price
  <2>1. Matched(e) /\ match[e] # NoMatch
    BY MatchedRow DEF Unapplied
  <2>2. /\ k \in Keys /\ q \in Nat /\ p \in Nat /\ q > 0 /\ p > 0
        /\ p \in Prices /\ \E step \in Steps : q >= step
    BY <2>1, MatchRow DEF CoreInv, MatchSound, MatchedInSteps
  <2>3. o.status = "ACTIVE" /\ q \in 1 .. Remaining(k) /\ Crosses(k, p)
    BY DEF MatchHonoured, Active
  <2>4. o \in SoundOrders /\ o # NoOrder
    BY <2>2, <2>3 DEF CoreInv, OrderSound, NoOrder
  <2>5. /\ o.quantity \in Nat /\ o.filled \in Nat /\ o.gross \in Nat
        /\ o.reserved \in Nat /\ o.consumed \in Nat /\ o.consumed <= o.reserved
        /\ o.side = "sell"
    BY <2>4, OrderRow DEF SoundOrder, Sides
  <2>6. o.filled + q <= o.quantity
    BY <2>2, <2>3, <2>5 DEF Remaining
  <2>7. FillGross(e) \in Nat /\ FillGross(e) > 0
    <3>1. FillGross(e) = q * p
      BY <2>2, GrossExact DEF FillGross
    <3>2. q * p >= q * 1 /\ q * p \in Nat
      BY <2>2
    <3> HIDE DEF q, p
    <3> QED
      BY <2>2, <3>1, <3>2
  <2>8. FillFee(e) = Fee("sell", o.gross + FillGross(e)) - Fee("sell", o.gross)
    BY <2>5 DEF FillFee
  <2>9. FillFee(e) <= FillGross(e)
    BY <2>2, <2>5, <2>8 DEF SalesPayTheirFees, FillGross
  <2>10. /\ Fee("sell", o.gross) <= Fee("sell", o.gross + FillGross(e))
         /\ Fee("sell", o.gross) \in Nat /\ Fee("sell", o.gross + FillGross(e)) \in Nat
    <3>1. \A g, h \in Nat : Fee("sell", g) <= Fee("sell", g + h)
      BY FeeMonotone DEF Sides
    <3>2. \A g, h \in Nat : Fee("sell", g) \in Nat /\ Fee("sell", g + h) \in Nat
      BY FeeNat DEF Sides
    <3> QED
      BY <2>5, <2>7, <3>1, <3>2
  <2>11. FillFee(e) >= 0 /\ FillFee(e) \in Int
    BY <2>8, <2>10
  <2>12. FillSpent(e) = 0
    BY <2>5, <2>7, <2>9, <2>11 DEF FillSpent, Spent
  <2> QED
    BY <2>3, <2>5, <2>6, <2>7, <2>11, <2>12 DEF FillFits
<1> QED
  BY <1>1, <1>2, <1>3, CoreAlways, MatchesAreHonoured, BuyMatchesFit, PTL DEF Spec

----------------------------------------------------------------------------
\* The promise of the reservations, seen through the ledger.  The mapped state is
\* read off the orders row by row; the operators of the promise are opened once,
\* in PromiseSteps, and the actions only show what each does to it.

StageOf(o) ==
  IF o = NoOrder THEN "fresh" ELSE IF o.status = "ACTIVE" THEN "open" ELSE "closed"
Free == cash - HeldIn(order)
Holds == [k \in Keys |-> HeldBy(order[k])]
Stages == [k \in Keys |-> StageOf(order[k])]

Kept == [Promise!Next]_(Promise!vars)

LEMMA PromiseState ==
  /\ Free = cash - HeldCash /\ Free' = (cash - HeldCash)'
  /\ Holds = [k \in Keys |-> Held(k)] /\ Holds' = [k \in Keys |-> Held(k)]'
  /\ Stages = [k \in Keys |-> Stage(k)] /\ Stages' = [k \in Keys |-> Stage(k)]'
BY HoldsAreIn DEF Free, Holds, Stages, HeldBy, Held, Active, StageOf, Stage

LEMMA PromiseSteps ==
  /\ Free' = Free /\ Holds' = Holds /\ Stages' = Stages => Kept
  /\ Free' \in Nat /\ Holds' = Holds /\ Stages' = Stages => Kept
  /\ \A k \in Keys, n \in 0 .. Free :
       /\ Stages[k] = "fresh" /\ Stages' = [Stages EXCEPT ![k] = "open"]
       /\ Free' = Free - n /\ Holds' = [Holds EXCEPT ![k] = n]
       => Kept
  /\ \A k \in Keys : \A spent \in 0 .. Holds[k] :
       /\ Stages[k] = "open" /\ Stages' = Stages
       /\ Holds' = [Holds EXCEPT ![k] = @ - spent] /\ Free' >= Free
       => Kept
  /\ \A k \in Keys : \A spent \in 0 .. Holds[k] :
       /\ Stages[k] = "open" /\ Stages' = [Stages EXCEPT ![k] = "closed"]
       /\ Holds' = [Holds EXCEPT ![k] = 0] /\ Free' >= Free + Holds[k] - spent
       => Kept
  /\ \A k \in Keys :
       /\ Stages[k] = "open" /\ Stages' = [Stages EXCEPT ![k] = "closed"]
       /\ Holds' = [Holds EXCEPT ![k] = 0] /\ Free' = Free + Holds[k]
       => Kept
<1>1. Free' = Free /\ Holds' = Holds /\ Stages' = Stages => Kept
  BY PromiseState DEF Kept, Promise!vars
<1>2. Free' \in Nat /\ Holds' = Holds /\ Stages' = Stages => Kept
  BY PromiseState DEF Kept, Promise!Next, Promise!Move
<1>3. ASSUME NEW k \in Keys, NEW n \in 0 .. Free,
             Stages[k] = "fresh", Stages' = [Stages EXCEPT ![k] = "open"],
             Free' = Free - n, Holds' = [Holds EXCEPT ![k] = n]
      PROVE  Kept
  <2>1. Promise!Open(k)
    BY <1>3, PromiseState DEF Promise!Open
  <2> QED
    BY <2>1 DEF Kept, Promise!Next
<1>4. ASSUME NEW k \in Keys, NEW spent \in 0 .. Holds[k], Stages[k] = "open",
             \/ /\ Stages' = Stages
                /\ Holds' = [Holds EXCEPT ![k] = @ - spent] /\ Free' >= Free
             \/ /\ Stages' = [Stages EXCEPT ![k] = "closed"]
                /\ Holds' = [Holds EXCEPT ![k] = 0] /\ Free' >= Free + Holds[k] - spent
      PROVE  Kept
  <2>1. Promise!Fill(k)
    BY <1>4, PromiseState DEF Promise!Fill
  <2> QED
    BY <2>1 DEF Kept, Promise!Next
<1>5. ASSUME NEW k \in Keys,
             Stages[k] = "open", Stages' = [Stages EXCEPT ![k] = "closed"],
             Holds' = [Holds EXCEPT ![k] = 0], Free' = Free + Holds[k]
      PROVE  Kept
  <2>1. Promise!Close(k)
    BY <1>5, PromiseState DEF Promise!Close
  <2> QED
    BY <2>1 DEF Kept, Promise!Next
<1> QED
  BY <1>1, <1>2, <1>3, <1>4, <1>5

\* One order written, as the promise sees it.
LEMMA OneOrderSeen ==
  ASSUME order \in [Keys -> SoundOrders], order' \in [Keys -> SoundOrders], cash \in Nat,
         cash' \in Nat,
         NEW k \in Keys, \A j \in Keys \ {k} : order'[j] = order[j]
  PROVE  /\ Holds' = [Holds EXCEPT ![k] = HeldBy(order'[k])] /\ Holds[k] = HeldBy(order[k])
         /\ Stages' = [Stages EXCEPT ![k] = StageOf(order'[k])] /\ Stages[k] = StageOf(order[k])
         /\ Free' = Free + (cash' - cash) + Holds[k] - HeldBy(order'[k])
         /\ Free \in Int /\ Holds[k] \in Nat /\ HeldBy(order'[k]) \in Nat
<1>1. \A j \in Keys : HeldBy(order[j]) \in Nat /\ HeldBy(order'[j]) \in Nat
  BY OrderRow
<1>2. HeldIn(order) \in Nat /\ HeldIn(order') = HeldIn(order) - HeldBy(order[k]) + HeldBy(order'[k])
  BY TotalsNat, OrderWritten
<1>3. Free' = cash' - HeldIn(order') /\ Free = cash - HeldIn(order)
  BY DEF Free
<1>4. Holds' = [j \in Keys |-> HeldBy(order'[j])] /\ Stages' = [j \in Keys |-> StageOf(order'[j])]
  BY DEF Holds, Stages
<1>5. Holds = [j \in Keys |-> HeldBy(order[j])] /\ Stages = [j \in Keys |-> StageOf(order[j])]
  BY DEF Holds, Stages
<1>6. Holds' = [Holds EXCEPT ![k] = HeldBy(order'[k])] /\ Holds[k] = HeldBy(order[k])
      /\ Stages' = [Stages EXCEPT ![k] = StageOf(order'[k])] /\ Stages[k] = StageOf(order[k])
  BY <1>4, <1>5
<1> QED
  BY <1>1, <1>2, <1>3, <1>6

LEMMA ReserveKept ==
  ASSUME CoreInv,
         NEW k \in Keys, NEW side \in Sides, NEW a \in Assets, NEW q \in Quantities,
         NEW p \in Prices, NEW lag \in Lags, NEW budget \in Budgets,
         Reserve(k, side, a, q, p, lag, budget)
  PROVE  Kept
<1> DEFINE hold == HoldFor(side, q, p, budget)
           o == [status |-> "ACTIVE", side |-> side, asset |-> a, quantity |-> q,
                 limit |-> p, lag |-> lag, session |-> session, reserved |-> hold,
                 filled |-> 0, gross |-> 0, consumed |-> 0]
<1>1. q \in Nat /\ p \in Nat /\ budget \in Nat /\ q > 0 /\ lag \in Nat /\ session \in Nat
  BY Inputs DEF CoreInv, TypeOK
<1>2. hold \in Nat
  BY <1>1, HoldForNat
<1> HIDE DEF hold
<1>3. /\ order[k] = NoOrder /\ cash' = cash
      /\ hold > 0 => hold <= cash - HeldCash
      /\ order' = [order EXCEPT ![k] = o]
  BY DEF Reserve, KeyFree, FreeCash, hold
<1>4. HeldBy(o) = hold /\ StageOf(o) = "open" /\ o \in SoundOrders
  <2>1. /\ o.status = "ACTIVE" /\ o.reserved = hold /\ o.consumed = 0 /\ o.filled = 0
        /\ o.quantity = q
    OBVIOUS
  <2>2. o \in Orders
    BY <1>1, <1>2 DEF Orders
  <2> HIDE DEF o
  <2> QED
    BY <1>1, <1>2, <2>1, <2>2 DEF HeldBy, StageOf, NoOrder, SoundOrders, SoundOrder
<1> HIDE DEF o
<1>5. order \in [Keys -> SoundOrders] /\ cash \in Nat /\ HeldCash <= cash
  BY DEF CoreInv, OrderSound, TypeOK, HoldsCovered
<1>6. /\ order' \in [Keys -> SoundOrders] /\ order'[k] = o /\ cash' \in Nat
      /\ \A j \in Keys \ {k} : order'[j] = order[j]
  BY <1>3, <1>4, <1>5
<1>7. /\ Holds' = [Holds EXCEPT ![k] = hold] /\ Holds[k] = 0
      /\ Stages' = [Stages EXCEPT ![k] = "open"] /\ Stages[k] = "fresh"
      /\ Free' = Free + (cash' - cash) + Holds[k] - hold
      /\ Free \in Int
  <2>1. HeldBy(order[k]) = 0 /\ StageOf(order[k]) = "fresh"
    BY <1>3 DEF NoOrder, HeldBy, StageOf
  <2> QED
    BY <1>4, <1>5, <1>6, <2>1, OneOrderSeen
<1>8. hold \in 0 .. Free /\ Free' = Free - hold
  <2>1. Free = cash - HeldCash /\ HeldCash \in Nat
    BY <1>5, PromiseState, HoldsAreIn, TotalsNat
  <2> QED
    BY <1>2, <1>3, <1>5, <1>7, <2>1
<1> QED
  BY <1>7, <1>8, PromiseSteps

LEMMA FillKeepsPromise ==
  ASSUME CoreInv, NEW e \in Events, ApplyFill(e)
  PROVE  Kept
<1> DEFINE k == match[e].order
           spent == FillSpent(e)
<1>1. /\ k \in Keys /\ spent \in Nat
      /\ order' \in [Keys -> SoundOrders]
      /\ \A j \in Keys \ {k} : order'[j] = order[j]
      /\ order'[k] \in Orders /\ order[k].status = "ACTIVE"
  BY FillFacts
<1>2. cash' \in Nat /\ cash' >= cash - spent
  BY FillBooks
<1>3. /\ spent <= HeldBy(order[k])
      /\ order'[k].status = "ACTIVE" => HeldBy(order'[k]) = HeldBy(order[k]) - spent
      /\ order'[k].status # "ACTIVE" => HeldBy(order'[k]) = 0
  BY FillHolds
<1>4. order \in [Keys -> SoundOrders] /\ cash \in Nat
  BY DEF CoreInv, OrderSound, TypeOK
<1> HIDE DEF k, spent
<1>5. StageOf(order[k]) = "open"
      /\ StageOf(order'[k]) = IF order'[k].status = "ACTIVE" THEN "open" ELSE "closed"
  <2>1. order'[k] # NoOrder /\ order[k] # NoOrder
    BY <1>1 DEF Orders, NoOrder
  <2> QED
    BY <1>1, <2>1 DEF StageOf
<1>6. /\ Holds' = [Holds EXCEPT ![k] = HeldBy(order'[k])] /\ Holds[k] = HeldBy(order[k])
      /\ Stages' = [Stages EXCEPT ![k] = StageOf(order'[k])] /\ Stages[k] = StageOf(order[k])
      /\ Free' = Free + (cash' - cash) + Holds[k] - HeldBy(order'[k])
      /\ Free \in Int /\ Holds[k] \in Nat /\ HeldBy(order'[k]) \in Nat
  BY <1>1, <1>2, <1>4, OneOrderSeen
<1>7. spent \in 0 .. Holds[k]
  BY <1>1, <1>3, <1>6
<1>8. CASE order'[k].status = "ACTIVE"
  <2>1. Holds' = [Holds EXCEPT ![k] = @ - spent]
    BY <1>3, <1>6, <1>8 DEF Holds
  <2>2. Stages' = Stages
    <3>1. StageOf(order'[k]) = Stages[k]
      BY <1>5, <1>6, <1>8
    <3> QED
      BY <1>6, <3>1 DEF Stages
  <2>3. Free' >= Free
    BY <1>1, <1>2, <1>3, <1>4, <1>6, <1>8
  <2> QED
    BY <1>1, <1>5, <1>6, <1>7, <2>1, <2>2, <2>3, PromiseSteps
<1>9. CASE order'[k].status # "ACTIVE"
  <2>1. Holds' = [Holds EXCEPT ![k] = 0] /\ Stages' = [Stages EXCEPT ![k] = "closed"]
    BY <1>3, <1>5, <1>6, <1>9
  <2>2. Free' >= Free + Holds[k] - spent
    BY <1>1, <1>2, <1>3, <1>4, <1>6, <1>9
  <2> QED
    BY <1>1, <1>5, <1>6, <1>7, <2>1, <2>2, PromiseSteps
<1> QED
  BY <1>8, <1>9

LEMMA CancelKept ==
  ASSUME CoreInv, NEW k \in Keys, Cancel(k)
  PROVE  Kept
<1>1. /\ order[k].status = "ACTIVE" /\ cash' = cash
      /\ order' = [order EXCEPT ![k] = [order[k] EXCEPT !.status = "CANCELLED"]]
  BY DEF Cancel, Active
<1>2. order \in [Keys -> SoundOrders] /\ cash \in Nat
  BY DEF CoreInv, OrderSound, TypeOK
<1>3. order[k] \in Orders /\ SoundOrder(order[k]) /\ order[k] # NoOrder
  BY <1>1, <1>2, OrderRow DEF NoOrder
<1>4. /\ order'[k] = [order[k] EXCEPT !.status = "CANCELLED"]
      /\ \A j \in Keys \ {k} : order'[j] = order[j]
  BY <1>1, <1>2
<1>5. order'[k] \in Orders /\ order'[k].status = "CANCELLED" /\ SoundOrder(order'[k])
  BY <1>3, <1>4 DEF Orders, SoundOrder
<1>6. order' \in [Keys -> SoundOrders]
  <2>1. order'[k] \in SoundOrders
    BY <1>5 DEF SoundOrders
  <2>2. order' = [j \in Keys |-> order'[j]]
    BY <1>1, <1>2
  <2> QED
    BY <1>2, <1>4, <2>1, <2>2
<1>7. /\ HeldBy(order'[k]) = 0 /\ StageOf(order'[k]) = "closed"
      /\ StageOf(order[k]) = "open"
  BY <1>1, <1>3, <1>5 DEF HeldBy, StageOf, NoOrder
<1>8. /\ Holds' = [Holds EXCEPT ![k] = HeldBy(order'[k])]
      /\ Stages' = [Stages EXCEPT ![k] = StageOf(order'[k])] /\ Stages[k] = StageOf(order[k])
      /\ Free' = Free + (cash' - cash) + Holds[k] - HeldBy(order'[k])
      /\ Free \in Int /\ Holds[k] \in Nat
  BY <1>1, <1>2, <1>4, <1>6, OneOrderSeen
<1>9. Free' = Free + Holds[k]
  BY <1>1, <1>2, <1>7, <1>8
<1> QED
  BY <1>7, <1>8, <1>9, PromiseSteps

\* Whatever leaves the orders alone moves free money only.
LEMMA OtherKept ==
  ASSUME CoreInv', order' = order
  PROVE  Kept
<1>1. Holds' = Holds /\ Stages' = Stages
  BY DEF Holds, Stages
<1>2. Free' \in Nat
  <2>1. /\ order' \in [Keys -> SoundOrders] /\ cash' \in Nat
        /\ HeldIn(order') <= cash' /\ Free' = cash' - HeldIn(order')
    BY HoldsAreIn DEF CoreInv, OrderSound, TypeOK, HoldsCovered, Free
  <2>2. HeldIn(order') \in Nat
    BY <2>1, TotalsNat
  <2> QED
    BY <2>1, <2>2
<1> QED
  BY <1>1, <1>2, PromiseSteps

\* The ledger implements the promise of its reservations: what an order holds is
\* spent by its own fills only, the rest comes back exactly once, and no step
\* ever makes the free money negative.
THEOREM LedgerKeepsPromise == Spec => KeepsHoldPromise
<1>1. Init => Promise!Init
  <2> SUFFICES ASSUME Init PROVE Promise!Init
    OBVIOUS
  <2>1. CoreInv
    BY InitCore
  <2>2. order = [k \in Keys |-> NoOrder] /\ cash = InitialCash /\ InitialCash \in Nat
    BY LedgerAssumption DEF Init
  <2>3. NoActiveOrders /\ \A k \in Keys : StageOf(order[k]) = "fresh" /\ HeldBy(order[k]) = 0
    BY <2>2 DEF NoActiveOrders, Active, NoOrder, StageOf, HeldBy
  <2>4. HeldIn(order) = 0
    BY <2>1, <2>3, NothingHeld DEF CoreInv
  <2>5. Free = InitialCash
    BY <2>2, <2>4 DEF Free
  <2>6. Holds = [k \in Keys |-> 0] /\ Stages = [k \in Keys |-> "fresh"]
    BY <2>3 DEF Holds, Stages
  <2> QED
    BY <2>5, <2>6, PromiseState DEF Promise!Init
<1>2. CoreInv /\ CoreInv' /\ [Next]_vars => Kept
  <2> SUFFICES ASSUME CoreInv, CoreInv', [Next]_vars PROVE Kept
    OBVIOUS
  <2>1. CASE order' = order
    BY <2>1, OtherKept
  <2>2. ASSUME NEW k \in Keys, NEW side \in Sides, NEW a \in Assets, NEW q \in Quantities,
               NEW p \in Prices, NEW lag \in Lags, NEW budget \in Budgets,
               Reserve(k, side, a, q, p, lag, budget)
        PROVE  Kept
    BY <2>2, ReserveKept
  <2>3. ASSUME NEW k \in Keys, Cancel(k) PROVE Kept
    BY <2>3, CancelKept
  <2>4. ASSUME NEW e \in Events, ApplyFill(e) PROVE Kept
    BY <2>4, FillKeepsPromise
  <2> QED
    BY <2>1, <2>2, <2>3, <2>4, Frames DEF Next
<1> QED
  BY <1>1, <1>2, CoreAlways, PTL DEF Spec, KeepsHoldPromise, Promise!Spec, Kept
=============================================================================
