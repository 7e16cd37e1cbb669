----------------------------- MODULE CodecProofs -----------------------------
(***************************************************************************)
(* Proofs about GridCells and SmsBatch, for every grid and every batch:    *)
(* the label of a cell leads back to it; what a handset packs has the size *)
(* that it budgets with, and fits one SMS; and what it packed is what the  *)
(* server computes the MAC of.                                             *)
(***************************************************************************)
EXTENDS FoldProofs, SequenceTheorems

-----------------------------------------------------------------------------
(* Column letters.                                                         *)

Letter == 1..26

\* What column_index computes letter by letter.
IsValue(p, s) ==
    /\ p[0] = 0
    /\ \A i \in 1..Len(s) : p[i] = p[i - 1] * 26 + s[i]

LEMMA ValueIsANumber ==
    ASSUME NEW s \in Seq(Letter), NEW p, IsValue(p, s), NEW i \in Nat, i <= Len(s)
    PROVE  p[i] \in Nat
<1> DEFINE I == {j \in Nat : j <= Len(s) => p[j] \in Nat}
<1>1. 0 \in I
  BY DEF IsValue
<1>2. ASSUME NEW j \in Nat, j \in I PROVE j + 1 \in I
  <2>1. SUFFICES ASSUME j + 1 <= Len(s) PROVE p[j + 1] \in Nat
    OBVIOUS
  <2>2. j + 1 \in 1..Len(s) /\ (j + 1) - 1 = j /\ j <= Len(s)
    BY <2>1
  <2>3. p[j] \in Nat /\ s[j + 1] \in Letter
    BY <1>2, <2>2
  <2>4. p[j + 1] = p[(j + 1) - 1] * 26 + s[j + 1]
    BY <2>2 DEF IsValue
  <2>5. PICK a, b : a = p[j] /\ b = s[j + 1]
    OBVIOUS
  <2>6. a \in Nat /\ b \in Letter
    BY <2>3, <2>5
  <2>7. b \in Nat
    BY <2>6 DEF Letter
  <2>8. p[j + 1] = a * 26 + b
    BY <2>2, <2>4, <2>5
  <2>9. QED
    BY <2>6, <2>7, <2>8
<1> HIDE DEF I
<1>3. i \in I
  BY <1>1, <1>2, NatSet
<1>4. QED
  BY <1>3 DEF I

LEMMA ColumnIndexIs ==
    ASSUME NEW s \in Seq(Letter)
    PROVE  \E p : IsValue(p, s) /\ ColumnIndex(s) = p[Len(s)] - 1
<1> DEFINE n == Len(s)
           op == [q \in Nat \X Letter |-> q[1] * 26 + q[2]]
           Solves(p) == p = [i \in 0..n |-> IF i = 0 THEN 0 ELSE p[i - 1] * 26 + s[i]]
           v == CHOOSE p : Solves(p)
<1>1. n \in Nat /\ s \in [1..n -> Letter]
  OBVIOUS
<1>2. op \in [Nat \X Letter -> Nat] /\ \A a \in Nat, b \in Letter : op[<<a, b>>] = a * 26 + b
  <2>1. \A a \in Nat, b \in Letter : a * 26 + b \in Nat
    BY DEF Letter
  <2>2. QED
    BY <2>1
<1>3. ColumnIndex(s) = v[n] - 1
  BY DEF ColumnIndex
<1> HIDE DEF op, n
<1>4. \E p : Solves(p)
  <2>1. PICK g : IsLoop(g, n, Nat, 0, s, op)
    BY <1>1, <1>2, LoopExists
  <2>2. RunsTo(g, n, Nat, 0, s, op)
    BY <2>1 DEF IsLoop, RunsTo
  <2>3. PICK p : IsRun(p, g, n, Nat, 0, s, op)
    BY <1>1, <1>2, <2>2, LoopValue
  <2>4. p \in [0..n -> Nat] /\ p[0] = 0
    BY <2>3 DEF IsRun
  <2>5. ASSUME NEW i \in 0..n, i # 0 PROVE p[i] = p[i - 1] * 26 + s[i]
    <3>1. i \in 1..n /\ i - 1 \in 0..n
      BY <1>1, <2>5
    <3>2. p[i - 1] \in Nat /\ s[i] \in Letter
      BY <1>1, <2>4, <3>1
    <3>3. p[i] = op[<<p[i - 1], s[i]>>]
      BY <2>3, <3>1 DEF IsRun
    <3>4. QED
      BY <1>2, <3>2, <3>3
  <2>6. p = [i \in 0..n |-> IF i = 0 THEN 0 ELSE p[i - 1] * 26 + s[i]]
    BY <2>4, <2>5
  <2>7. Solves(p)
    BY <2>6
  <2>8. QED
    BY <2>7
<1>5. Solves(v)
  <2> HIDE DEF Solves
  <2>1. QED
    BY <1>4
<1> HIDE DEF v
<1>6. IsValue(v, s)
  <2>1. v[0] = 0 /\ \A i \in 1..n : v[i] = v[i - 1] * 26 + s[i]
    BY <1>1, <1>5
  <2>2. QED
    BY <2>1 DEF IsValue, n
<1>7. QED
  BY <1>3, <1>6 DEF n

\* One more letter.
LEMMA NextLetter ==
    ASSUME NEW s \in Seq(Letter), NEW d \in Letter
    PROVE  /\ ColumnIndex(s) + 1 \in Nat
           /\ ColumnIndex(Append(s, d)) + 1 = (ColumnIndex(s) + 1) * 26 + d
<1>1. PICK t : t = Append(s, d)
  OBVIOUS
<1>2. /\ t \in Seq(Letter) /\ Len(t) = Len(s) + 1 /\ t[Len(s) + 1] = d
      /\ \A i \in 1..Len(s) : t[i] = s[i]
  BY <1>1
<1>3. PICK p : IsValue(p, s) /\ ColumnIndex(s) = p[Len(s)] - 1
  BY ColumnIndexIs
<1>4. PICK q : IsValue(q, t) /\ ColumnIndex(t) = q[Len(t)] - 1
  BY <1>2, ColumnIndexIs
<1>5. PICK n \in Nat : n = Len(s)
  OBVIOUS
<1> DEFINE I == {j \in Nat : j <= n => p[j] = q[j]}
<1>6. 0 \in I
  BY <1>3, <1>4 DEF IsValue
<1>7. ASSUME NEW j \in Nat, j \in I PROVE j + 1 \in I
  <2>1. SUFFICES ASSUME j + 1 <= n PROVE p[j + 1] = q[j + 1]
    OBVIOUS
  <2>2. /\ j + 1 \in 1..Len(s) /\ j + 1 \in 1..Len(t)
        /\ (j + 1) - 1 = j /\ j <= n
    BY <1>2, <1>5, <2>1
  <2>3. p[j] = q[j] /\ t[j + 1] = s[j + 1]
    BY <1>2, <1>7, <2>2
  <2>4. /\ p[j + 1] = p[(j + 1) - 1] * 26 + s[j + 1]
        /\ q[j + 1] = q[(j + 1) - 1] * 26 + t[j + 1]
    BY <1>3, <1>4, <2>2 DEF IsValue
  <2>5. QED
    BY <2>2, <2>3, <2>4
<1> HIDE DEF I
<1>8. n \in I
  BY <1>6, <1>7, NatSet
<1>9. p[n] = q[n]
  BY <1>8 DEF I
<1>10. p[n] \in Nat /\ d \in Nat
  BY <1>3, <1>5, ValueIsANumber DEF Letter
<1>11. q[n + 1] = p[n] * 26 + d
  <2>1. n + 1 \in 1..Len(t) /\ (n + 1) - 1 = n
    BY <1>2, <1>5
  <2>2. q[n + 1] = q[(n + 1) - 1] * 26 + t[n + 1]
    BY <1>4, <2>1 DEF IsValue
  <2>3. QED
    BY <1>2, <1>5, <1>9, <2>1, <2>2
<1>12. ColumnIndex(s) = p[n] - 1 /\ ColumnIndex(t) = q[n + 1] - 1
  BY <1>2, <1>3, <1>4, <1>5
<1>13. QED
  BY <1>1, <1>10, <1>11, <1>12

LEMMA NoLetter == <<>> \in Seq(Letter) /\ ColumnIndex(<<>>) + 1 = 0
<1>1. PICK s : s = <<>>
  OBVIOUS
<1>2. s \in Seq(Letter) /\ Len(s) = 0
  BY <1>1
<1>3. PICK p : IsValue(p, s) /\ ColumnIndex(s) = p[0] - 1
  BY <1>2, ColumnIndexIs
<1>4. QED
  BY <1>1, <1>2, <1>3 DEF IsValue

\* The letters of a column lead back to it.
LEMMA LettersLeadBack ==
    ASSUME NEW col \in Nat
    PROVE  ColumnIndex(ColumnLetters(col)) = col
<1> DEFINE Solves(f) == f = [n \in Nat |-> IF n = 0 THEN <<>>
                                           ELSE Append(f[(n - 1) \div 26], ((n - 1) % 26) + 1)]
           f == CHOOSE g : Solves(g)
           rest == [n \in Nat |-> IF n = 0 THEN 0 ELSE (n - 1) \div 26]
           step == [q \in Nat \X Seq(Letter) |->
                       IF q[1] = 0 THEN <<>> ELSE Append(q[2], ((q[1] - 1) % 26) + 1)]
<1>1. ColumnLetters(col) = f[col + 1]
  BY DEF ColumnLetters
<1>2. ASSUME NEW n \in Nat, n # 0
      PROVE  /\ (n - 1) \div 26 \in Nat /\ (n - 1) \div 26 < n
             /\ ((n - 1) % 26) + 1 \in Letter
             /\ ((n - 1) \div 26) * 26 + (((n - 1) % 26) + 1) = n
  BY <1>2 DEF Letter
<1>3. Descends(rest) /\ \A n \in Nat : n # 0 => rest[n] = (n - 1) \div 26
  BY <1>2 DEF Descends
<1>4. /\ step \in [Nat \X Seq(Letter) -> Seq(Letter)]
      /\ \A n \in Nat, s \in Seq(Letter) :
            n # 0 => step[<<n, s>>] = Append(s, ((n - 1) % 26) + 1)
  <2>1. ASSUME NEW n \in Nat, NEW s \in Seq(Letter)
        PROVE  (IF n = 0 THEN <<>> ELSE Append(s, ((n - 1) % 26) + 1)) \in Seq(Letter)
    <3>1. CASE n = 0
      BY <3>1, NoLetter
    <3>2. CASE n # 0
      BY <1>2, <3>2
    <3>3. QED
      BY <3>1, <3>2
  <2>2. QED
    BY <2>1
<1> HIDE DEF rest, step
<1>5. Solves(f)
  <2>1. PICK g \in [Nat -> Seq(Letter)] : IsDescent(g, Nat, <<>>, rest, step)
    BY <1>3, <1>4, NoLetter, DescentExists
  <2>2. ASSUME NEW n \in Nat, n # 0 PROVE g[n] = Append(g[(n - 1) \div 26], ((n - 1) % 26) + 1)
    <3>1. g[n] = step[<<n, g[rest[n]]>>]
      BY <2>1, <2>2 DEF IsDescent
    <3>2. rest[n] = (n - 1) \div 26 /\ rest[n] \in Nat
      BY <1>3, <2>2 DEF Descends
    <3>3. g[rest[n]] \in Seq(Letter)
      BY <2>1, <3>2
    <3>4. QED
      BY <1>4, <2>2, <3>1, <3>2, <3>3
  <2>3. g[0] = <<>>
    BY <2>1 DEF IsDescent
  <2>4. Solves(g)
    BY <2>1, <2>2, <2>3
  <2> HIDE DEF Solves
  <2>5. QED
    BY <2>4
<1>6. /\ f[0] = <<>>
      /\ \A n \in Nat : n # 0 => f[n] = Append(f[(n - 1) \div 26], ((n - 1) % 26) + 1)
  BY <1>5
<1> HIDE DEF f, Solves
<1> DEFINE Good(n) == f[n] \in Seq(Letter) /\ ColumnIndex(f[n]) + 1 = n
           B == {n \in Nat : ~Good(n)}
<1>7. B = {}
  <2>1. SUFFICES ASSUME B # {} PROVE FALSE
    OBVIOUS
  <2>2. PICK m \in B : \A k \in B : m <= k
    <3>1. B \subseteq Nat
      OBVIOUS
    <3> HIDE DEF B
    <3>2. QED
      BY <2>1, <3>1, LeastNat
  <2>3. m \in Nat /\ ~Good(m)
    BY <2>2
  <2>4. m # 0
    BY <1>6, <2>3, NoLetter
  <2>5. PICK k, d : k = (m - 1) \div 26 /\ d = ((m - 1) % 26) + 1
    OBVIOUS
  <2>6. k \in Nat /\ k < m /\ d \in Letter /\ k * 26 + d = m
    BY <1>2, <2>3, <2>4, <2>5
  <2>7. Good(k)
    <3>1. ~(m <= k)
      BY <2>3, <2>6
    <3> HIDE DEF Good
    <3>2. QED
      BY <2>2, <2>6, <3>1
  <2>8. PICK s : s = f[k]
    OBVIOUS
  <2>9. f[m] = Append(s, d)
    BY <1>6, <2>3, <2>4, <2>5, <2>8
  <2>10. s \in Seq(Letter) /\ ColumnIndex(s) + 1 = k
    BY <2>7, <2>8
  <2>11. ColumnIndex(Append(s, d)) + 1 = k * 26 + d /\ Append(s, d) \in Seq(Letter)
    BY <2>6, <2>10, NextLetter
  <2>12. Good(m)
    BY <2>6, <2>9, <2>11
  <2>13. QED
    BY <2>3, <2>12
<1>8. Good(col + 1)
  <2>1. col + 1 \in Nat
    OBVIOUS
  <2> HIDE DEF Good
  <2>2. QED
    BY <1>7, <2>1
<1>9. PICK s : s = f[col + 1]
  OBVIOUS
<1>10. s \in Seq(Letter) /\ ColumnIndex(s) + 1 = col + 1
  BY <1>8, <1>9
<1>11. ColumnIndex(s) + 1 \in Nat /\ ColumnIndex(s) = col
  <2>1. PICK p : IsValue(p, s) /\ ColumnIndex(s) = p[Len(s)] - 1
    BY <1>10, ColumnIndexIs
  <2>2. p[Len(s)] \in Nat
    BY <1>10, <2>1, ValueIsANumber
  <2>3. QED
    BY <1>10, <2>1, <2>2
<1>12. QED
  BY <1>1, <1>9, <1>11

-----------------------------------------------------------------------------
(* Cells of a grid.                                                        *)

\* A grid whose measures are whole numbers.
IsMeasured(g) ==
    /\ g.rows \in Nat /\ g.cols \in Nat /\ g.cols > 0
    /\ g.cell_size_m \in Nat /\ g.cell_size_m > 0
    /\ g.bearing_deg \in QuarterTurns

LEMMA RowColIs ==
    ASSUME NEW g, IsMeasured(g), NEW c \in Nat
    PROVE  /\ RowCol(g, c)[1] \in Nat /\ RowCol(g, c)[2] \in Nat
           /\ CellIndex(g, RowCol(g, c)[1], RowCol(g, c)[2]) = c
<1>1. PICK k : k = g.cols
  OBVIOUS
<1>2. k \in Nat /\ k > 0
  BY <1>1 DEF IsMeasured
<1>3. c \div k \in Nat /\ c % k \in Nat /\ (c \div k) * k + (c % k) = c
  BY <1>2
<1>4. QED
  BY <1>1, <1>3 DEF RowCol, CellIndex

LEMMA LabelLeadsBack ==
    ASSUME NEW g, IsMeasured(g), NEW c \in Nat
    PROVE  CellIndexFromLabel(g, CellLabel(g, c)) = c
<1>1. PICK line, col : line = RowCol(g, c)[1] /\ col = RowCol(g, c)[2]
  OBVIOUS
<1>2. line \in Nat /\ col \in Nat /\ CellIndex(g, line, col) = c
  BY <1>1, RowColIs
<1>3. PICK label : label = CellLabel(g, c)
  OBVIOUS
<1>4. label[1] = ColumnLetters(col) /\ label[2] = line + 1
  BY <1>1, <1>3 DEF CellLabel
<1>5. ColumnIndex(label[1]) = col /\ label[2] - 1 = line
  BY <1>2, <1>4, LettersLeadBack
<1>6. QED
  BY <1>2, <1>3, <1>5 DEF CellIndexFromLabel

\* A rotation by a quarter turn moves no two points to one.
LEMMA RotationIsInjective ==
    ASSUME NEW g, g.bearing_deg \in QuarterTurns,
           NEW x \in Int, NEW y \in Int, NEW v \in Int, NEW w \in Int,
           Rotated(g, <<x, y>>) = Rotated(g, <<v, w>>)
    PROVE  x = v /\ y = w
<1>1. PICK a, b : a = Cos(g.bearing_deg) /\ b = Sin(g.bearing_deg)
  OBVIOUS
<1>2. \/ a = 1 /\ b = 0
      \/ a = 0 /\ b = 1
      \/ a = -1 /\ b = 0
      \/ a = 0 /\ b = -1
  BY <1>1 DEF Cos, Sin, QuarterTurns
<1>3. x * a + y * b = v * a + w * b /\ -x * b + y * a = -v * b + w * a
  BY <1>1 DEF Rotated
<1>4. QED
  BY <1>2, <1>3

LEMMA CornersAreApart ==
    ASSUME NEW g, IsMeasured(g), NEW c \in Nat, NEW d \in Nat, c # d, NEW i \in 1..4
    PROVE  CellCorners(g, c)[i] # CellCorners(g, d)[i]
<1> DEFINE r(k) == RowCol(g, k)[1]
           l(k) == RowCol(g, k)[2]
           s == g.cell_size_m
<1>1. /\ r(c) \in Nat /\ l(c) \in Nat /\ r(d) \in Nat /\ l(d) \in Nat
      /\ r(c) # r(d) \/ l(c) # l(d)
  BY RowColIs
<1>2. s \in Nat /\ s > 0
  BY DEF IsMeasured
<1> HIDE DEF r, l, s
<1>3. PICK e, n, v, w : /\ e = l(c) * s /\ n = r(c) * s
                        /\ v = l(d) * s /\ w = r(d) * s
  OBVIOUS
<1>4. e \in Nat /\ n \in Nat /\ v \in Nat /\ w \in Nat /\ (e # v \/ n # w)
  <2>1. e \in Nat /\ n \in Nat /\ v \in Nat /\ w \in Nat
    BY <1>1, <1>2, <1>3
  <2>2. \A a, b \in Nat : a * s = b * s => a = b
    BY <1>2
  <2>3. QED
    BY <1>1, <1>3, <2>1, <2>2
<1>5. /\ CellBounds(g, c) = <<e, n, e + s, n + s>>
      /\ CellBounds(g, d) = <<v, w, v + s, w + s>>
  BY <1>3 DEF CellBounds, r, l, s
<1>6. PICK a, b : a = (IF i \in {2, 3} THEN s ELSE 0) /\ b = (IF i \in {3, 4} THEN s ELSE 0)
  OBVIOUS
<1>7. a \in Nat /\ b \in Nat
  BY <1>2, <1>6
<1>8. /\ CellCorners(g, c)[i] = Rotated(g, <<e + a, n + b>>)
      /\ CellCorners(g, d)[i] = Rotated(g, <<v + a, w + b>>)
  <2>1. i = 1 \/ i = 2 \/ i = 3 \/ i = 4
    OBVIOUS
  <2>2. \A x \in Nat : x + 0 = x
    OBVIOUS
  <2>3. CASE i = 1
    BY <1>4, <1>5, <1>6, <2>2, <2>3 DEF CellCorners
  <2>4. CASE i = 2
    BY <1>4, <1>5, <1>6, <2>2, <2>4 DEF CellCorners
  <2>5. CASE i = 3
    BY <1>5, <1>6, <2>5 DEF CellCorners
  <2>6. CASE i = 4
    BY <1>4, <1>5, <1>6, <2>2, <2>6 DEF CellCorners
  <2>7. QED
    BY <2>1, <2>3, <2>4, <2>5, <2>6
<1>9. SUFFICES ASSUME Rotated(g, <<e + a, n + b>>) = Rotated(g, <<v + a, w + b>>)
               PROVE  FALSE
  BY <1>8
<1>10. PICK x1, y1, x2, y2 : x1 = e + a /\ y1 = n + b /\ x2 = v + a /\ y2 = w + b
  OBVIOUS
<1>11. /\ x1 \in Int /\ y1 \in Int /\ x2 \in Int /\ y2 \in Int
       /\ Rotated(g, <<x1, y1>>) = Rotated(g, <<x2, y2>>)
  BY <1>4, <1>7, <1>9, <1>10
<1>12. x1 = x2 /\ y1 = y2
  BY <1>11, RotationIsInjective DEF IsMeasured
<1>13. QED
  BY <1>4, <1>7, <1>10, <1>12

-----------------------------------------------------------------------------
(* The export.                                                             *)

\* The grid that is published is one that can be, and is the only one that is used.
LEMMA GridIs ==
    ASSUME ReadInv, NEW g \in GridFor(Log)
    PROVE  /\ IsMeasured(g) /\ CellCount(g) \in 1..MaxCells
           /\ \A h \in GridFor(Log) : h = g
<1> DEFINE grids == OfType(Scoped(Log), "GRID_GENERATED")
           First(e) == e \in grids /\ \A f \in grids : e.server_seq <= f.server_seq
<1>1. \A h \in GridFor(Log) : \E e : First(e) /\ h = e.payload
  BY DEF GridFor
<1>2. Numbered(grids) /\ grids \subseteq Log
  BY LogIsNumbered, SubsetIsNumbered DEF OfType, Scoped
<1>3. \A e, f : First(e) /\ First(f) => e = f
  <2>1. SUFFICES ASSUME NEW e, NEW f, First(e), First(f) PROVE e = f
    OBVIOUS
  <2>2. /\ e \in grids /\ f \in grids
        /\ e.server_seq <= f.server_seq /\ f.server_seq <= e.server_seq
    BY <2>1
  <2> HIDE DEF grids
  <2>3. e.server_seq \in Nat /\ f.server_seq \in Nat
    BY <1>2, <2>2 DEF Numbered
  <2>4. e.server_seq = f.server_seq
    BY <2>2, <2>3
  <2>5. QED
    BY <1>2, <2>2, <2>4 DEF Numbered
<1>4. PICK e : First(e) /\ g = e.payload
  BY <1>1
<1>5. e \in Log /\ e.type = "GRID_GENERATED" /\ PayloadMatchesType(e.type, e.payload)
  <2>1. e \in grids
    BY <1>4
  <2>2. e \in Log /\ e.type = "GRID_GENERATED"
    BY <2>1 DEF OfType, Scoped
  <2>3. QED
    BY <2>2, LogIsValid DEF IsValid
<1>6. /\ g.rows \in 1..MaxCells /\ g.cols \in 1..MaxCells
      /\ g.rows * g.cols \in 1..MaxCells
  BY <1>4, <1>5, ValidGrid
<1>7. {"cell_size_m", "bearing_deg"} \subseteq DOMAIN g /\ g.cell_size_m > 0
  <2>1. {"cell_size_m", "bearing_deg"} \subseteq DOMAIN e.payload
    BY <1>5 DEF PayloadMatchesType, Required
  <2>2. FieldIsValid("cell_size_m", e.payload["cell_size_m"])
    BY <1>5, <2>1 DEF PayloadMatchesType
  <2>3. e.payload["cell_size_m"] > 0
    BY <2>2 DEF FieldIsValid
  <2>4. QED
    BY <1>4, <2>1, <2>3
<1>8. g.cell_size_m \in Int /\ g.bearing_deg \in QuarterTurns
  <2>1. PICK k \in Committed : /\ content[k] \in RawEvents
                               /\ e.type = content[k].type /\ e.payload = content[k].payload
    BY <1>5, LogIs
  <2>2. QED
    BY <1>4, <1>5, <1>7, <2>1, GridAssumption
<1>9. IsMeasured(g)
  <2>1. PICK r, c, s : r = g.rows /\ c = g.cols /\ s = g.cell_size_m
    OBVIOUS
  <2>2. r \in 1..MaxCells /\ c \in 1..MaxCells /\ s \in Int /\ s > 0
    BY <1>6, <1>7, <1>8, <2>1
  <2>3. r \in Nat /\ c \in Nat /\ c > 0 /\ s \in Nat
    BY <2>2 DEF MaxCells
  <2>4. QED
    BY <1>8, <2>1, <2>2, <2>3 DEF IsMeasured
<1> HIDE DEF First
<1>10. QED
  BY <1>1, <1>3, <1>4, <1>6, <1>9 DEF CellCount

LEMMA ExportedCells ==
    ASSUME ReadInv, NEW g \in GridFor(Log), NEW f \in Export(Log)
    PROVE  /\ f.cell \in Nat /\ f.cell < g.rows * g.cols
           /\ f = [cell |-> f.cell, label |-> CellLabel(g, f.cell),
                   corners |-> CellCorners(g, f.cell)]
<1>1. ~ExportFails(Log)
  BY DEF Export
<1>2. PICK h \in GridFor(Log), c \in CellsOf(Log) :
         f = [cell |-> c, label |-> CellLabel(h, c), corners |-> CellCorners(h, c)]
  BY <1>1 DEF Export
<1>3. h = g
  BY GridIs
<1>4. f.cell = c
  BY <1>2
<1>5. c \in 0..(CellCount(g) - 1)
  BY <1>1, <1>2, <1>3 DEF ExportFails, IsValidCell, HasCell
<1>6. PICK n : n = CellCount(g)
  OBVIOUS
<1>7. n \in 1..MaxCells /\ MaxCells \in Nat
  BY <1>6, GridIs DEF MaxCells
<1>8. c \in Nat /\ c < n
  BY <1>5, <1>6, <1>7
<1>9. QED
  BY <1>2, <1>3, <1>4, <1>6, <1>8 DEF CellCount

\* An export names every cell by a label of its own, which leads back to it, and puts it in a
\* place of its own, for every grid and every log (export, grid.py).
THEOREM ExportIsExact == ReadModelsSpec => []ExportNamesItsCells
<1>1. ReadInv => ExportNamesItsCells
  <2> SUFFICES ASSUME ReadInv, NEW g \in GridFor(Log)
               PROVE  /\ ExportFails(Log) => \E c \in CellsOf(Log) : c >= g.rows * g.cols
                      /\ \A f, h \in Export(Log) :
                            /\ f.cell < g.rows * g.cols
                            /\ CellIndexFromLabel(g, f.label) = f.cell
                            /\ f # h => /\ f.label # h.label
                                        /\ \A i \in 1..4 : f.corners[i] # h.corners[i]
    BY DEF ExportNamesItsCells
  <2>1. IsMeasured(g) /\ CellCount(g) \in 1..MaxCells
    BY GridIs
  <2>2. ASSUME ExportFails(Log) PROVE \E c \in CellsOf(Log) : c >= g.rows * g.cols
    <3>1. PICK c \in CellsOf(Log) : ~IsValidCell(g, c)
      BY <2>2, GridIs DEF ExportFails
    <3>2. c \in 0..MaxCellIndex
      <4>1. PICK E : E = Scoped(Log)
        OBVIOUS
      <4>2. Numbered(E) /\ InScope(E) /\ IsValid(E)
        BY <4>1, ScopedLog, LogIsValid DEF Scoped, IsValid
      <4>3. PICK k \in DOMAIN FoldCellState(E) : c = k[2]
        BY <3>1, <4>1 DEF CellsOf
      <4>4. QED
        BY <4>2, <4>3, CellsAreRepresentable
    <3>3. ~(c \in 0..(CellCount(g) - 1))
      BY <3>1, <3>2 DEF IsValidCell, IsRepresentable, HasCell
    <3>4. PICK n : n = CellCount(g)
      OBVIOUS
    <3>5. n \in 1..MaxCells /\ ~(c \in 0..(n - 1))
      BY <2>1, <3>3, <3>4
    <3>6. c >= n
      BY <3>2, <3>5 DEF MaxCellIndex, MaxCells
    <3>7. QED
      BY <3>4, <3>6 DEF CellCount
  <2>3. ASSUME NEW f \in Export(Log), NEW h \in Export(Log)
        PROVE  /\ f.cell < g.rows * g.cols
               /\ CellIndexFromLabel(g, f.label) = f.cell
               /\ f # h => /\ f.label # h.label
                           /\ \A i \in 1..4 : f.corners[i] # h.corners[i]
    <3>1. PICK c, d : c = f.cell /\ d = h.cell
      OBVIOUS
    <3>2. /\ c \in Nat /\ c < g.rows * g.cols
          /\ d \in Nat
          /\ f = [cell |-> c, label |-> CellLabel(g, c), corners |-> CellCorners(g, c)]
          /\ h = [cell |-> d, label |-> CellLabel(g, d), corners |-> CellCorners(g, d)]
      BY <3>1, ExportedCells
    <3>3. /\ f.label = CellLabel(g, c) /\ f.corners = CellCorners(g, c)
          /\ h.label = CellLabel(g, d) /\ h.corners = CellCorners(g, d)
      BY <3>2
    <3>4. CellIndexFromLabel(g, f.label) = c /\ CellIndexFromLabel(g, h.label) = d
      BY <2>1, <3>2, <3>3, LabelLeadsBack
    <3>5. f # h => c # d
      BY <3>2
    <3>6. c # d => \A i \in 1..4 : f.corners[i] # h.corners[i]
      BY <2>1, <3>2, <3>3, CornersAreApart
    <3>7. QED
      BY <3>1, <3>2, <3>4, <3>5, <3>6
  <2>4. QED
    BY <2>2, <2>3
<1>2. QED
  BY <1>1, AlwaysRead, PTL

-----------------------------------------------------------------------------
(* The bits of a blob.                                                     *)

\* A sequence of fields: the widths are naturals.
IsFields(s) == \E F : s \in Seq(F) /\ \A f \in F : f[2] \in Nat

Widths(s) == [i \in 1..Len(s) |-> s[i][2]]

LEMMA BitsIs ==
    ASSUME NEW s, IsFields(s)
    PROVE  \E p : IsTally(p, Len(s), Widths(s)) /\ Bits(s) = p[Len(s)]
<1> DEFINE n == Len(s)
           w == Widths(s)
           Adds(g) == g = [S \in SUBSET (1..n) |->
                              IF S = {} THEN 0 ELSE g[S \ {Max(S)}] + s[Max(S)][2]]
           h == CHOOSE g : Adds(g)
<1>1. n \in Nat /\ DOMAIN s = 1..n /\ w \in [1..n -> Nat]
  BY DEF IsFields, Widths
<1>2. Bits(s) = h[1..n]
  BY <1>1 DEF Bits, FoldLeft, MapThenFoldSet
<1>3. \A g : Adds(g) <=> IsAdding(g, n, w)
  <2>1. SUFFICES ASSUME NEW g PROVE Adds(g) <=> IsAdding(g, n, w)
    OBVIOUS
  <2>2. \A S \in SUBSET (1..n) : S # {} => s[Max(S)][2] = w[Max(S)]
    <3>1. \A S \in SUBSET (1..n) : S # {} => Max(S) \in 1..n
      BY <1>1, MaxOfIndices
    <3>2. \A i \in 1..n : w[i] = s[i][2]
      BY DEF Widths
    <3>3. QED
      BY <3>1, <3>2
  <2> HIDE DEF w
  <2>3. QED
    BY <2>2 DEF IsAdding
<1> HIDE DEF Adds, w, n
<1>4. Adds(h)
  BY <1>1, <1>3, AddingIs
<1> HIDE DEF h
<1>5. PICK p : IsTally(p, n, w) /\ h[1..n] = p[n]
  BY <1>1, <1>3, <1>4, AddingIs
<1>6. QED
  BY <1>2, <1>5 DEF n, w

LEMMA BitsOfBoth ==
    ASSUME NEW s, IsFields(s), NEW t, IsFields(t)
    PROVE  IsFields(s \o t) /\ Bits(s \o t) = Bits(s) + Bits(t)
<1>1. PICK F : s \in Seq(F) /\ \A f \in F : f[2] \in Nat
  BY DEF IsFields
<1>2. PICK G : t \in Seq(G) /\ \A f \in G : f[2] \in Nat
  BY DEF IsFields
<1>3. PICK c : c = s \o t
  OBVIOUS
<1>4. s \in Seq(F \cup G) /\ t \in Seq(F \cup G)
  BY <1>1, <1>2
<1>5. /\ c \in Seq(F \cup G) /\ Len(c) = Len(s) + Len(t)
      /\ \A i \in 1..Len(s) : c[i] = s[i]
      /\ \A i \in 1..Len(t) : c[Len(s) + i] = t[i]
  BY <1>3, <1>4
<1>6. IsFields(c)
  BY <1>1, <1>2, <1>5 DEF IsFields
<1>7. PICK p : IsTally(p, Len(s), Widths(s)) /\ Bits(s) = p[Len(s)]
  BY BitsIs
<1>8. PICK q : IsTally(q, Len(t), Widths(t)) /\ Bits(t) = q[Len(t)]
  BY BitsIs
<1>9. PICK r : IsTally(r, Len(c), Widths(c)) /\ Bits(c) = r[Len(c)]
  BY <1>6, BitsIs
<1>10. Len(s) \in Nat /\ Len(t) \in Nat
  BY <1>1, <1>2
<1>11. IsBoth(Widths(c), Len(s), Widths(s), Len(t), Widths(t))
  BY <1>5, <1>10 DEF Widths, IsBoth
<1>12. r[Len(s) + Len(t)] = p[Len(s)] + q[Len(t)]
  <2>1. PICK m, n, u, v, w : /\ m = Len(s) /\ n = Len(t)
                             /\ u = Widths(s) /\ v = Widths(t) /\ w = Widths(c)
    OBVIOUS
  <2>2. /\ m \in Nat /\ n \in Nat /\ IsBoth(w, m, u, n, v)
        /\ IsTally(p, m, u) /\ IsTally(q, n, v) /\ IsTally(r, m + n, w)
    BY <1>5, <1>7, <1>8, <1>9, <1>10, <1>11, <2>1
  <2>3. r[m + n] = p[m] + q[n]
    BY <2>2, TallyOfBoth
  <2>4. QED
    BY <2>1, <2>3
<1>13. QED
  BY <1>3, <1>5, <1>6, <1>7, <1>8, <1>9, <1>12

-----------------------------------------------------------------------------
(* The sizes of events.                                                    *)

LEMMA NoFields == IsFields(<<>>) /\ Bits(<<>>) = 0
<1>1. <<>> \in Seq({}) /\ Len(<<>>) = 0
  OBVIOUS
<1>2. IsFields(<<>>)
  <2>1. PICK s, F : s = <<>> /\ F = {}
    OBVIOUS
  <2>2. s \in Seq(F) /\ \A f \in F : f[2] \in Nat
    BY <2>1
  <2>3. IsFields(s)
    BY <2>2 DEF IsFields
  <2>4. QED
    BY <2>1, <2>3
<1>3. PICK p : IsTally(p, 0, Widths(<<>>)) /\ Bits(<<>>) = p[0]
  BY <1>1, <1>2, BitsIs
<1>4. QED
  BY <1>2, <1>3 DEF IsTally

LEMMA OneField ==
    ASSUME NEW f, f[2] \in Nat
    PROVE  IsFields(<<f>>) /\ Bits(<<f>>) = f[2]
<1>1. PICK s : s = <<f>>
  OBVIOUS
<1>2. s \in Seq({f}) /\ Len(s) = 1 /\ s[1] = f
  BY <1>1
<1>3. IsFields(s)
  BY <1>2 DEF IsFields
<1>4. PICK p : IsTally(p, 1, Widths(s)) /\ Bits(s) = p[1]
  BY <1>2, <1>3, BitsIs
<1>5. Widths(s)[1] = f[2]
  BY <1>2 DEF Widths
<1>6. p[1] = p[0] + f[2] /\ p[0] = 0
  <2>1. p[1] = p[1 - 1] + Widths(s)[1]
    BY <1>4 DEF IsTally
  <2>2. QED
    BY <1>4, <1>5, <2>1 DEF IsTally
<1>7. QED
  BY <1>1, <1>3, <1>4, <1>6

LEMMA TwoFields ==
    ASSUME NEW f, NEW g, f[2] \in Nat, g[2] \in Nat
    PROVE  IsFields(<<f, g>>) /\ Bits(<<f, g>>) = f[2] + g[2]
<1>1. <<f, g>> = <<f>> \o <<g>>
  <2>1. PICK c, d, F : c = <<f>> \o <<g>> /\ d = <<f, g>> /\ F = {f, g}
    OBVIOUS
  <2>2. /\ c \in Seq(F) /\ Len(c) = 2 /\ c[1] = f /\ c[2] = g
        /\ d \in Seq(F) /\ Len(d) = 2 /\ d[1] = f /\ d[2] = g
    BY <2>1
  <2>3. c = d
    BY <2>2, SeqEqual
  <2>4. QED
    BY <2>1, <2>3
<1>2. PICK s, t : s = <<f>> /\ t = <<g>>
  OBVIOUS
<1>3. IsFields(s \o t) /\ Bits(s \o t) = f[2] + g[2]
  <2>1. IsFields(s) /\ IsFields(t) /\ Bits(s) = f[2] /\ Bits(t) = g[2]
    BY <1>2, OneField
  <2>2. QED
    BY <2>1, BitsOfBoth
<1>4. QED
  BY <1>1, <1>2, <1>3

LEMMA ThreeFields ==
    ASSUME NEW f, NEW g, NEW h, f[2] \in Nat, g[2] \in Nat, h[2] \in Nat
    PROVE  IsFields(<<f, g, h>>) /\ Bits(<<f, g, h>>) = f[2] + g[2] + h[2]
<1>1. <<f, g, h>> = <<f, g>> \o <<h>>
  OBVIOUS
<1>2. PICK s, t : s = <<f, g>> /\ t = <<h>>
  OBVIOUS
<1>3. IsFields(s \o t) /\ Bits(s \o t) = f[2] + g[2] + h[2]
  <2>1. IsFields(s) /\ IsFields(t) /\ Bits(s) = f[2] + g[2] /\ Bits(t) = h[2]
    BY <1>2, OneField, TwoFields
  <2>2. QED
    BY <2>1, BitsOfBoth
<1>4. QED
  BY <1>1, <1>2, <1>3

\* An optional field.
LEMMA WhenBits ==
    ASSUME NEW p, NEW name, NEW f, NEW n \in Nat, f[2] = n
    PROVE  /\ IsFields(When(p, name, f))
           /\ Bits(When(p, name, f)) = Bit(p, name, n)
           /\ Bit(p, name, n) \in Nat
<1>1. CASE name \in DOMAIN p
  BY <1>1, OneField DEF When, Bit
<1>2. CASE name \notin DOMAIN p
  BY <1>2, NoFields DEF When, Bit
<1>3. QED
  BY <1>1, <1>2

\* The sizes that the budget counts with are those of the codec.
LEMMA EventBitsAreExact ==
    ASSUME NEW e, e.type \in SmsEligible, NEW x, NEW y
    PROVE  /\ IsFields(PackEvent(e, x, y))
           /\ Bits(PackEvent(e, x, y)) = EventBits(e)
           /\ EventBits(e) \in Nat
<1> DEFINE p == e.payload
           r == e.responder
<1>1. PICK a : a = << <<EventTypeCode[e.type], 4>>, <<x, 6>>, <<y, 12>> >>
  OBVIOUS
<1>2. IsFields(a) /\ Bits(a) = 22
  <2>1. PICK f, g, h : f = <<EventTypeCode[e.type], 4>> /\ g = <<x, 6>> /\ h = <<y, 12>>
    OBVIOUS
  <2>2. f[2] = 4 /\ g[2] = 6 /\ h[2] = 12
    BY <2>1
  <2>3. IsFields(<<f, g, h>>) /\ Bits(<<f, g, h>>) = 4 + 6 + 12
    BY <2>2, ThreeFields
  <2>4. QED
    BY <1>1, <2>1, <2>3
<1>3. PICK b : b = Layout(e.type, p, r)
  OBVIOUS
<1>4. PackEvent(e, x, y) = a \o b
  BY <1>1, <1>3 DEF PackEvent
<1>5. SUFFICES IsFields(b) /\ EventBits(e) = 22 + Bits(b) /\ Bits(b) \in Nat
  BY <1>2, <1>4, BitsOfBoth
<1>6. CASE e.type = "CELL_STATUS_REPORTED"
  <2>1. PICK f, g, h : f = <<p.cell_index, 13>> /\ g = <<StatusCode[p.status], 3>> /\ h = <<r, 10>>
    OBVIOUS
  <2>2. f[2] = 13 /\ g[2] = 3 /\ h[2] = 10
    BY <2>1
  <2>3. b = <<f, g, h>>
    BY <1>3, <1>6, <2>1 DEF Layout
  <2>4. IsFields(b) /\ Bits(b) = 13 + 3 + 10
    BY <2>2, <2>3, ThreeFields
  <2>5. EventBits(e) = 22 + (13 + 3 + 10)
    BY <1>6 DEF EventBits
  <2>6. QED
    BY <2>4, <2>5
<1>7. CASE e.type = "RESOURCE_DELTA_REPORTED"
  <2>1. PICK f, g, h : f = <<p.item_id, 8>> /\ g = Signed(p.qty_delta, 8) /\ h = <<r, 10>>
    OBVIOUS
  <2>2. f[2] = 8 /\ g[2] = 8 /\ h[2] = 10
    BY <2>1 DEF Signed
  <2>3. b = <<f, g, h>>
    BY <1>3, <1>7, <2>1 DEF Layout
  <2>4. IsFields(b) /\ Bits(b) = 8 + 8 + 10
    BY <2>2, <2>3, ThreeFields
  <2>5. EventBits(e) = 22 + (8 + 8 + 10)
    BY <1>7 DEF EventBits
  <2>6. QED
    BY <2>4, <2>5
<1>8. CASE e.type = "TEAM_STATUS_REPORTED"
  <2>1. PICK f, g : f = <<TeamStatusCode[p.team_status], 3>> /\ g = <<r, 10>>
    OBVIOUS
  <2>2. f[2] = 3 /\ g[2] = 10
    BY <2>1
  <2>3. b = <<f, g>>
    BY <1>3, <1>8, <2>1 DEF Layout
  <2>4. IsFields(b) /\ Bits(b) = 3 + 10
    BY <2>2, <2>3, TwoFields
  <2>5. EventBits(e) = 22 + (3 + 10)
    BY <1>8 DEF EventBits
  <2>6. QED
    BY <2>4, <2>5
<1>9. CASE e.type = "SURVIVOR_REPORTED"
  <2>1. PICK f, g, h, i, j : /\ f = <<Bit(p, "triage", 4) + Bit(p, "rel_lat", 2) + Bit(p, "rel_lon", 1), 3>>
                             /\ g = <<p.cell_index, 13>> /\ h = <<p.person_count, 6>>
                             /\ i = <<SurvivorStatusCode[p.survivor_status], 3>> /\ j = <<r, 10>>
    OBVIOUS
  <2>2. f[2] = 3 /\ g[2] = 13 /\ h[2] = 6 /\ i[2] = 3 /\ j[2] = 10
    BY <2>1
  <2>3. PICK k, l, m : /\ k = When(p, "triage", <<TriageCode[p.triage], 3>>)
                       /\ l = When(p, "rel_lat", Signed(p.rel_lat, 16))
                       /\ m = When(p, "rel_lon", Signed(p.rel_lon, 16))
    OBVIOUS
  <2>4. b = <<f, g, h, i>> \o k \o l \o m \o <<j>>
    BY <1>3, <1>9, <2>1, <2>3 DEF Layout
  <2>5. PICK u : u = <<f, g, h, i>>
    OBVIOUS
  <2>6. IsFields(u) /\ Bits(u) = 25
    <3>1. PICK s, t : s = <<f, g, h>> /\ t = <<i>>
      OBVIOUS
    <3>2. IsFields(s) /\ Bits(s) = 22 /\ IsFields(t) /\ Bits(t) = 3
      BY <2>2, <3>1, ThreeFields, OneField
    <3>3. u = s \o t
      BY <2>5, <3>1
    <3>4. QED
      BY <3>2, <3>3, BitsOfBoth
  <2>7. /\ IsFields(k) /\ Bits(k) = Bit(p, "triage", 3) /\ Bit(p, "triage", 3) \in Nat
        /\ IsFields(l) /\ Bits(l) = Bit(p, "rel_lat", 16) /\ Bit(p, "rel_lat", 16) \in Nat
        /\ IsFields(m) /\ Bits(m) = Bit(p, "rel_lon", 16) /\ Bit(p, "rel_lon", 16) \in Nat
    <3>1. <<TriageCode[p.triage], 3>>[2] = 3
      OBVIOUS
    <3>2. Signed(p.rel_lat, 16)[2] = 16 /\ Signed(p.rel_lon, 16)[2] = 16
      BY DEF Signed
    <3>3. QED
      BY <2>3, <3>1, <3>2, WhenBits
  <2>8. IsFields(u \o k) /\ Bits(u \o k) = 25 + Bits(k)
    BY <2>6, <2>7, BitsOfBoth
  <2>9. IsFields((u \o k) \o l) /\ Bits((u \o k) \o l) = 25 + Bits(k) + Bits(l)
    BY <2>7, <2>8, BitsOfBoth
  <2>10. IsFields(((u \o k) \o l) \o m) /\ Bits(((u \o k) \o l) \o m) = 25 + Bits(k) + Bits(l) + Bits(m)
    BY <2>7, <2>9, BitsOfBoth
  <2>11. IsFields(b) /\ Bits(b) = 25 + Bits(k) + Bits(l) + Bits(m) + 10
    <3>1. PICK t : t = <<j>>
      OBVIOUS
    <3>2. IsFields(t) /\ Bits(t) = 10
      BY <2>2, <3>1, OneField
    <3>3. b = (((u \o k) \o l) \o m) \o t
      BY <2>4, <2>5, <3>1
    <3>4. QED
      BY <2>10, <3>2, <3>3, BitsOfBoth
  <2>12. EventBits(e) = 22 + (3 + 13 + 6 + 3 + Bit(p, "triage", 3) + Bit(p, "rel_lat", 16)
                                + Bit(p, "rel_lon", 16) + 10)
    BY <1>9 DEF EventBits
  <2>13. QED
    BY <2>7, <2>11, <2>12
<1>10. QED
  BY <1>6, <1>7, <1>8, <1>9 DEF SmsEligible

\* The header's fields have 89 bits.
LEMMA HeaderBitsAreExact ==
    ASSUME NEW first, NEW x, NEW y, NEW z
    PROVE  /\ IsFields(PackHeader(first, x, y, z))
           /\ Bits(PackHeader(first, x, y, z)) = HeaderBits
<1>1. PICK a, b, c, d, e, f, g, h, i :
         /\ a = <<1, 4>> /\ b = <<first.device, 12>> /\ c = <<first.team, 8>>
         /\ d = <<first.agency, 4>> /\ e = <<first.incident, 12>> /\ f = <<first.version, 4>>
         /\ g = <<x, 20>> /\ h = <<y, 20>> /\ i = <<z, 5>>
  OBVIOUS
<1>2. PackHeader(first, x, y, z) = <<a, b, c, d, e, f, g, h, i>>
  BY <1>1 DEF PackHeader
<1>3. /\ a[2] = 4 /\ b[2] = 12 /\ c[2] = 8 /\ d[2] = 4 /\ e[2] = 12 /\ f[2] = 4
      /\ g[2] = 20 /\ h[2] = 20 /\ i[2] = 5
  BY <1>1
<1>4. PICK r, s, t : r = <<a, b, c>> /\ s = <<d, e, f>> /\ t = <<g, h, i>>
  OBVIOUS
<1>5. /\ IsFields(r) /\ Bits(r) = 24
      /\ IsFields(s) /\ Bits(s) = 20
      /\ IsFields(t) /\ Bits(t) = 45
  <2>1. /\ a[2] \in Nat /\ b[2] \in Nat /\ c[2] \in Nat /\ d[2] \in Nat /\ e[2] \in Nat
        /\ f[2] \in Nat /\ g[2] \in Nat /\ h[2] \in Nat /\ i[2] \in Nat
    BY <1>3
  <2>2. IsFields(r) /\ Bits(r) = a[2] + b[2] + c[2]
    BY <1>4, <2>1, ThreeFields
  <2>3. IsFields(s) /\ Bits(s) = d[2] + e[2] + f[2]
    BY <1>4, <2>1, ThreeFields
  <2>4. IsFields(t) /\ Bits(t) = g[2] + h[2] + i[2]
    BY <1>4, <2>1, ThreeFields
  <2>5. QED
    BY <1>3, <2>2, <2>3, <2>4
<1>6. <<a, b, c, d, e, f, g, h, i>> = (r \o s) \o t
  BY <1>4
<1>7. IsFields(r \o s) /\ Bits(r \o s) = 44
  BY <1>5, BitsOfBoth
<1>8. IsFields((r \o s) \o t) /\ Bits((r \o s) \o t) = 89
  BY <1>5, <1>7, BitsOfBoth
<1>9. QED
  BY <1>2, <1>6, <1>8 DEF HeaderBits

-----------------------------------------------------------------------------
(* The budget.                                                             *)

\* A list of events that have a size.
IsBatch(v) == \E E : v \in Seq(E) /\ \A e \in E : e.type \in SmsEligible

Sizes(v) == [i \in 1..Len(v) |-> EventBits(v[i])]

LEMMA BudgetIs ==
    ASSUME NEW v, IsBatch(v)
    PROVE  \E p : IsTally(p, Len(v), Sizes(v)) /\ BudgetOf(v) = p[Len(v)]
<1> DEFINE n == Len(v)
           w == Sizes(v)
           Adds(g) == g = [S \in SUBSET (1..n) |->
                              IF S = {} THEN 0 ELSE g[S \ {Max(S)}] + EventBits(v[Max(S)])]
           h == CHOOSE g : Adds(g)
<1>1. n \in Nat /\ DOMAIN v = 1..n /\ w \in [1..n -> Nat]
  <2>1. n \in Nat /\ DOMAIN v = 1..n /\ \A i \in 1..n : v[i].type \in SmsEligible
    BY DEF IsBatch
  <2>2. \A i \in 1..n : EventBits(v[i]) \in Nat
    BY <2>1, EventBitsAreExact
  <2>3. QED
    BY <2>1, <2>2 DEF Sizes
<1>2. BudgetOf(v) = h[1..n]
  BY <1>1 DEF BudgetOf, FoldLeft, MapThenFoldSet
<1>3. \A g : Adds(g) <=> IsAdding(g, n, w)
  <2>1. SUFFICES ASSUME NEW g PROVE Adds(g) <=> IsAdding(g, n, w)
    OBVIOUS
  <2>2. \A S \in SUBSET (1..n) : S # {} => EventBits(v[Max(S)]) = w[Max(S)]
    <3>1. \A S \in SUBSET (1..n) : S # {} => Max(S) \in 1..n
      BY <1>1, MaxOfIndices
    <3>2. \A i \in 1..n : w[i] = EventBits(v[i])
      BY DEF Sizes
    <3>3. QED
      BY <3>1, <3>2
  <2> HIDE DEF w
  <2>3. QED
    BY <2>2 DEF IsAdding
<1> HIDE DEF Adds, w, n
<1>4. Adds(h)
  BY <1>1, <1>3, AddingIs
<1> HIDE DEF h
<1>5. PICK p : IsTally(p, n, w) /\ h[1..n] = p[n]
  BY <1>1, <1>3, <1>4, AddingIs
<1>6. QED
  BY <1>2, <1>5 DEF n, w

LEMMA NoBudget == BudgetOf(<<>>) = 0
<1>1. <<>> \in Seq({}) /\ Len(<<>>) = 0
  OBVIOUS
<1>2. IsBatch(<<>>)
  <2>1. PICK s, F : s = <<>> /\ F = {}
    OBVIOUS
  <2>2. s \in Seq(F) /\ \A e \in F : e.type \in SmsEligible
    BY <2>1
  <2>3. IsBatch(s)
    BY <2>2 DEF IsBatch
  <2>4. QED
    BY <2>1, <2>3
<1>3. PICK p : IsTally(p, 0, Sizes(<<>>)) /\ BudgetOf(<<>>) = p[0]
  BY <1>1, <1>2, BudgetIs
<1>4. QED
  BY <1>3 DEF IsTally

-----------------------------------------------------------------------------
(* The blob.                                                               *)

FieldsIn(s) == {s[i] : i \in 1..Len(s)}

LEMMA FieldsAreIn ==
    ASSUME NEW s, IsFields(s)
    PROVE  s \in Seq(FieldsIn(s)) /\ \A f \in FieldsIn(s) : f[2] \in Nat
<1>1. PICK F : s \in Seq(F) /\ \A f \in F : f[2] \in Nat
  BY DEF IsFields
<1>2. Len(s) \in Nat /\ DOMAIN s = 1..Len(s) /\ \A i \in 1..Len(s) : s[i] \in F
  BY <1>1
<1>3. s \in [1..Len(s) -> FieldsIn(s)]
  BY <1>1, <1>2 DEF FieldsIn
<1>4. QED
  BY <1>1, <1>2, <1>3 DEF FieldsIn

LEMMA PayloadBitsAreExact ==
    ASSUME NEW v, IsBatch(v), NEW first, NEW baseT, NEW start
    PROVE  /\ IsFields(EncodePayload(first, baseT, start, v))
           /\ Bits(EncodePayload(first, baseT, start, v)) = HeaderBits + BudgetOf(v)
<1> DEFINE n == Len(v)
           H == PackHeader(first, first.seq, baseT, n)
           P(e) == PackEvent(e, e.seq - first.seq, e.t - start - baseT)
<1>1. PICK E : v \in Seq(E) /\ \A e \in E : e.type \in SmsEligible
  BY DEF IsBatch
<1> DEFINE F == FieldsIn(H) \cup UNION {FieldsIn(P(e)) : e \in E}
           V == Seq(F)
           op == [q \in V \X E |-> q[1] \o P(q[2])]
           Solves(g) == g = [S \in SUBSET (1..n) |->
                                IF S = {} THEN H ELSE g[S \ {Max(S)}] \o P(v[Max(S)])]
           h == CHOOSE g : Solves(g)
<1>2. n \in Nat /\ DOMAIN v = 1..n /\ v \in [1..n -> E]
  BY <1>1
<1>3. \A e \in E : IsFields(P(e)) /\ Bits(P(e)) = EventBits(e) /\ EventBits(e) \in Nat
  BY <1>1, EventBitsAreExact
<1>4. IsFields(H) /\ Bits(H) = HeaderBits
  BY HeaderBitsAreExact
<1>5. EncodePayload(first, baseT, start, v) = h[1..n]
  BY <1>2 DEF EncodePayload, FoldLeft, MapThenFoldSet
<1> HIDE DEF H, P
<1>6. /\ H \in V
      /\ \A e \in E : P(e) \in V
      /\ \A f \in F : f[2] \in Nat
  <2>1. H \in Seq(FieldsIn(H)) /\ \A f \in FieldsIn(H) : f[2] \in Nat
    BY <1>4, FieldsAreIn
  <2>2. \A e \in E : P(e) \in Seq(FieldsIn(P(e))) /\ \A f \in FieldsIn(P(e)) : f[2] \in Nat
    BY <1>3, FieldsAreIn
  <2>3. FieldsIn(H) \subseteq F /\ \A e \in E : FieldsIn(P(e)) \subseteq F
    OBVIOUS
  <2>4. \A A \in SUBSET F : Seq(A) \subseteq Seq(F)
    OBVIOUS
  <2>5. \A f \in F : f[2] \in Nat
    BY <2>1, <2>2
  <2> HIDE DEF F
  <2>6. QED
    BY <2>1, <2>2, <2>3, <2>4, <2>5
<1> HIDE DEF F
<1>7. op \in [V \X E -> V] /\ \A s \in V, e \in E : op[<<s, e>>] = s \o P(e)
  <2>1. \A s, t \in V : s \o t \in V
    OBVIOUS
  <2> HIDE DEF V
  <2>2. \A s \in V, e \in E : s \o P(e) \in V
    BY <1>6, <2>1
  <2>3. QED
    BY <2>2
<1>8. \A s \in V : IsFields(s)
  BY <1>6 DEF IsFields
<1> HIDE DEF V, op
<1>9. Solves(h)
  <2>1. PICK g : IsLoop(g, n, V, H, v, op)
    <3> HIDE DEF n
    <3>1. QED
      BY <1>2, <1>6, <1>7, LoopExists
  <2>2. ASSUME NEW S \in SUBSET (1..n), S # {} PROVE g[S] = g[S \ {Max(S)}] \o P(v[Max(S)])
    <3>1. Max(S) \in 1..n
      BY <1>2, <2>2, MaxOfIndices
    <3>2. v[Max(S)] \in E /\ g[S \ {Max(S)}] \in V
      BY <1>2, <2>1, <3>1 DEF IsLoop
    <3>3. QED
      BY <1>7, <2>1, <2>2, <3>2 DEF IsLoop
  <2>3. Solves(g)
    BY <2>1, <2>2 DEF IsLoop
  <2> HIDE DEF Solves
  <2>4. QED
    BY <2>3
<1>10. /\ h[{}] = H
       /\ \A S \in SUBSET (1..n) : S # {} => h[S] = h[S \ {Max(S)}] \o P(v[Max(S)])
  BY <1>9
<1> HIDE DEF h, Solves
<1>11. RunsTo(h, n, V, H, v, op)
  <2>1. ASSUME NEW S \in SUBSET (1..n), S # {}, h[S \ {Max(S)}] \in V
        PROVE  h[S] = op[<<h[S \ {Max(S)}], v[Max(S)]>>]
    <3>1. v[Max(S)] \in E
      BY <1>2, <2>1, MaxOfIndices
    <3>2. QED
      BY <1>7, <1>10, <2>1, <3>1
  <2>2. QED
    BY <1>10, <2>1 DEF RunsTo
<1>12. PICK p : IsRun(p, h, n, V, H, v, op)
  <2> HIDE DEF n
  <2>1. QED
    BY <1>2, <1>6, <1>7, <1>11, LoopValue
<1>13. PICK q : IsTally(q, n, Sizes(v)) /\ BudgetOf(v) = q[n]
  BY BudgetIs
<1> DEFINE I == {i \in Nat : i <= n => Bits(p[i]) = HeaderBits + q[i]}
<1>14. 0 \in I
  BY <1>4, <1>12, <1>13 DEF IsRun, IsTally, HeaderBits
<1>15. ASSUME NEW i \in Nat, i \in I PROVE i + 1 \in I
  <2>1. SUFFICES ASSUME i + 1 <= n PROVE Bits(p[i + 1]) = HeaderBits + q[i + 1]
    OBVIOUS
  <2>2. i + 1 \in 1..n /\ (i + 1) - 1 = i /\ i \in 0..n /\ i <= n
    BY <1>2, <2>1
  <2>3. PICK e : e = v[i + 1]
    OBVIOUS
  <2>4. e \in E
    BY <1>2, <2>2, <2>3
  <2>5. p[i] \in V /\ p[i + 1] = p[i] \o P(e)
    BY <1>7, <1>12, <2>2, <2>3, <2>4 DEF IsRun
  <2>6. q[i + 1] = q[i] + EventBits(e) /\ q[i] \in Nat
    <3>1. Sizes(v)[i + 1] = EventBits(e)
      BY <2>2, <2>3 DEF Sizes
    <3>2. q[i + 1] = q[(i + 1) - 1] + Sizes(v)[i + 1] /\ q[i] \in Nat
      BY <1>13, <2>2 DEF IsTally
    <3>3. QED
      BY <2>2, <3>1, <3>2
  <2>7. PICK a, b : a = p[i] /\ b = P(e)
    OBVIOUS
  <2>8. IsFields(a) /\ IsFields(b) /\ Bits(b) = EventBits(e) /\ EventBits(e) \in Nat
    BY <1>3, <1>8, <2>4, <2>5, <2>7
  <2>9. Bits(a \o b) = Bits(a) + Bits(b)
    BY <2>8, BitsOfBoth
  <2>10. Bits(a) = HeaderBits + q[i]
    BY <1>15, <2>2, <2>7
  <2> HIDE DEF n
  <2>11. QED
    BY <2>5, <2>6, <2>7, <2>8, <2>9, <2>10 DEF HeaderBits
<1> HIDE DEF I
<1>16. n \in I
  BY <1>2, <1>14, <1>15, NatSet
<1>17. Bits(h[1..n]) = HeaderBits + BudgetOf(v) /\ h[1..n] \in V
  BY <1>2, <1>12, <1>13, <1>16 DEF I, IsRun
<1>18. QED
  BY <1>5, <1>8, <1>17

-----------------------------------------------------------------------------
(* What is included.                                                       *)

\* What the loop of pack may have taken of the candidates C.
Packable(C, first, start) ==
    {v \in Seq(C) : /\ \A i \in 1..Len(v) : HasWireForm(v[i], first, start)
                    /\ Len(v) <= MaxEventCount
                    /\ FixedOverheadBits + BudgetOf(v) <= MaxBatchBits}

LEMMA NoneIsPackable ==
    ASSUME NEW C, NEW first, NEW start
    PROVE  <<>> \in Packable(C, first, start)
<1>1. PICK v : v = <<>>
  OBVIOUS
<1>2. v \in Seq(C) /\ Len(v) = 0 /\ BudgetOf(v) = 0
  BY <1>1, NoBudget
<1>3. v \in Packable(C, first, start)
  BY <1>2 DEF Packable, FixedOverheadBits, HeaderBits, MaxBatchBits, MaxEventCount
<1>4. QED
  BY <1>1, <1>3

LEMMA OneMoreIsPackable ==
    ASSUME NEW C, NEW first, NEW start, NEW v \in Packable(C, first, start), NEW e \in C,
           HasWireForm(e, first, start), MayTake(v, e)
    PROVE  Append(v, e) \in Packable(C, first, start)
<1>1. /\ v \in Seq(C)
      /\ \A i \in 1..Len(v) : HasWireForm(v[i], first, start)
  BY DEF Packable
<1>2. PICK w : w = Append(v, e)
  OBVIOUS
<1>3. /\ w \in Seq(C) /\ Len(w) = Len(v) + 1 /\ w[Len(v) + 1] = e
      /\ \A i \in 1..Len(v) : w[i] = v[i]
      /\ Len(v) \in Nat
  BY <1>1, <1>2
<1>4. ASSUME NEW i \in 1..Len(w) PROVE HasWireForm(w[i], first, start)
  <2>1. i \in 1..Len(v) \/ i = Len(v) + 1
    BY <1>3
  <2>2. QED
    BY <1>1, <1>3, <2>1
<1>5. Len(w) <= MaxEventCount /\ FixedOverheadBits + BudgetOf(w) <= MaxBatchBits
  BY <1>2, <1>3 DEF MayTake, MaxEventCount
<1>6. QED
  BY <1>2, <1>3, <1>4, <1>5 DEF Packable

\* The events that a handset has to send have seqs, and no two have the same.
HaveSeqs(C) ==
    /\ IsFiniteSet(C)
    /\ \A e \in C : e.seq \in Nat
    /\ \A e, f \in C : e.seq = f.seq => e = f

LEMMA BySeqIs ==
    ASSUME NEW C, HaveSeqs(C)
    PROVE  \E n \in Nat : BySeq(C) \in [1..n -> C]
<1> DEFINE f == [e \in C |-> e.seq]
           n == Cardinality(C)
<1>1. IsNumbering(f, n)
  BY DEF HaveSeqs, IsNumbering
<1>2. DOMAIN f = C
  OBVIOUS
<1>3. BySeq(C) = Sorted(f)
  BY DEF BySeq
<1> HIDE DEF f, n
<1>4. n \in Nat /\ BySeq(C) \in [1..n -> C]
  BY <1>1, <1>2, <1>3, SortedIs DEF IsListing
<1>5. QED
  BY <1>4

LEMMA IncludedIsPackable ==
    ASSUME NEW C, HaveSeqs(C), NEW start
    PROVE  Included(C, start) \in Packable(C, BySeq(C)[1], start)
<1>1. PICK s : s = BySeq(C)
  OBVIOUS
<1>2. PICK n \in Nat : s \in [1..n -> C]
  BY <1>1, BySeqIs
<1> DEFINE V == Packable(C, s[1], start)
           Step(v, e) == IF HasWireForm(e, s[1], start) /\ MayTake(v, e) THEN Append(v, e) ELSE v
           op == [q \in V \X C |-> Step(q[1], q[2])]
           Solves(g) == g = [S \in SUBSET (1..n) |->
                                IF S = {} THEN <<>> ELSE Step(g[S \ {Max(S)}], s[Max(S)])]
           h == CHOOSE g : Solves(g)
<1>3. Included(C, start) = h[1..n]
  <2>1. DOMAIN s = 1..n
    BY <1>2
  <2>2. QED
    BY <1>1, <2>1 DEF Included, FoldLeft, MapThenFoldSet
<1>4. \A v \in V, e \in C : Step(v, e) \in V
  BY OneMoreIsPackable
<1>5. <<>> \in V
  BY NoneIsPackable
<1> HIDE DEF V, Step
<1>6. op \in [V \X C -> V] /\ \A v \in V, e \in C : op[<<v, e>>] = Step(v, e)
  BY <1>4
<1> HIDE DEF op
<1>7. Solves(h)
  <2>1. PICK g : IsLoop(g, n, V, <<>>, s, op)
    BY <1>2, <1>5, <1>6, LoopExists
  <2>2. ASSUME NEW S \in SUBSET (1..n), S # {} PROVE g[S] = Step(g[S \ {Max(S)}], s[Max(S)])
    <3>1. Max(S) \in 1..n
      BY <2>2, MaxOfIndices
    <3>2. s[Max(S)] \in C /\ g[S \ {Max(S)}] \in V
      BY <1>2, <2>1, <3>1 DEF IsLoop
    <3>3. QED
      BY <1>6, <2>1, <2>2, <3>2 DEF IsLoop
  <2>3. Solves(g)
    BY <2>1, <2>2 DEF IsLoop
  <2> HIDE DEF Solves
  <2>4. QED
    BY <2>3
<1>8. /\ h[{}] = <<>>
      /\ \A S \in SUBSET (1..n) : S # {} => h[S] = Step(h[S \ {Max(S)}], s[Max(S)])
  BY <1>7
<1> HIDE DEF h, Solves
<1>9. RunsTo(h, n, V, <<>>, s, op)
  <2>1. ASSUME NEW S \in SUBSET (1..n), S # {}, h[S \ {Max(S)}] \in V
        PROVE  h[S] = op[<<h[S \ {Max(S)}], s[Max(S)]>>]
    <3>1. s[Max(S)] \in C
      BY <1>2, <2>1, MaxOfIndices
    <3>2. QED
      BY <1>6, <1>8, <2>1, <3>1
  <2>2. QED
    BY <1>8, <2>1 DEF RunsTo
<1>10. PICK p : IsRun(p, h, n, V, <<>>, s, op)
  BY <1>2, <1>5, <1>6, <1>9, LoopValue
<1>11. h[1..n] \in V
  BY <1>10 DEF IsRun
<1>12. QED
  BY <1>1, <1>3, <1>11 DEF V

-----------------------------------------------------------------------------
(* The relayed batches.                                                    *)

\* What is known of a batch that is relayed as it was packed.
LEMMA RelayedIs ==
    ASSUME ReadInv, NEW u \in Relayed, NEW first, first = BySeq(u.candidates)[1]
    PROVE  /\ u.events \in Packable(u.candidates, first, u.start)
           /\ u.start \in Int
           /\ \A e \in u.candidates : e.t \in Int
           /\ u.batch = Pack(u.candidates, u.start, u.events)
<1>1. u \in Uploads /\ u.candidates # {}
  BY DEF Relayed, ReadInv, WritersInv
<1>2. /\ HaveSeqs(u.candidates)
      /\ u.start \in Int /\ \A e \in u.candidates : e.t \in Int
      /\ u.events = Included(u.candidates, u.start)
      /\ u.batch = Pack(u.candidates, u.start, u.events)
  BY <1>1, RelayAssumption DEF HaveSeqs
<1>3. PICK C, s : C = u.candidates /\ s = u.start
  OBVIOUS
<1>4. Included(C, s) \in Packable(C, BySeq(C)[1], s)
  BY <1>2, <1>3, IncludedIsPackable
<1>5. QED
  BY <1>2, <1>3, <1>4

LEMMA PackableIsBatch ==
    ASSUME NEW C, NEW first, NEW start, NEW v \in Packable(C, first, start)
    PROVE  IsBatch(v)
<1> DEFINE E == {v[i] : i \in 1..Len(v)}
<1>1. v \in Seq(C) /\ \A i \in 1..Len(v) : v[i].type \in SmsEligible
  BY DEF Packable, HasWireForm
<1>2. \A e \in E : e.type \in SmsEligible
  BY <1>1
<1>3. v \in Seq(E)
  <2>1. Len(v) \in Nat /\ v \in [1..Len(v) -> E]
    BY <1>1
  <2>2. QED
    BY <1>1, <2>1
<1> HIDE DEF E
<1>4. QED
  BY <1>2, <1>3 DEF IsBatch

\* What a handset packs fits one SMS, for every set of candidates: the sizes that the
\* budget counts are to the bit those that are written (SmsBatchEncoder.pack, event_bits).
THEOREM BatchesFit == ReadModelsSpec => []PackedBatchesFit
<1>1. ReadInv => PackedBatchesFit
  <2> SUFFICES ASSUME ReadInv, NEW u \in Relayed
               PROVE  /\ FixedOverheadBits - HeaderBits + Bits(u.batch.fields) <= MaxBatchBits
                      /\ Bits(u.batch.fields) = HeaderBits + BudgetOf(u.batch.events)
                      /\ Len(u.batch.events) <= MaxEventCount
    BY DEF PackedBatchesFit
  <2>1. PICK first, v, s, C : /\ first = BySeq(u.candidates)[1] /\ v = u.events
                              /\ s = u.start /\ C = u.candidates
    OBVIOUS
  <2>2. v \in Packable(C, first, s) /\ u.batch = Pack(C, s, v)
    BY <2>1, RelayedIs
  <2>3. PICK fields : fields = EncodePayload(first, BaseT(first, s), s, v)
    OBVIOUS
  <2>4. u.batch.fields = fields /\ u.batch.events = v
    BY <2>1, <2>2, <2>3 DEF Pack
  <2>5. IsBatch(v)
    BY <2>2, PackableIsBatch
  <2>6. PICK b : b = BudgetOf(v)
    OBVIOUS
  <2>7. Bits(fields) = HeaderBits + b
    BY <2>3, <2>5, <2>6, PayloadBitsAreExact
  <2>8. b \in Nat
    <3>1. PICK p : IsTally(p, Len(v), Sizes(v)) /\ b = p[Len(v)]
      BY <2>5, <2>6, BudgetIs
    <3>2. Len(v) \in Nat
      BY <2>2 DEF Packable
    <3>3. QED
      BY <3>1, <3>2 DEF IsTally
  <2>9. FixedOverheadBits + b <= MaxBatchBits /\ Len(v) <= MaxEventCount
    BY <2>2, <2>6 DEF Packable
  <2>10. FixedOverheadBits - HeaderBits + Bits(fields) <= MaxBatchBits
    BY <2>7, <2>8, <2>9 DEF FixedOverheadBits, HeaderBits, MaxBatchBits
  <2>11. QED
    BY <2>4, <2>6, <2>7, <2>9, <2>10
<1>2. QED
  BY <1>1, AlwaysRead, PTL

LEMMA GreaterOfTwo ==
    ASSUME NEW x \in Int
    PROVE  Max({0, x}) = IF x >= 0 THEN x ELSE 0
<1>1. PICK m : m = IF x >= 0 THEN x ELSE 0
  OBVIOUS
<1>2. m \in {0, x} /\ \A y \in {0, x} : m >= y
  BY <1>1
<1>3. PICK n : n = Max({0, x})
  OBVIOUS
<1>4. n \in {0, x} /\ \A y \in {0, x} : n >= y
  BY <1>2, <1>3 DEF Max
<1>5. n = m
  BY <1>2, <1>4
<1>6. QED
  BY <1>1, <1>3, <1>5

\* An honest relay is verified, for every set of candidates: where the first one was packed,
\* both sides take the same base, pack the same fields and compute the same MAC
\* (SmsBatchEncoder.pack, verify_gateway_batch).
THEOREM HonestRelaysPass == ReadModelsSpec => []HonestRelayIsVerified
<1>1. ReadInv => HonestRelayIsVerified
  <2> SUFFICES ASSUME ReadInv, NEW u \in Relayed,
                      NEW first, first = BySeq(u.candidates)[1],
                      Declarations(Log, first.incident) # {},
                      u.start = StartedAt(Log, first.incident),
                      CanPack(u.batch), u.batch.events[1] = first
               PROVE  IsVerified(u)
    BY DEF HonestRelayIsVerified
  <2>1. PICK v, s, C : v = u.events /\ s = u.start /\ C = u.candidates
    OBVIOUS
  <2>2. /\ v \in Packable(C, first, s) /\ s \in Int
        /\ \A e \in C : e.t \in Int
        /\ u.batch = Pack(C, s, v)
    BY <2>1, RelayedIs
  <2>3. PICK fields : fields = EncodePayload(first, BaseT(first, s), s, v)
    OBVIOUS
  <2>4. /\ u.batch.fields = fields /\ u.batch.events = v
        /\ u.batch.origin = first.device /\ u.batch.mac = Mac(first.device, fields)
    BY <2>1, <2>2, <2>3 DEF Pack
  <2>5. /\ v \in Seq(C) /\ v # <<>> /\ v[1] = first
        /\ \A i \in 1..Len(v) : HasWireForm(v[i], first, s)
    BY <2>2, <2>4 DEF CanPack, Packable
  <2>6. 1 \in 1..Len(v) /\ DOMAIN v = 1..Len(v)
    BY <2>5
  <2>7. first \in C /\ HasWireForm(first, first, s)
    BY <2>5, <2>6
  <2>8. BaseT(first, s) = first.t - s /\ first.t - s >= 0
    <3>1. PICK x : x = first.t - s
      OBVIOUS
    <3>2. x \in Int
      BY <2>2, <2>7, <3>1
    <3>3. BaseT(first, s) = IF x >= 0 THEN x ELSE 0
      BY <3>1, <3>2, GreaterOfTwo DEF BaseT
    <3>4. x - BaseT(first, s) \in 0..MaxTDelta
      BY <2>7, <3>1 DEF HasWireForm
    <3>5. x >= 0
      BY <3>2, <3>3, <3>4 DEF MaxTDelta
    <3>6. QED
      BY <3>1, <3>3, <3>5
  <2>9. fields = EncodePayload(first, first.t - s, s, v)
    BY <2>3, <2>8
  <2>10. \A i \in DOMAIN v : v[i].type \in SmsEligible
    BY <2>5, <2>6 DEF HasWireForm
  <2>11. \A i \in DOMAIN fields : Fits(fields[i])
    BY <2>4 DEF CanPack
  <2>12. VerifyGatewayBatch(u.batch, s)
    BY <2>4, <2>5, <2>8, <2>9, <2>10, <2>11 DEF VerifyGatewayBatch
  <2>13. u.events[1].incident = first.incident
    BY <2>1, <2>5
  <2>14. QED
    BY <2>1, <2>12, <2>13 DEF IsVerified
<1>2. QED
  BY <1>1, AlwaysRead, PTL
=============================================================================
