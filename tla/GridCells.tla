------------------------------ MODULE GridCells -------------------------------
(***************************************************************************)
(* The grid of an incident (domain/grid.py): cell indices, corners and     *)
(* labels.                                                                 *)
(*                                                                         *)
(* A grid is [rows, cols, cell_size_m, bearing_deg].  Bearings are quarter *)
(* turns, at which the rotation needs no rounding; column letters are the  *)
(* sequence of their places in the alphabet, 1 for A.                      *)
(***************************************************************************)
EXTENDS Integers, Sequences, EventRules

CellCount(g) == g.rows * g.cols

\* Grid.__post_init__
IsGrid(g) == g.rows >= 1 /\ g.cols >= 1 /\ g.cell_size_m > 0 /\ CellCount(g) <= MaxCells

\* is_representable_cell_index, contains: validate_cell_index raises GridError otherwise.
IsRepresentable(c) == c \in 0..MaxCellIndex
HasCell(g, c) == c \in 0..(CellCount(g) - 1)
IsValidCell(g, c) == IsRepresentable(c) /\ HasCell(g, c)

RowCol(g, c) == <<c \div g.cols, c % g.cols>>

CellIndex(g, row, col) == row * g.cols + col

-----------------------------------------------------------------------------
\* cell_bounds_local: <<min_east, min_north, max_east, max_north>>.
CellBounds(g, c) ==
    LET e == RowCol(g, c)[2] * g.cell_size_m
        n == RowCol(g, c)[1] * g.cell_size_m
    IN <<e, n, e + g.cell_size_m, n + g.cell_size_m>>

QuarterTurns == {0, 90, 180, 270}

Cos(deg) == CASE deg = 0 -> 1 [] deg = 90 -> 0 [] deg = 180 -> -1 [] deg = 270 -> 0
Sin(deg) == CASE deg = 0 -> 0 [] deg = 90 -> 1 [] deg = 180 -> 0 [] deg = 270 -> -1

\* Clockwise, as a compass bearing.
Rotated(g, p) ==
    LET deg == g.bearing_deg IN
    <<p[1] * Cos(deg) + p[2] * Sin(deg), -p[1] * Sin(deg) + p[2] * Cos(deg)>>

\* cell_corners_local: south-west, south-east, north-east, north-west.
CellCorners(g, c) ==
    LET b == CellBounds(g, c) IN
    << Rotated(g, <<b[1], b[2]>>), Rotated(g, <<b[3], b[2]>>),
       Rotated(g, <<b[3], b[4]>>), Rotated(g, <<b[1], b[4]>>) >>

-----------------------------------------------------------------------------
\* Mutant: base 26 with a zero digit, so that BA follows Z.
ColumnLetters_WithZero(col) ==
    LET letters[n \in Nat] ==
            IF n = 0 THEN <<>> ELSE Append(letters[n \div 26], (n % 26) + 1)
    IN IF col = 0 THEN <<1>> ELSE letters[col]

\* column_letters: bijective base 26, so that AA follows Z.
ColumnLetters(col) ==
    LET letters[n \in Nat] ==
            IF n = 0 THEN <<>> ELSE Append(letters[(n - 1) \div 26], ((n - 1) % 26) + 1)
    IN letters[col + 1]

\* column_index
ColumnIndex(letters) ==
    LET value[i \in 0..Len(letters)] == IF i = 0 THEN 0 ELSE value[i - 1] * 26 + letters[i]
    IN value[Len(letters)] - 1

\* cell_label: <COLUMN LETTERS>-<ROW NUMBER>, both from 1.
CellLabel(g, c) == <<ColumnLetters(RowCol(g, c)[2]), RowCol(g, c)[1] + 1>>

\* cell_index_from_label, for a label of this grid.
CellIndexFromLabel(g, label) == CellIndex(g, label[2] - 1, ColumnIndex(label[1]))
=============================================================================
