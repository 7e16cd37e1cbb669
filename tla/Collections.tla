------------------------------ MODULE Collections ------------------------------
(***************************************************************************)
(* The containers of the code, as far as its loops depend on them: sorted  *)
(* lists, and dicts that are updated.                                      *)
(***************************************************************************)
EXTENDS Integers, FiniteSets

\* sorted (Python), sortedBy (Kotlin): the elements of DOMAIN number from the least number
\* to the greatest.  What is sorted are events, of which no two have one number.
Sorted(number) ==
    LET below(x) == {y \in DOMAIN number : number[y] < number[x]} IN
    [i \in 1..Cardinality(DOMAIN number) |->
        CHOOSE x \in DOMAIN number : Cardinality(below(x)) = i - 1]

\* The dict f after an update with g.
Update(f, g) ==
    [x \in DOMAIN f \cup DOMAIN g |-> IF x \in DOMAIN g THEN g[x] ELSE f[x]]

\* The dict f after f[x] = v.
Put(f, x, v) == Update(f, [y \in {x} |-> v])
=============================================================================
