----------------------------- MODULE FoldProofs -----------------------------
(***************************************************************************)
(* Proofs about Projection, for every log: what the folds compute one      *)
(* event after the other is what the rules say of the set of events, and   *)
(* the counts of a grid add up.  Each fold is a loop over the events in    *)
(* the order of their numbers (OrderedLoop): a lemma says what the loop    *)
(* knows after the events of F, another that the step for the next event   *)
(* keeps it true.                                                          *)
(***************************************************************************)
EXTENDS ReadModelsProofs

-----------------------------------------------------------------------------
(* The events of a log in their order.                                     *)

\* The events of a log: every one has a number, and no two have the same.
Numbered(E) ==
    /\ IsFiniteSet(E)
    /\ \A e \in E : e.server_seq \in Nat
    /\ \A e, f \in E : e.server_seq = f.server_seq => e = f

LEMMA SubsetIsNumbered ==
    ASSUME NEW E, Numbered(E), NEW F, F \subseteq E
    PROVE  Numbered(F)
BY SubsetIsSmaller DEF Numbered

\* x comes after every event of F.
Follows(x, F) == \A e \in F : e.server_seq < x.server_seq

LEMMA OrderedIs ==
    ASSUME NEW E, Numbered(E), NEW n, n = Cardinality(E), NEW s, s = Ordered(E)
    PROVE  /\ n \in Nat
           /\ s \in [1..n -> E]
           /\ Upto(s, 0) = {}
           /\ Upto(s, n) = E
           /\ \A i \in 1..n : /\ s[i] \in E
                              /\ Upto(s, i - 1) \subseteq E
                              /\ Upto(s, i) = Upto(s, i - 1) \cup {s[i]}
                              /\ Follows(s[i], Upto(s, i - 1))
<1> DEFINE f == [e \in E |-> e.server_seq]
<1>1. IsNumbering(f, n)
  BY DEF Numbered, IsNumbering
<1>2. s = Sorted(f)
  BY DEF Ordered
<1>3. DOMAIN f = E /\ \A e \in E : f[e] = e.server_seq
  OBVIOUS
<1> HIDE DEF f
<1>4. /\ n \in Nat
      /\ s \in [1..n -> E]
      /\ \A x \in E : \E i \in 1..n : s[i] = x
      /\ \A i, j \in 1..n : i < j => f[s[i]] < f[s[j]]
  <2>1. IsListing(s, f, n)
    BY <1>1, <1>2, SortedIs
  <2>2. QED
    BY <1>3, <2>1 DEF IsListing
<1>5. Upto(s, n) = E
  BY <1>4 DEF Upto
<1>6. ASSUME NEW i \in 1..n
      PROVE  /\ s[i] \in E /\ Upto(s, i - 1) \subseteq E
             /\ Upto(s, i) = Upto(s, i - 1) \cup {s[i]}
             /\ Follows(s[i], Upto(s, i - 1))
  <2>1. \A j \in 1..(i - 1) : j \in 1..n /\ j < i
    BY <1>4
  <2>2. \A j \in 1..(i - 1) : s[j] \in E /\ s[j].server_seq < s[i].server_seq
    BY <1>3, <1>4, <2>1
  <2>3. QED
    BY <1>4, <2>2, UptoGrows DEF Upto, Follows
<1>7. QED
  BY <1>4, <1>5, <1>6, UptoNone

\* T relates the events that a loop has seen to its value: at the start, and after the step
\* for one more event that follows them.
IsKept(T, E, V, base, op) ==
    /\ <<{}, base>> \in T
    /\ \A F \in SUBSET E, x \in E, v \in V :
          Follows(x, F) /\ <<F, v>> \in T => <<F \cup {x}, op[<<v, x>>]>> \in T

\* A loop over the events in their order: what holds at its start and is kept by the step
\* for each event, given the events before it, holds at its end for all of them.
LEMMA OrderedLoop ==
    ASSUME NEW E, Numbered(E), NEW n, n = Cardinality(E), NEW s, s = Ordered(E),
           NEW V, NEW base \in V, NEW op \in [V \X E -> V],
           NEW h, RunsTo(h, n, V, base, s, op),
           NEW T, IsKept(T, E, V, base, op)
    PROVE  h[1..n] \in V /\ <<E, h[1..n]>> \in T
<1>1. n \in Nat /\ s \in [1..n -> E]
  BY OrderedIs
<1>2. PICK p : IsRun(p, h, n, V, base, s, op)
  BY <1>1, LoopValue
<1> DEFINE I == {i \in Nat : i <= n => <<Upto(s, i), p[i]>> \in T}
<1>3. 0 \in I
  BY <1>2, OrderedIs DEF IsRun, IsKept
<1>4. ASSUME NEW i \in Nat, i \in I PROVE i + 1 \in I
  <2>1. SUFFICES ASSUME i + 1 <= n PROVE <<Upto(s, i + 1), p[i + 1]>> \in T
    OBVIOUS
  <2>2. i + 1 \in 1..n /\ (i + 1) - 1 = i /\ i \in 0..n /\ i <= n
    BY <1>1, <2>1
  <2>3. PICK x : x = s[i + 1]
    OBVIOUS
  <2>4. /\ x \in E /\ Upto(s, i) \subseteq E
        /\ Upto(s, i + 1) = Upto(s, i) \cup {x}
        /\ Follows(x, Upto(s, i))
    BY <2>2, <2>3, OrderedIs
  <2>5. p[i] \in V /\ p[i + 1] = op[<<p[i], x>>]
    BY <1>2, <2>2, <2>3 DEF IsRun
  <2>6. <<Upto(s, i), p[i]>> \in T
    BY <1>4, <2>2
  <2>7. QED
    BY <2>4, <2>5, <2>6 DEF IsKept
<1> HIDE DEF I
<1>5. n \in I
  BY <1>1, <1>3, <1>4, NatSet
<1>6. <<E, p[n]>> \in T /\ p[n] \in V
  <2>1. <<Upto(s, n), p[n]>> \in T
    BY <1>1, <1>5 DEF I
  <2>2. Upto(s, n) = E
    BY OrderedIs
  <2>3. p[n] \in V
    BY <1>1, <1>2 DEF IsRun
  <2>4. QED
    BY <2>1, <2>2, <2>3
<1>7. QED
  BY <1>2, <1>6 DEF IsRun

-----------------------------------------------------------------------------
(* Dicts.                                                                  *)

\* The dicts with keys in K and values in R.
Dicts(K, R) == UNION {[L -> R] : L \in SUBSET K}

LEMMA UpdateInDicts ==
    ASSUME NEW K, NEW R, NEW f \in Dicts(K, R), NEW g \in Dicts(K, R)
    PROVE  Update(f, g) \in Dicts(K, R)
<1>1. PICK L \in SUBSET K : f \in [L -> R]
  BY DEF Dicts
<1>2. PICK M \in SUBSET K : g \in [M -> R]
  BY DEF Dicts
<1>3. Update(f, g) \in [L \cup M -> R]
  BY <1>1, <1>2 DEF Update
<1>4. QED
  BY <1>3 DEF Dicts

LEMMA PutInDicts ==
    ASSUME NEW K, NEW R, NEW f \in Dicts(K, R), NEW x \in K, NEW v \in R
    PROVE  Put(f, x, v) \in Dicts(K, R)
<1>1. [y \in {x} |-> v] \in [{x} -> R]
  OBVIOUS
<1>2. [y \in {x} |-> v] \in Dicts(K, R)
  BY <1>1 DEF Dicts
<1>3. QED
  BY <1>2, UpdateInDicts DEF Put

LEMMA NoneInDicts ==
    ASSUME NEW K, NEW R
    PROVE  <<>> \in Dicts(K, R) /\ DOMAIN <<>> = {}
<1>1. <<>> \in [{} -> R] /\ DOMAIN <<>> = {}
  OBVIOUS
<1>2. QED
  BY <1>1 DEF Dicts

-----------------------------------------------------------------------------
(* The latest reports.                                                     *)

ReportOf(e) == [status |-> e.payload.status, team |-> e.team]

\* e is the latest of the events of F with its key.
LatestReport(F, e) ==
    \A f \in F : CellKey(f) = CellKey(e) => f.server_seq <= e.server_seq

HoldsReports(F, f) ==
    /\ DOMAIN f = {CellKey(e) : e \in F}
    /\ \A e \in F : LatestReport(F, e) => f[CellKey(e)] = ReportOf(e)

LEMMA ReportStep ==
    ASSUME NEW F, \A e \in F : e.server_seq \in Nat,
           NEW x, x.server_seq \in Nat, Follows(x, F), NEW f, HoldsReports(F, f)
    PROVE  HoldsReports(F \cup {x}, Report(f, x))
<1>0. PICK g : g = Report(f, x)
  OBVIOUS
<1>1. /\ DOMAIN g = DOMAIN f \cup {CellKey(x)}
      /\ g[CellKey(x)] = ReportOf(x)
      /\ \A k \in DOMAIN f : k # CellKey(x) => g[k] = f[k]
  <2>1. g = Put(f, CellKey(x), ReportOf(x))
    BY <1>0 DEF Report, ReportOf
  <2>2. PICK k, v : k = CellKey(x) /\ v = ReportOf(x)
    OBVIOUS
  <2>3. g = Put(f, k, v)
    BY <2>1, <2>2
  <2>4. DOMAIN g = DOMAIN f \cup {k} /\ g[k] = v /\ \A l \in DOMAIN f : l # k => g[l] = f[l]
    BY <2>3 DEF Put, Update
  <2>5. QED
    BY <2>2, <2>4
<1>2. DOMAIN g = {CellKey(e) : e \in F \cup {x}}
  BY <1>1 DEF HoldsReports
<1>3. ASSUME NEW e \in F \cup {x}, LatestReport(F \cup {x}, e) PROVE g[CellKey(e)] = ReportOf(e)
  <2>1. CASE e = x
    BY <1>1, <2>1
  <2>2. CASE e # x
    <3>1. e \in F /\ LatestReport(F, e)
      BY <1>3, <2>2 DEF LatestReport
    <3>2. CellKey(x) # CellKey(e)
      <4>1. ~(x.server_seq <= e.server_seq)
        BY <3>1 DEF Follows
      <4>2. QED
        BY <1>3, <4>1 DEF LatestReport
    <3>3. CellKey(e) \in DOMAIN f
      BY <3>1 DEF HoldsReports
    <3>4. QED
      BY <1>1, <3>1, <3>2, <3>3 DEF HoldsReports
  <2>3. QED
    BY <2>1, <2>2
<1>4. QED
  BY <1>0, <1>2, <1>3 DEF HoldsReports

LEMMA ReportsAreFolded ==
    ASSUME NEW E, Numbered(E)
    PROVE  HoldsReports(OfType(E, "CELL_STATUS_REPORTED"), LatestReports(E))
<1> DEFINE C == OfType(E, "CELL_STATUS_REPORTED")
           n == Cardinality(C)
           s == Ordered(C)
           V == Dicts({CellKey(e) : e \in C}, {ReportOf(e) : e \in C})
           op == [q \in V \X C |-> Report(q[1], q[2])]
           Solves(h) == h = [S \in SUBSET (1..n) |->
                                IF S = {} THEN <<>> ELSE Report(h[S \ {Max(S)}], s[Max(S)])]
           h == CHOOSE g : Solves(g)
<1>1. Numbered(C)
  BY SubsetIsNumbered DEF OfType
<1>2. n = Cardinality(C) /\ s = Ordered(C)
  OBVIOUS
<1>3. n \in Nat /\ s \in [1..n -> C]
  BY <1>1, OrderedIs
<1>4. \A v \in V, e \in C : Report(v, e) \in V
  BY PutInDicts DEF Report, ReportOf
<1>5. <<>> \in V
  BY NoneInDicts
<1>6. op \in [V \X C -> V] /\ \A v \in V, e \in C : op[<<v, e>>] = Report(v, e)
  BY <1>4
<1>7. LatestReports(E) = h[1..n]
  <2>1. DOMAIN s = 1..n
    BY <1>3
  <2>2. QED
    BY <2>1 DEF LatestReports, FoldLeft, MapThenFoldSet
<1> HIDE DEF V, op
<1>8. Solves(h)
  <2>1. PICK g : IsLoop(g, n, V, <<>>, s, op)
    <3> HIDE DEF n, s, C
    <3>1. QED
      BY <1>3, <1>5, <1>6, LoopExists
  <2>2. ASSUME NEW S \in SUBSET (1..n), S # {} PROVE g[S] = Report(g[S \ {Max(S)}], s[Max(S)])
    <3>1. Max(S) \in 1..n
      BY <1>3, <2>2, MaxOfIndices
    <3>2. s[Max(S)] \in C /\ g[S \ {Max(S)}] \in V
      BY <1>3, <2>1, <3>1 DEF IsLoop
    <3>3. QED
      BY <1>6, <2>1, <2>2, <3>2 DEF IsLoop
  <2>3. Solves(g)
    BY <2>1, <2>2 DEF IsLoop
  <2> HIDE DEF Solves
  <2>4. QED
    BY <2>3
<1>9. /\ h[{}] = <<>>
      /\ \A S \in SUBSET (1..n) : S # {} => h[S] = Report(h[S \ {Max(S)}], s[Max(S)])
  BY <1>8
<1> HIDE DEF h, Solves, n, s, C
<1>10. ASSUME NEW S \in SUBSET (1..n), S # {}, h[S \ {Max(S)}] \in V
       PROVE  h[S] = op[<<h[S \ {Max(S)}], s[Max(S)]>>]
  <2>1. s[Max(S)] \in C
    BY <1>3, <1>10, MaxOfIndices
  <2>2. QED
    BY <1>6, <1>9, <1>10, <2>1
<1>11. RunsTo(h, n, V, <<>>, s, op)
  BY <1>9, <1>10 DEF RunsTo
<1> DEFINE T == {q \in (SUBSET C) \X V : HoldsReports(q[1], q[2])}
<1>12. <<{}, <<>>>> \in T
  BY <1>5, NoneInDicts DEF HoldsReports
<1>13. ASSUME NEW F \in SUBSET C, NEW x \in C, NEW v \in V, Follows(x, F), <<F, v>> \in T
       PROVE  <<F \cup {x}, op[<<v, x>>]>> \in T
  <2>1. op[<<v, x>>] = Report(v, x) /\ Report(v, x) \in V
    BY <1>4, <1>6
  <2>2. HoldsReports(F \cup {x}, Report(v, x))
    BY <1>1, <1>13, ReportStep DEF Numbered
  <2>3. QED
    BY <2>1, <2>2
<1>14. <<C, h[1..n]>> \in T
  <2>1. IsKept(T, C, V, <<>>, op)
    BY <1>12, <1>13 DEF IsKept
  <2> HIDE DEF T
  <2>2. QED
    BY <1>1, <1>2, <1>5, <1>6, <1>11, <2>1, OrderedLoop
<1>15. QED
  BY <1>7, <1>14 DEF C

-----------------------------------------------------------------------------
(* The latest of some events.                                              *)

\* The latest of some events is there, and is the only one.
LEMMA LatestIs ==
    ASSUME NEW S, Numbered(S), NEW e \in S, \A f \in S : f.server_seq <= e.server_seq
    PROVE  Latest(S) = e
<1>1. Latest(S) \in S /\ \A f \in S : f.server_seq <= Latest(S).server_seq
  BY DEF Latest
<1>2. PICK l : l = Latest(S)
  OBVIOUS
<1>3. l \in S /\ l.server_seq \in Nat /\ e.server_seq \in Nat /\ l.server_seq = e.server_seq
  BY <1>1, <1>2 DEF Numbered
<1>4. QED
  BY <1>2, <1>3 DEF Numbered

LEMMA LatestExists ==
    ASSUME NEW S, Numbered(S), S # {}
    PROVE  Latest(S) \in S /\ \A f \in S : f.server_seq <= Latest(S).server_seq
<1> DEFINE f == [e \in S |-> e.server_seq]
           R == {e.server_seq : e \in S}
<1>1. R \subseteq Nat /\ R # {}
  BY DEF Numbered
<1>2. IsFiniteSet(R)
  <2>1. f \in Surjection(S, R)
    BY DEF Surjection
  <2> HIDE DEF f, R
  <2>2. QED
    BY <2>1, FS_Surjection DEF Numbered
<1>3. \E m \in R : \A r \in R : r <= m
  <2> HIDE DEF R
  <2>1. QED
    BY <1>1, <1>2, GreatestFinite
<1>4. \E e \in S : \A g \in S : g.server_seq <= e.server_seq
  BY <1>3
<1>5. QED
  BY <1>4 DEF Latest

-----------------------------------------------------------------------------
(* Assignments.                                                            *)

Issues(F) == OfType(F, "ASSIGNMENT_ISSUED")

\* e is the latest issue of its assignment.
LatestIssue(F, e) ==
    \A f \in Issues(F) :
        f.payload.assignment_id = e.payload.assignment_id => f.server_seq <= e.server_seq

\* x, which comes after the events of F, is about the cell k.
Touches(F, x, k) ==
    /\ x.incident = k[1]
    /\ \/ x.type = "ASSIGNMENT_ISSUED" /\ k[2] \in x.payload.cell_ids
       \/ /\ x.type = "ASSIGNMENT_REVOKED"
          /\ \E e \in Issues(F) :
                /\ e.payload.assignment_id = x.payload.assignment_id
                /\ LatestIssue(F, e)
                /\ k[2] \in e.payload.cell_ids

LEMMA AboutGrows ==
    ASSUME NEW F, NEW x, Numbered(F \cup {x}), Follows(x, F), NEW k
    PROVE  /\ Touches(F, x, k) => About(F \cup {x}, k) = About(F, k) \cup {x}
           /\ ~Touches(F, x, k) => About(F \cup {x}, k) = About(F, k)
<1> DEFINE G == F \cup {x}
<1>1. \A e \in F : e.server_seq \in Nat /\ x.server_seq \in Nat /\ e.server_seq < x.server_seq
  BY DEF Numbered, Follows
<1>2. \A e \in F : IssuesBefore(G, e) = IssuesBefore(F, e)
  <2>1. SUFFICES ASSUME NEW e \in F PROVE IssuesBefore(G, e) = IssuesBefore(F, e)
    OBVIOUS
  <2>2. ~(x.server_seq <= e.server_seq)
    BY <1>1
  <2>3. QED
    BY <2>2 DEF IssuesBefore, OfType
<1>3. x \notin F
  BY <1>1
<1> DEFINE Named(e) == /\ e.type \in {"ASSIGNMENT_ISSUED", "ASSIGNMENT_REVOKED"}
                       /\ e.incident = k[1]
                       /\ IssuesBefore(G, e) # {}
                       /\ k[2] \in Latest(IssuesBefore(G, e)).payload.cell_ids
<1>4. About(G, k) = {e \in G : Named(e)}
  BY DEF About, OfType
<1>5. About(F, k) = {e \in F : Named(e)}
  BY <1>2 DEF About, OfType
<1>6. Named(x) <=> Touches(F, x, k)
  <2>1. CASE x.type = "ASSIGNMENT_ISSUED"
    <3>1. x \in IssuesBefore(G, x) /\ IssuesBefore(G, x) \subseteq G
      BY <1>1, <2>1 DEF IssuesBefore, OfType, Numbered
    <3>2. \A f \in IssuesBefore(G, x) : f.server_seq <= x.server_seq
      BY DEF IssuesBefore
    <3>3. Numbered(IssuesBefore(G, x))
      BY <3>1, SubsetIsNumbered
    <3>4. Latest(IssuesBefore(G, x)) = x
      BY <3>1, <3>2, <3>3, LatestIs
    <3>5. QED
      BY <2>1, <3>1, <3>4 DEF Touches
  <2>2. CASE x.type = "ASSIGNMENT_REVOKED"
    <3> DEFINE B == IssuesBefore(G, x)
    <3>1. B = {f \in Issues(F) : f.payload.assignment_id = x.payload.assignment_id}
      BY <1>1, <2>2 DEF IssuesBefore, OfType, Issues
    <3>2. B \subseteq F /\ Numbered(B)
      <4>1. B \subseteq F
        BY <3>1 DEF Issues, OfType
      <4> HIDE DEF B
      <4>2. B \subseteq F \cup {x}
        BY <4>1
      <4>3. QED
        BY <4>1, <4>2, SubsetIsNumbered
    <3> HIDE DEF B
    <3>3. B # {} => Latest(B) \in B /\ \A f \in B : f.server_seq <= Latest(B).server_seq
      BY <3>2, LatestExists
    <3>4. ASSUME B # {}, k[2] \in Latest(B).payload.cell_ids
          PROVE  \E e \in Issues(F) : /\ e.payload.assignment_id = x.payload.assignment_id
                                      /\ LatestIssue(F, e)
                                      /\ k[2] \in e.payload.cell_ids
      <4>1. PICK l : l = Latest(B)
        OBVIOUS
      <4>2. l \in B /\ \A f \in B : f.server_seq <= l.server_seq
        BY <3>3, <3>4, <4>1
      <4>3. l \in Issues(F) /\ l.payload.assignment_id = x.payload.assignment_id
        BY <3>1, <4>2
      <4>4. LatestIssue(F, l)
        BY <3>1, <4>2, <4>3 DEF LatestIssue
      <4>5. QED
        BY <3>4, <4>1, <4>3, <4>4
    <3>5. ASSUME NEW e \in Issues(F), e.payload.assignment_id = x.payload.assignment_id,
                 LatestIssue(F, e)
          PROVE  B # {} /\ Latest(B) = e
      <4>1. e \in B /\ \A f \in B : f.server_seq <= e.server_seq
        BY <3>1, <3>5 DEF LatestIssue
      <4>2. QED
        BY <3>2, <4>1, LatestIs
    <3>6. Touches(F, x, k) <=> /\ x.incident = k[1]
                               /\ \E e \in Issues(F) :
                                     /\ e.payload.assignment_id = x.payload.assignment_id
                                     /\ LatestIssue(F, e)
                                     /\ k[2] \in e.payload.cell_ids
      BY <2>2 DEF Touches
    <3>7. Named(x) <=> x.incident = k[1] /\ B # {} /\ k[2] \in Latest(B).payload.cell_ids
      BY <2>2 DEF B
    <3> HIDE DEF Named
    <3>8. QED
      BY <3>4, <3>5, <3>6, <3>7
  <2>3. CASE x.type \notin {"ASSIGNMENT_ISSUED", "ASSIGNMENT_REVOKED"}
    BY <2>3 DEF Touches
  <2>4. QED
    BY <2>1, <2>2, <2>3
<1> HIDE DEF Named
<1>7. QED
  BY <1>3, <1>4, <1>5, <1>6

NewHolder(x) == IF x.type = "ASSIGNMENT_REVOKED" THEN NoTeam ELSE x.payload.team_id

LEMMA HolderMoves ==
    ASSUME NEW F, NEW x, Numbered(F \cup {x}), Follows(x, F), NEW k
    PROVE  /\ Touches(F, x, k) => /\ About(F \cup {x}, k) # {}
                                  /\ HolderByRule(F \cup {x}, k) = NewHolder(x)
           /\ ~Touches(F, x, k) => /\ About(F \cup {x}, k) = About(F, k)
                                   /\ HolderByRule(F \cup {x}, k) = HolderByRule(F, k)
<1>1. CASE Touches(F, x, k)
  <2> DEFINE A == About(F \cup {x}, k)
  <2>1. A = About(F, k) \cup {x}
    BY <1>1, AboutGrows
  <2>2. About(F, k) \subseteq F
    BY DEF About, OfType
  <2>3. x \in A /\ A \subseteq F \cup {x}
    BY <2>1, <2>2
  <2> HIDE DEF A
  <2>4. \A f \in A : f.server_seq <= x.server_seq
    BY <2>3 DEF Follows, Numbered
  <2>5. Latest(A) = x
    BY <2>3, <2>4, SubsetIsNumbered, LatestIs
  <2>6. QED
    BY <1>1, <2>3, <2>5 DEF HolderByRule, NewHolder, A
<1>2. CASE ~Touches(F, x, k)
  BY <1>2, AboutGrows DEF HolderByRule
<1>3. QED
  BY <1>1, <1>2

-----------------------------------------------------------------------------
(* What an event does to the assignments.                                  *)

CellKeys(e) == {<<e.incident, c>> : c \in e.payload.cell_ids}

\* What the loop knows of the assignments: the cells of each one's latest issue.
HoldsCells(F, cells) ==
    /\ DOMAIN cells = {e.payload.assignment_id : e \in Issues(F)}
    /\ \A e \in Issues(F) : LatestIssue(F, e) => cells[e.payload.assignment_id] = CellKeys(e)

\* What it knows of the cells: who holds each one that was ever assigned.
HoldsState(F, state) ==
    /\ \A k \in DOMAIN state : k = <<Incident, k[2]>>
    /\ \A c : <<Incident, c>> \in DOMAIN state <=> About(F, <<Incident, c>>) # {}
    /\ \A k \in DOMAIN state : state[k].team = HolderByRule(F, k)

InScope(F) == \A e \in F : e.incident = Incident

LEMMA StateStep ==
    ASSUME NEW F, NEW x, Numbered(F \cup {x}), Follows(x, F),
           NEW state, HoldsState(F, state),
           NEW g, \A k \in DOMAIN g : k = <<Incident, k[2]>> /\ g[k].team = NewHolder(x),
           \A c : <<Incident, c>> \in DOMAIN g <=> Touches(F, x, <<Incident, c>>),
           NEW new, new = Update(state, g)
    PROVE  HoldsState(F \cup {x}, new)
<1>1. /\ DOMAIN new = DOMAIN state \cup DOMAIN g
      /\ \A k \in DOMAIN g : new[k] = g[k]
      /\ \A k \in DOMAIN state \ DOMAIN g : new[k] = state[k]
  BY DEF Update
<1>2. \A k \in DOMAIN new : k = <<Incident, k[2]>>
  BY <1>1 DEF HoldsState
<1>3. ASSUME NEW c PROVE <<Incident, c>> \in DOMAIN new <=> About(F \cup {x}, <<Incident, c>>) # {}
  <2>1. PICK k : k = <<Incident, c>>
    OBVIOUS
  <2>2. /\ k \in DOMAIN g <=> Touches(F, x, k)
        /\ k \in DOMAIN state <=> About(F, k) # {}
    BY <2>1 DEF HoldsState
  <2>3. /\ Touches(F, x, k) => About(F \cup {x}, k) # {}
        /\ ~Touches(F, x, k) => About(F \cup {x}, k) = About(F, k)
    BY HolderMoves
  <2>4. QED
    BY <1>1, <2>1, <2>2, <2>3
<1>4. ASSUME NEW k \in DOMAIN new PROVE new[k].team = HolderByRule(F \cup {x}, k)
  <2>1. k \in DOMAIN g <=> Touches(F, x, k)
    BY <1>2
  <2>2. CASE k \in DOMAIN g
    <3>1. new[k].team = NewHolder(x)
      BY <1>1, <2>2
    <3>2. QED
      BY <2>1, <2>2, <3>1, HolderMoves
  <2>3. CASE k \notin DOMAIN g
    <3>1. new[k].team = HolderByRule(F, k)
      BY <1>1, <2>3 DEF HoldsState
    <3>2. QED
      BY <2>1, <2>3, <3>1, HolderMoves
  <2>4. QED
    BY <2>2, <2>3
<1>5. QED
  BY <1>2, <1>3, <1>4 DEF HoldsState

LEMMA IssueStep ==
    ASSUME NEW F, NEW x, Numbered(F \cup {x}), Follows(x, F), x.incident = Incident,
           x.type = "ASSIGNMENT_ISSUED",
           NEW s, HoldsCells(F, s.cells), HoldsState(F, s.state),
           NEW r, r = Issue(s, x)
    PROVE  HoldsCells(F \cup {x}, r.cells) /\ HoldsState(F \cup {x}, r.state)
<1> DEFINE aid == x.payload.assignment_id
           g == [k \in CellKeys(x) |-> [team |-> x.payload.team_id, assignment |-> aid]]
<1>1. r.cells = Put(s.cells, aid, CellKeys(x)) /\ r.state = Update(s.state, g)
  BY DEF Issue, CellKeys
<1>2. HoldsState(F \cup {x}, r.state)
  <2>1. DOMAIN g = CellKeys(x) /\ \A k \in CellKeys(x) : g[k].team = x.payload.team_id
    OBVIOUS
  <2>2. NewHolder(x) = x.payload.team_id
    BY DEF NewHolder
  <2>3. \A k \in CellKeys(x) : k = <<Incident, k[2]>>
    BY DEF CellKeys
  <2>4. \A c : <<Incident, c>> \in CellKeys(x) <=> c \in x.payload.cell_ids
    BY DEF CellKeys
  <2>5. \A c : Touches(F, x, <<Incident, c>>) <=> c \in x.payload.cell_ids
    BY DEF Touches
  <2> HIDE DEF g
  <2>6. PICK h, new : h = g /\ new = r.state
    OBVIOUS
  <2>7. /\ \A k \in DOMAIN h : k = <<Incident, k[2]>> /\ h[k].team = NewHolder(x)
        /\ \A c : <<Incident, c>> \in DOMAIN h <=> Touches(F, x, <<Incident, c>>)
        /\ new = Update(s.state, h)
    BY <1>1, <2>1, <2>2, <2>3, <2>4, <2>5, <2>6
  <2>8. HoldsState(F \cup {x}, new)
    <3>1. PICK state : state = s.state
      OBVIOUS
    <3>2. QED
      BY <2>7, <3>1, StateStep
  <2>9. QED
    BY <2>6, <2>8
<1>3. HoldsCells(F \cup {x}, r.cells)
  <2>1. Issues(F \cup {x}) = Issues(F) \cup {x}
    BY DEF Issues, OfType
  <2>2. PICK cells, new, keys, a : /\ cells = s.cells /\ new = r.cells /\ keys = CellKeys(x)
                                   /\ a = aid
    OBVIOUS
  <2>3. /\ DOMAIN new = DOMAIN cells \cup {a}
        /\ new[a] = keys
        /\ \A b \in DOMAIN cells : b # a => new[b] = cells[b]
    BY <1>1, <2>2 DEF Put, Update
  <2>4. DOMAIN new = {e.payload.assignment_id : e \in Issues(F \cup {x})}
    BY <2>1, <2>2, <2>3 DEF HoldsCells
  <2>5. ASSUME NEW e \in Issues(F \cup {x}), LatestIssue(F \cup {x}, e)
        PROVE  new[e.payload.assignment_id] = CellKeys(e)
    <3>1. CASE e = x
      BY <2>2, <2>3, <3>1
    <3>2. CASE e # x
      <4>1. e \in Issues(F) /\ LatestIssue(F, e)
        BY <2>1, <2>5, <3>2 DEF LatestIssue
      <4>2. e \in F
        BY <4>1 DEF Issues, OfType
      <4>3. ~(x.server_seq <= e.server_seq)
        BY <4>2 DEF Follows, Numbered
      <4>4. e.payload.assignment_id # a
        BY <2>1, <2>2, <2>5, <4>3 DEF LatestIssue
      <4>5. e.payload.assignment_id \in DOMAIN cells /\ cells[e.payload.assignment_id] = CellKeys(e)
        BY <2>2, <4>1 DEF HoldsCells
      <4>6. QED
        BY <2>3, <4>4, <4>5
    <3>3. QED
      BY <3>1, <3>2
  <2>6. QED
    BY <2>2, <2>4, <2>5 DEF HoldsCells
<1>4. QED
  BY <1>2, <1>3

LEMMA CellsStay ==
    ASSUME NEW F, NEW x, x.type # "ASSIGNMENT_ISSUED", NEW cells, HoldsCells(F, cells)
    PROVE  HoldsCells(F \cup {x}, cells)
<1>1. Issues(F \cup {x}) = Issues(F)
  BY DEF Issues, OfType
<1>2. QED
  BY <1>1 DEF HoldsCells, LatestIssue

LEMMA RevokeStep ==
    ASSUME NEW F, NEW x, Numbered(F \cup {x}), Follows(x, F), InScope(F), x.incident = Incident,
           x.type = "ASSIGNMENT_REVOKED",
           NEW s, s = [cells |-> s.cells, state |-> s.state],
           HoldsCells(F, s.cells), HoldsState(F, s.state),
           NEW r, r = Revoke(s, x)
    PROVE  HoldsCells(F \cup {x}, r.cells) /\ HoldsState(F \cup {x}, r.state)
<1> DEFINE aid == x.payload.assignment_id
           keys == IF aid \in DOMAIN s.cells THEN s.cells[aid] ELSE {}
           g == [k \in keys |-> [team |-> NoTeam, assignment |-> aid]]
<1>1. r.cells = s.cells /\ r.state = Update(s.state, g)
  <2>1. r = [s EXCEPT !.state = Update(@, g)]
    BY DEF Revoke
  <2> HIDE DEF g
  <2>2. QED
    BY <2>1
<1>2. HoldsCells(F \cup {x}, r.cells)
  BY <1>1, CellsStay
<1>3. DOMAIN g = keys /\ \A k \in keys : g[k].team = NewHolder(x)
  BY DEF NewHolder
<1> HIDE DEF g
<1> DEFINE Same == {e \in Issues(F) : e.payload.assignment_id = aid}
<1>4. /\ \A k \in keys : k = <<Incident, k[2]>>
      /\ \A c : <<Incident, c>> \in keys <=> Touches(F, x, <<Incident, c>>)
  <2>1. CASE Same = {}
    <3>1. keys = {}
      BY <2>1 DEF HoldsCells
    <3>2. \A c : ~Touches(F, x, <<Incident, c>>)
      BY <2>1 DEF Touches
    <3>3. QED
      BY <3>1, <3>2
  <2>2. CASE Same # {}
    <3>1. Same \subseteq F
      BY DEF Issues, OfType
    <3>2. Numbered(Same)
      <4> HIDE DEF Same
      <4>1. Same \subseteq F \cup {x}
        BY <3>1
      <4>2. QED
        BY <4>1, SubsetIsNumbered
    <3>3. PICK e : e \in Same /\ \A f \in Same : f.server_seq <= e.server_seq
      <4> HIDE DEF Same
      <4>1. QED
        BY <2>2, <3>2, LatestExists
    <3>4. /\ e \in Issues(F) /\ e.payload.assignment_id = aid /\ LatestIssue(F, e)
          /\ e.incident = Incident
      BY <3>1, <3>3 DEF LatestIssue, InScope
    <3>5. keys = CellKeys(e)
      BY <3>4 DEF HoldsCells
    <3>6. \A f \in Issues(F) : f.payload.assignment_id = aid /\ LatestIssue(F, f) => f = e
      <4>1. SUFFICES ASSUME NEW f \in Issues(F), f.payload.assignment_id = aid, LatestIssue(F, f)
                     PROVE  f = e
        OBVIOUS
      <4>2. /\ f \in Same /\ f.server_seq <= e.server_seq /\ e.server_seq <= f.server_seq
        BY <3>3, <3>4, <4>1 DEF LatestIssue
      <4>3. f.server_seq = e.server_seq
        BY <3>2, <3>3, <4>2 DEF Numbered
      <4>4. QED
        BY <3>2, <3>3, <4>2, <4>3 DEF Numbered
    <3>7. \A c : Touches(F, x, <<Incident, c>>) <=> c \in e.payload.cell_ids
      <4>1. SUFFICES ASSUME NEW c
                     PROVE  Touches(F, x, <<Incident, c>>) <=> c \in e.payload.cell_ids
        OBVIOUS
      <4>2. Touches(F, x, <<Incident, c>>) <=>
              \E f \in Issues(F) : /\ f.payload.assignment_id = aid
                                   /\ LatestIssue(F, f)
                                   /\ c \in f.payload.cell_ids
        BY DEF Touches
      <4>3. QED
        BY <3>4, <3>6, <4>2
    <3> HIDE DEF keys
    <3>8. /\ \A k \in keys : k = <<Incident, k[2]>>
          /\ \A c : <<Incident, c>> \in keys <=> c \in e.payload.cell_ids
      BY <3>4, <3>5 DEF CellKeys
    <3>9. QED
      BY <3>7, <3>8
  <2>3. QED
    BY <2>1, <2>2
<1> HIDE DEF keys
<1>5. PICK h, new, state : h = g /\ new = r.state /\ state = s.state
  OBVIOUS
<1>6. /\ \A k \in DOMAIN h : k = <<Incident, k[2]>> /\ h[k].team = NewHolder(x)
      /\ \A c : <<Incident, c>> \in DOMAIN h <=> Touches(F, x, <<Incident, c>>)
      /\ new = Update(state, h)
  BY <1>1, <1>3, <1>4, <1>5
<1>7. HoldsState(F \cup {x}, new)
  BY <1>5, <1>6, StateStep
<1>8. QED
  BY <1>2, <1>5, <1>7

\* Any other event.
LEMMA NoAssignStep ==
    ASSUME NEW F, NEW x, Numbered(F \cup {x}), Follows(x, F),
           x.type \notin {"ASSIGNMENT_ISSUED", "ASSIGNMENT_REVOKED"},
           NEW s, HoldsCells(F, s.cells), HoldsState(F, s.state)
    PROVE  HoldsCells(F \cup {x}, s.cells) /\ HoldsState(F \cup {x}, s.state)
<1>1. \A k : ~Touches(F, x, k)
  BY DEF Touches
<1>2. \A k : About(F \cup {x}, k) = About(F, k) /\ HolderByRule(F \cup {x}, k) = HolderByRule(F, k)
  BY <1>1, HolderMoves
<1>3. HoldsState(F \cup {x}, s.state)
  BY <1>2 DEF HoldsState
<1>4. QED
  BY <1>3, CellsStay

-----------------------------------------------------------------------------
(* The assignments, folded.                                                *)

\* The values of the loop over the events of E.
Cells(E) == UNION {CellKeys(e) : e \in Issues(E)}
Ids(E) == {e.payload.assignment_id : e \in E}
Held(E) == [team : {NoTeam} \cup {e.payload.team_id : e \in E}, assignment : Ids(E)]
AssignValues(E) == [cells : Dicts(Ids(E), SUBSET Cells(E)), state : Dicts(Cells(E), Held(E))]

LEMMA ValueInDict ==
    ASSUME NEW K, NEW R, NEW f \in Dicts(K, R), NEW x \in DOMAIN f
    PROVE  f[x] \in R
<1>1. PICK L \in SUBSET K : f \in [L -> R]
  BY DEF Dicts
<1>2. QED
  BY <1>1

LEMMA AssignIsAValue ==
    ASSUME NEW E, NEW s \in AssignValues(E), NEW e \in E
    PROVE  Assign(s, e) \in AssignValues(E)
<1> DEFINE aid == e.payload.assignment_id
<1>1. /\ s = [cells |-> s.cells, state |-> s.state]
      /\ s.cells \in Dicts(Ids(E), SUBSET Cells(E)) /\ s.state \in Dicts(Cells(E), Held(E))
      /\ aid \in Ids(E)
  BY DEF AssignValues, Ids
<1>2. CASE e.type = "ASSIGNMENT_ISSUED"
  <2> DEFINE g == [k \in CellKeys(e) |-> [team |-> e.payload.team_id, assignment |-> aid]]
  <2>1. CellKeys(e) \in SUBSET Cells(E)
    BY <1>2 DEF Cells, Issues, OfType
  <2>2. g \in Dicts(Cells(E), Held(E))
    <3>1. g \in [CellKeys(e) -> Held(E)]
      BY <1>1 DEF Held
    <3> HIDE DEF g
    <3>2. QED
      BY <2>1, <3>1 DEF Dicts
  <2>3. Assign(s, e) = [cells |-> Put(s.cells, aid, CellKeys(e)), state |-> Update(s.state, g)]
    BY <1>2 DEF Assign, Issue, CellKeys
  <2> HIDE DEF g
  <2>4. Put(s.cells, aid, CellKeys(e)) \in Dicts(Ids(E), SUBSET Cells(E))
    BY <1>1, <2>1, PutInDicts
  <2>5. Update(s.state, g) \in Dicts(Cells(E), Held(E))
    BY <1>1, <2>2, UpdateInDicts
  <2>6. QED
    BY <2>3, <2>4, <2>5 DEF AssignValues
<1>3. CASE e.type = "ASSIGNMENT_REVOKED"
  <2> DEFINE keys == IF aid \in DOMAIN s.cells THEN s.cells[aid] ELSE {}
             g == [k \in keys |-> [team |-> NoTeam, assignment |-> aid]]
  <2>1. keys \in SUBSET Cells(E)
    BY <1>1, ValueInDict
  <2>2. Assign(s, e) = [s EXCEPT !.state = Update(@, g)]
    BY <1>3 DEF Assign, Revoke
  <2> HIDE DEF keys
  <2>3. g \in Dicts(Cells(E), Held(E))
    <3>1. g \in [keys -> Held(E)]
      BY <1>1 DEF Held
    <3> HIDE DEF g
    <3>2. QED
      BY <2>1, <3>1 DEF Dicts
  <2> HIDE DEF g
  <2>4. Assign(s, e) = [cells |-> s.cells, state |-> Update(s.state, g)]
    BY <1>1, <2>2
  <2>5. Update(s.state, g) \in Dicts(Cells(E), Held(E))
    BY <1>1, <2>3, UpdateInDicts
  <2>6. QED
    BY <1>1, <2>4, <2>5 DEF AssignValues
<1>4. CASE e.type \notin {"ASSIGNMENT_ISSUED", "ASSIGNMENT_REVOKED"}
  BY <1>4 DEF Assign
<1>5. QED
  BY <1>2, <1>3, <1>4

HoldsAssignments(F, s) == HoldsCells(F, s.cells) /\ HoldsState(F, s.state)

LEMMA AssignStep ==
    ASSUME NEW F, NEW x, Numbered(F \cup {x}), Follows(x, F), InScope(F), x.incident = Incident,
           NEW s, s = [cells |-> s.cells, state |-> s.state], HoldsAssignments(F, s),
           NEW r, r = Assign(s, x)
    PROVE  HoldsAssignments(F \cup {x}, r)
<1>1. CASE x.type = "ASSIGNMENT_ISSUED"
  <2>1. r = Issue(s, x)
    BY <1>1 DEF Assign
  <2>2. QED
    BY <1>1, <2>1, IssueStep DEF HoldsAssignments
<1>2. CASE x.type = "ASSIGNMENT_REVOKED"
  <2>1. r = Revoke(s, x)
    BY <1>2 DEF Assign
  <2>2. QED
    BY <1>2, <2>1, RevokeStep DEF HoldsAssignments
<1>3. CASE x.type \notin {"ASSIGNMENT_ISSUED", "ASSIGNMENT_REVOKED"}
  <2>1. r = s
    BY <1>3 DEF Assign
  <2>2. QED
    BY <1>3, <2>1, NoAssignStep DEF HoldsAssignments
<1>4. QED
  BY <1>1, <1>2, <1>3

NoAssignments == [cells |-> <<>>, state |-> <<>>]

LEMMA AssignmentsAreFolded ==
    ASSUME NEW E, Numbered(E), InScope(E)
    PROVE  HoldsState(E, FoldAssignmentState(E))
<1> DEFINE n == Cardinality(E)
           s == Ordered(E)
           V == AssignValues(E)
           op == [q \in V \X E |-> Assign(q[1], q[2])]
           Solves(h) == h = [S \in SUBSET (1..n) |->
                                IF S = {} THEN NoAssignments ELSE Assign(h[S \ {Max(S)}], s[Max(S)])]
           h == CHOOSE g : Solves(g)
<1>1. n = Cardinality(E) /\ s = Ordered(E)
  OBVIOUS
<1>2. n \in Nat /\ s \in [1..n -> E]
  BY OrderedIs
<1>3. NoAssignments \in V
  BY NoneInDicts DEF NoAssignments, AssignValues
<1>4. op \in [V \X E -> V] /\ \A v \in V, e \in E : op[<<v, e>>] = Assign(v, e)
  BY AssignIsAValue
<1>5. FoldAssignmentState(E) = h[1..n].state
  <2>1. DOMAIN s = 1..n
    BY <1>2
  <2>2. QED
    BY <2>1 DEF FoldAssignmentState, NoAssignments, FoldLeft, MapThenFoldSet
<1> HIDE DEF V, op
<1>6. Solves(h)
  <2>1. PICK g : IsLoop(g, n, V, NoAssignments, s, op)
    <3> HIDE DEF n, s
    <3>1. QED
      BY <1>2, <1>3, <1>4, LoopExists
  <2>2. ASSUME NEW S \in SUBSET (1..n), S # {} PROVE g[S] = Assign(g[S \ {Max(S)}], s[Max(S)])
    <3>1. Max(S) \in 1..n
      BY <1>2, <2>2, MaxOfIndices
    <3>2. s[Max(S)] \in E /\ g[S \ {Max(S)}] \in V
      BY <1>2, <2>1, <3>1 DEF IsLoop
    <3>3. QED
      BY <1>4, <2>1, <2>2, <3>2 DEF IsLoop
  <2>3. Solves(g)
    BY <2>1, <2>2 DEF IsLoop
  <2> HIDE DEF Solves
  <2>4. QED
    BY <2>3
<1>7. /\ h[{}] = NoAssignments
      /\ \A S \in SUBSET (1..n) : S # {} => h[S] = Assign(h[S \ {Max(S)}], s[Max(S)])
  BY <1>6
<1> HIDE DEF h, Solves, n, s
<1>8. ASSUME NEW S \in SUBSET (1..n), S # {}, h[S \ {Max(S)}] \in V
      PROVE  h[S] = op[<<h[S \ {Max(S)}], s[Max(S)]>>]
  <2>1. s[Max(S)] \in E
    BY <1>2, <1>8, MaxOfIndices
  <2>2. QED
    BY <1>4, <1>7, <1>8, <2>1
<1>9. RunsTo(h, n, V, NoAssignments, s, op)
  BY <1>7, <1>8 DEF RunsTo
<1> DEFINE T == {q \in (SUBSET E) \X V : HoldsAssignments(q[1], q[2])}
<1>10. <<{}, NoAssignments>> \in T
  <2>1. HoldsCells({}, <<>>) /\ HoldsState({}, <<>>)
    BY NoneInDicts DEF HoldsCells, HoldsState, Issues, OfType, About
  <2>2. QED
    BY <1>3, <2>1 DEF HoldsAssignments, NoAssignments
<1>11. ASSUME NEW F \in SUBSET E, NEW x \in E, NEW v \in V, Follows(x, F), <<F, v>> \in T
       PROVE  <<F \cup {x}, op[<<v, x>>]>> \in T
  <2>1. PICK r : r = Assign(v, x)
    OBVIOUS
  <2>2. op[<<v, x>>] = r /\ r \in V
    BY <1>4, <2>1, AssignIsAValue DEF V
  <2>3. v = [cells |-> v.cells, state |-> v.state]
    BY DEF V, AssignValues
  <2>4. Numbered(F \cup {x}) /\ InScope(F) /\ x.incident = Incident
    BY SubsetIsNumbered DEF InScope
  <2>5. HoldsAssignments(F \cup {x}, r)
    BY <1>11, <2>1, <2>3, <2>4, AssignStep
  <2>6. QED
    BY <2>2, <2>5
<1>12. <<E, h[1..n]>> \in T
  <2>1. IsKept(T, E, V, NoAssignments, op)
    BY <1>10, <1>11 DEF IsKept
  <2> HIDE DEF T
  <2>2. QED
    BY <1>1, <1>3, <1>4, <1>9, <2>1, OrderedLoop
<1>13. QED
  BY <1>5, <1>12 DEF HoldsAssignments

-----------------------------------------------------------------------------
(* Teams.                                                                  *)

LastStatus(F, t) ==
    IF StatusesOf(F, t) = {} THEN "None" ELSE Latest(StatusesOf(F, t)).payload.team_status

HoldsTeams(F, f) ==
    /\ \A e \in OfType(F, "TEAM_STATUS_REPORTED") : e.team \in DOMAIN f
    /\ \A t \in DOMAIN f : f[t].status = LastStatus(F, t)

IsTeamState(r) == r = [callsign |-> r.callsign, status |-> r.status]
TeamIds(E) == {e.payload.team_id : e \in E} \cup {e.team : e \in E}
TeamStates(E) == [callsign : {"None"} \cup {e.payload.callsign : e \in E},
                  status : {"None"} \cup {e.payload.team_status : e \in E}]

LEMMA TellIsAValue ==
    ASSUME NEW E, NEW f \in Dicts(TeamIds(E), TeamStates(E)), NEW e \in E
    PROVE  Tell(f, e) \in Dicts(TeamIds(E), TeamStates(E))
<1>1. \A id : Team(f, id) \in TeamStates(E)
  <2>1. SUFFICES ASSUME NEW id PROVE Team(f, id) \in TeamStates(E)
    OBVIOUS
  <2>2. CASE id \in DOMAIN f
    BY <2>2, ValueInDict DEF Team
  <2>3. CASE id \notin DOMAIN f
    BY <2>3 DEF Team, TeamStates
  <2>4. QED
    BY <2>2, <2>3
<1>2. CASE e.type = "TEAM_REGISTERED"
  <2>1. PICK id, r : id = e.payload.team_id /\ r = [Team(f, id) EXCEPT !.callsign = e.payload.callsign]
    OBVIOUS
  <2>2. r \in TeamStates(E) /\ id \in TeamIds(E)
    BY <1>1, <2>1 DEF TeamStates, TeamIds
  <2>3. Tell(f, e) = Put(f, id, r)
    BY <1>2, <2>1 DEF Tell
  <2>4. QED
    BY <2>2, <2>3, PutInDicts
<1>3. CASE e.type = "TEAM_STATUS_REPORTED"
  <2>1. PICK id, r : id = e.team /\ r = [Team(f, id) EXCEPT !.status = e.payload.team_status]
    OBVIOUS
  <2>2. r \in TeamStates(E) /\ id \in TeamIds(E)
    BY <1>1, <2>1 DEF TeamStates, TeamIds
  <2>3. Tell(f, e) = Put(f, id, r)
    BY <1>3, <2>1 DEF Tell
  <2>4. QED
    BY <2>2, <2>3, PutInDicts
<1>4. CASE e.type \notin {"TEAM_REGISTERED", "TEAM_STATUS_REPORTED"}
  BY <1>4 DEF Tell
<1>5. QED
  BY <1>2, <1>3, <1>4

LEMMA StatusMoves ==
    ASSUME NEW F, NEW x, Numbered(F \cup {x}), Follows(x, F), NEW t
    PROVE  LastStatus(F \cup {x}, t) =
             IF x.type = "TEAM_STATUS_REPORTED" /\ x.team = t THEN x.payload.team_status
             ELSE LastStatus(F, t)
<1>1. CASE x.type = "TEAM_STATUS_REPORTED" /\ x.team = t
  <2> DEFINE S == StatusesOf(F \cup {x}, t)
  <2>1. x \in S /\ S \subseteq F \cup {x}
    BY <1>1 DEF StatusesOf, OfType
  <2> HIDE DEF S
  <2>2. \A f \in S : f.server_seq <= x.server_seq
    BY <2>1 DEF Follows, Numbered
  <2>3. Latest(S) = x
    BY <2>1, <2>2, SubsetIsNumbered, LatestIs
  <2>4. QED
    BY <1>1, <2>1, <2>3 DEF LastStatus, S
<1>2. CASE ~(x.type = "TEAM_STATUS_REPORTED" /\ x.team = t)
  <2>1. StatusesOf(F \cup {x}, t) = StatusesOf(F, t)
    BY <1>2 DEF StatusesOf, OfType
  <2>2. QED
    BY <1>2, <2>1 DEF LastStatus
<1>3. QED
  BY <1>1, <1>2

LEMMA TellStep ==
    ASSUME NEW F, NEW x, Numbered(F \cup {x}), Follows(x, F),
           NEW f, \A t \in DOMAIN f : IsTeamState(f[t]), HoldsTeams(F, f),
           NEW g, g = Tell(f, x)
    PROVE  HoldsTeams(F \cup {x}, g)
<1>1. \A id : IsTeamState(Team(f, id)) /\ Team(f, id).status = LastStatus(F, id)
  <2>1. SUFFICES ASSUME NEW id
                 PROVE  IsTeamState(Team(f, id)) /\ Team(f, id).status = LastStatus(F, id)
    OBVIOUS
  <2>2. CASE id \in DOMAIN f
    BY <2>2 DEF Team, HoldsTeams
  <2>3. CASE id \notin DOMAIN f
    <3>1. StatusesOf(F, id) = {}
      BY <2>3 DEF StatusesOf, HoldsTeams
    <3>2. QED
      BY <2>3, <3>1 DEF Team, LastStatus, IsTeamState
  <2>4. QED
    BY <2>2, <2>3
<1>2. ASSUME NEW id, NEW r, g = Put(f, id, r), r.status = LastStatus(F \cup {x}, id),
             x.type = "TEAM_STATUS_REPORTED" => x.team = id
      PROVE  HoldsTeams(F \cup {x}, g)
  <2>1. /\ DOMAIN g = DOMAIN f \cup {id}
        /\ g[id] = r
        /\ \A y \in DOMAIN f : y # id => g[y] = f[y]
    BY <1>2 DEF Put, Update
  <2>2. \A e \in OfType(F \cup {x}, "TEAM_STATUS_REPORTED") : e.team \in DOMAIN g
    BY <1>2, <2>1 DEF HoldsTeams, OfType
  <2>3. ASSUME NEW t \in DOMAIN g PROVE g[t].status = LastStatus(F \cup {x}, t)
    <3>1. CASE t = id
      BY <1>2, <2>1, <3>1
    <3>2. CASE t # id
      BY <1>2, <2>1, <3>2, StatusMoves DEF HoldsTeams
    <3>3. QED
      BY <3>1, <3>2
  <2>4. QED
    BY <2>2, <2>3 DEF HoldsTeams
<1>3. CASE x.type = "TEAM_REGISTERED"
  <2>1. PICK id, r : id = x.payload.team_id /\ r = [Team(f, id) EXCEPT !.callsign = x.payload.callsign]
    OBVIOUS
  <2>2. g = Put(f, id, r)
    BY <1>3, <2>1 DEF Tell
  <2>3. r.status = LastStatus(F, id)
    BY <1>1, <2>1 DEF IsTeamState
  <2>4. LastStatus(F \cup {x}, id) = LastStatus(F, id)
    BY <1>3, StatusMoves
  <2>5. QED
    BY <1>2, <1>3, <2>2, <2>3, <2>4
<1>4. CASE x.type = "TEAM_STATUS_REPORTED"
  <2>1. PICK id, r : id = x.team /\ r = [Team(f, id) EXCEPT !.status = x.payload.team_status]
    OBVIOUS
  <2>2. g = Put(f, id, r)
    BY <1>4, <2>1 DEF Tell
  <2>3. r.status = x.payload.team_status
    BY <1>1, <2>1 DEF IsTeamState
  <2>4. LastStatus(F \cup {x}, id) = x.payload.team_status
    BY <1>4, <2>1, StatusMoves
  <2>5. QED
    BY <1>2, <2>1, <2>2, <2>3, <2>4
<1>5. CASE x.type \notin {"TEAM_REGISTERED", "TEAM_STATUS_REPORTED"}
  <2>1. g = f
    BY <1>5 DEF Tell
  <2>2. OfType(F \cup {x}, "TEAM_STATUS_REPORTED") = OfType(F, "TEAM_STATUS_REPORTED")
    BY <1>5 DEF OfType
  <2>3. \A t : LastStatus(F \cup {x}, t) = LastStatus(F, t)
    BY <1>5, StatusMoves
  <2>4. QED
    BY <2>1, <2>2, <2>3 DEF HoldsTeams
<1>6. QED
  BY <1>3, <1>4, <1>5

LEMMA TeamsAreFolded ==
    ASSUME NEW E, Numbered(E)
    PROVE  HoldsTeams(E, FoldTeamState(E))
<1> DEFINE n == Cardinality(E)
           s == Ordered(E)
           V == Dicts(TeamIds(E), TeamStates(E))
           op == [q \in V \X E |-> Tell(q[1], q[2])]
           Solves(h) == h = [S \in SUBSET (1..n) |->
                                IF S = {} THEN <<>> ELSE Tell(h[S \ {Max(S)}], s[Max(S)])]
           h == CHOOSE g : Solves(g)
<1>1. n = Cardinality(E) /\ s = Ordered(E)
  OBVIOUS
<1>2. n \in Nat /\ s \in [1..n -> E]
  BY OrderedIs
<1>3. <<>> \in V
  BY NoneInDicts
<1>4. op \in [V \X E -> V] /\ \A v \in V, e \in E : op[<<v, e>>] = Tell(v, e)
  BY TellIsAValue
<1>5. FoldTeamState(E) = h[1..n]
  <2>1. DOMAIN s = 1..n
    BY <1>2
  <2>2. QED
    BY <2>1 DEF FoldTeamState, FoldLeft, MapThenFoldSet
<1> HIDE DEF V, op
<1>6. Solves(h)
  <2>1. PICK g : IsLoop(g, n, V, <<>>, s, op)
    <3> HIDE DEF n, s
    <3>1. QED
      BY <1>2, <1>3, <1>4, LoopExists
  <2>2. ASSUME NEW S \in SUBSET (1..n), S # {} PROVE g[S] = Tell(g[S \ {Max(S)}], s[Max(S)])
    <3>1. Max(S) \in 1..n
      BY <1>2, <2>2, MaxOfIndices
    <3>2. s[Max(S)] \in E /\ g[S \ {Max(S)}] \in V
      BY <1>2, <2>1, <3>1 DEF IsLoop
    <3>3. QED
      BY <1>4, <2>1, <2>2, <3>2 DEF IsLoop
  <2>3. Solves(g)
    BY <2>1, <2>2 DEF IsLoop
  <2> HIDE DEF Solves
  <2>4. QED
    BY <2>3
<1>7. /\ h[{}] = <<>>
      /\ \A S \in SUBSET (1..n) : S # {} => h[S] = Tell(h[S \ {Max(S)}], s[Max(S)])
  BY <1>6
<1> HIDE DEF h, Solves, n, s
<1>8. ASSUME NEW S \in SUBSET (1..n), S # {}, h[S \ {Max(S)}] \in V
      PROVE  h[S] = op[<<h[S \ {Max(S)}], s[Max(S)]>>]
  <2>1. s[Max(S)] \in E
    BY <1>2, <1>8, MaxOfIndices
  <2>2. QED
    BY <1>4, <1>7, <1>8, <2>1
<1>9. RunsTo(h, n, V, <<>>, s, op)
  BY <1>7, <1>8 DEF RunsTo
<1> DEFINE T == {q \in (SUBSET E) \X V : HoldsTeams(q[1], q[2])}
<1>10. <<{}, <<>>>> \in T
  BY <1>3, NoneInDicts DEF HoldsTeams, OfType
<1>11. ASSUME NEW F \in SUBSET E, NEW x \in E, NEW v \in V, Follows(x, F), <<F, v>> \in T
       PROVE  <<F \cup {x}, op[<<v, x>>]>> \in T
  <2>1. PICK g : g = Tell(v, x)
    OBVIOUS
  <2>2. op[<<v, x>>] = g /\ g \in V
    BY <1>4, <2>1, TellIsAValue DEF V
  <2>3. \A t \in DOMAIN v : IsTeamState(v[t])
    <3>1. \A t \in DOMAIN v : v[t] \in TeamStates(E)
      BY ValueInDict DEF V
    <3>2. QED
      BY <3>1 DEF TeamStates, IsTeamState
  <2>4. HoldsTeams(F \cup {x}, g)
    BY <1>11, <2>1, <2>3, SubsetIsNumbered, TellStep
  <2>5. QED
    BY <2>2, <2>4
<1>12. <<E, h[1..n]>> \in T
  <2>1. IsKept(T, E, V, <<>>, op)
    BY <1>10, <1>11 DEF IsKept
  <2> HIDE DEF T
  <2>2. QED
    BY <1>1, <1>3, <1>4, <1>9, <2>1, OrderedLoop
<1>13. QED
  BY <1>5, <1>12

-----------------------------------------------------------------------------
(* The rules.                                                              *)

LEMMA CellStateFollowsTheRules ==
    ASSUME NEW E, Numbered(E), InScope(E), NEW state, state = FoldCellState(E),
           NEW k, k = <<Incident, k[2]>>
    PROVE  StatusByRule(E, k) = IF k \in DOMAIN state THEN state[k].status ELSE "UNSEARCHED"
<1> DEFINE C == OfType(E, "CELL_STATUS_REPORTED")
<1>1. PICK held, latest : held = FoldAssignmentState(E) /\ latest = LatestReports(E)
  OBVIOUS
<1>2. HoldsState(E, held) /\ HoldsReports(C, latest)
  BY <1>1, AssignmentsAreFolded, ReportsAreFolded
<1>3. PICK live : live = {c \in DOMAIN held : held[c].team # NoTeam}
  OBVIOUS
<1>4. state = Update([c \in live |-> [status |-> "ASSIGNED", team |-> held[c].team]], latest)
  BY <1>1, <1>3 DEF FoldCellState
<1>5. /\ DOMAIN state = live \cup DOMAIN latest
      /\ \A c \in DOMAIN latest : state[c] = latest[c]
      /\ \A c \in live \ DOMAIN latest : state[c].status = "ASSIGNED"
  BY <1>4 DEF Update
<1>6. k \in live <=> HolderByRule(E, k) # NoTeam
  <2>1. k \in DOMAIN held <=> About(E, k) # {}
    BY <1>2 DEF HoldsState
  <2>2. k \in DOMAIN held => held[k].team = HolderByRule(E, k)
    BY <1>2 DEF HoldsState
  <2>3. About(E, k) = {} => HolderByRule(E, k) = NoTeam
    BY DEF HolderByRule
  <2>4. QED
    BY <1>3, <2>1, <2>2, <2>3
<1>7. k \in DOMAIN latest <=> ReportsOn(E, k) # {}
  BY <1>2 DEF HoldsReports, ReportsOn
<1>8. CASE ReportsOn(E, k) # {}
  <2> DEFINE R == ReportsOn(E, k)
  <2>1. R \subseteq E /\ Numbered(R)
    <3>1. R \subseteq E
      BY DEF ReportsOn, OfType
    <3>2. QED
      BY <3>1, SubsetIsNumbered
  <2>2. PICK e : e = Latest(R)
    OBVIOUS
  <2>3. e \in R /\ \A f \in R : f.server_seq <= e.server_seq
    BY <1>8, <2>1, <2>2, LatestExists
  <2>4. e \in C /\ CellKey(e) = k /\ LatestReport(C, e)
    BY <2>3 DEF ReportsOn, LatestReport
  <2>5. latest[k].status = e.payload.status
    <3>1. latest[CellKey(e)] = ReportOf(e)
      BY <1>2, <2>4 DEF HoldsReports
    <3>2. QED
      BY <2>4, <3>1 DEF ReportOf
  <2>6. QED
    BY <1>5, <1>7, <1>8, <2>2, <2>5 DEF StatusByRule
<1>9. CASE ReportsOn(E, k) = {}
  BY <1>5, <1>6, <1>7, <1>9 DEF StatusByRule
<1>10. QED
  BY <1>8, <1>9

LEMMA KeysOfCellState ==
    ASSUME NEW E, Numbered(E), InScope(E), NEW k \in DOMAIN FoldCellState(E)
    PROVE  k = <<Incident, k[2]>>
<1> DEFINE C == OfType(E, "CELL_STATUS_REPORTED")
<1>1. PICK held, latest : held = FoldAssignmentState(E) /\ latest = LatestReports(E)
  OBVIOUS
<1>2. HoldsState(E, held) /\ HoldsReports(C, latest)
  BY <1>1, AssignmentsAreFolded, ReportsAreFolded
<1>3. k \in DOMAIN held \cup DOMAIN latest
  BY <1>1 DEF FoldCellState, Update
<1>4. CASE k \in DOMAIN held
  BY <1>2, <1>4 DEF HoldsState
<1>5. CASE k \in DOMAIN latest
  BY <1>2, <1>5 DEF HoldsReports, CellKey, InScope, OfType
<1>6. QED
  BY <1>3, <1>4, <1>5

-----------------------------------------------------------------------------
(* The log.                                                                *)

\* The log is numbered by its rows.
LEMMA LogIsNumbered == ReadInv => Numbered(Log)
<1> SUFFICES ASSUME ReadInv PROVE Numbered(Log)
  OBVIOUS
<1>1. IsFiniteSet(Log)
  BY FiniteLog DEF LogIsFinite
<1>2. ASSUME NEW e \in Log
      PROVE  \E k \in Committed : /\ e = [content[k] EXCEPT !.server_seq = row[k]]
                                  /\ e.server_seq = row[k] /\ row[k] \in Nat
  <2>1. PICK k \in Committed : /\ e = [content[k] EXCEPT !.server_seq = row[k]]
                               /\ content[k] \in RawEvents
    BY LogIs
  <2>2. "server_seq" \in DOMAIN content[k]
    BY <2>1, ReadModelsAssumption
  <2>3. row[k] \in Nat
    BY <2>1, EventTableAssumption DEF ReadInv, TableInv, TableTypeOK, Committed
  <2>4. QED
    BY <2>1, <2>2, <2>3
<1>3. ASSUME NEW e \in Log, NEW f \in Log, e.server_seq = f.server_seq PROVE e = f
  <2>1. PICK k \in Committed : /\ e = [content[k] EXCEPT !.server_seq = row[k]]
                               /\ e.server_seq = row[k]
    BY <1>2
  <2>2. PICK l \in Committed : /\ f = [content[l] EXCEPT !.server_seq = row[l]]
                               /\ f.server_seq = row[l]
    BY <1>2
  <2>3. k = l
    BY <1>3, <2>1, <2>2 DEF ReadInv, TableInv, NumbersAreUnique, Committed
  <2>4. QED
    BY <2>1, <2>2, <2>3
<1>4. QED
  BY <1>1, <1>2, <1>3 DEF Numbered

LEMMA ScopedLog == ReadInv => Numbered(Scoped(Log)) /\ InScope(Scoped(Log))
BY LogIsNumbered, SubsetIsNumbered DEF Scoped, InScope

\* What the folds compute one event after the other is what the rules say of the set of
\* events, for every log (folds.py rules 3, 4, 6).
THEOREM FoldsAreTheRules == ReadModelsSpec => []FoldsFollowTheRules
<1>1. ReadInv => FoldsFollowTheRules
  <2> SUFFICES ASSUME ReadInv PROVE FoldsFollowTheRules
    OBVIOUS
  <2>1. PICK E : E = Scoped(Log)
    OBVIOUS
  <2>2. Numbered(E) /\ InScope(E)
    BY <2>1, ScopedLog
  <2>3. PICK state, held, teams : /\ state = FoldCellState(E)
                                  /\ held = FoldAssignmentState(E)
                                  /\ teams = FoldTeamState(E)
    OBVIOUS
  <2>4. \A k \in DOMAIN state \cup {<<Incident, c>> : c \in 0..2} : k = <<Incident, k[2]>>
    BY <2>2, <2>3, KeysOfCellState
  <2>5. \A k \in DOMAIN state \cup {<<Incident, c>> : c \in 0..2} :
           StatusByRule(E, k) = IF k \in DOMAIN state THEN state[k].status ELSE "UNSEARCHED"
    BY <2>2, <2>3, <2>4, CellStateFollowsTheRules
  <2>6. \A k \in DOMAIN held : HolderByRule(E, k) = held[k].team
    BY <2>2, <2>3, AssignmentsAreFolded DEF HoldsState
  <2>7. \A t \in DOMAIN teams : teams[t].status =
           IF StatusesOf(E, t) = {} THEN "None" ELSE Latest(StatusesOf(E, t)).payload.team_status
    BY <2>2, <2>3, TeamsAreFolded DEF HoldsTeams, LastStatus
  <2>8. QED
    BY <2>1, <2>3, <2>5, <2>6, <2>7 DEF FoldsFollowTheRules
<1>2. QED
  BY <1>1, AlwaysRead, PTL

-----------------------------------------------------------------------------
(* The payloads of the log.                                                *)

\* Every event that was let in has a valid payload.
IsValid(E) == \A e \in E : e.type \in EventType /\ PayloadMatchesType(e.type, e.payload)

LEMMA LogIsValid == ReadInv => IsValid(Log)
<1> SUFFICES ASSUME ReadInv, NEW e \in Log
             PROVE  e.type \in EventType /\ PayloadMatchesType(e.type, e.payload)
  BY DEF IsValid
<1>1. PICK k \in Committed : /\ WasJudged(content[k])
                             /\ e.type = content[k].type /\ e.payload = content[k].payload
  BY LogIs
<1>2. ParseEvent(content[k]) = "ok"
  BY <1>1 DEF WasJudged, Judge
<1>3. content[k].type \in EventType /\ IsCanonical(content[k])
  BY <1>2 DEF ParseEvent
<1>4. QED
  BY <1>1, <1>3 DEF IsCanonical

LEMMA ValidReport ==
    ASSUME NEW e, e.type = "CELL_STATUS_REPORTED", PayloadMatchesType(e.type, e.payload)
    PROVE  e.payload.cell_index \in 0..MaxCellIndex
<1>1. "cell_index" \in DOMAIN e.payload
  BY DEF PayloadMatchesType, Required
<1>2. FieldIsValid("cell_index", e.payload.cell_index)
  BY <1>1 DEF PayloadMatchesType
<1>3. QED
  BY <1>2 DEF FieldIsValid

LEMMA ValidIssue ==
    ASSUME NEW e, e.type = "ASSIGNMENT_ISSUED", PayloadMatchesType(e.type, e.payload)
    PROVE  e.payload.cell_ids \subseteq 0..MaxCellIndex
<1>1. "cell_ids" \in DOMAIN e.payload
  BY DEF PayloadMatchesType, Required
<1>2. FieldIsValid("cell_ids", e.payload.cell_ids)
  BY <1>1 DEF PayloadMatchesType
<1>3. QED
  BY <1>2 DEF FieldIsValid

LEMMA ValidGrid ==
    ASSUME NEW e, e.type = "GRID_GENERATED", PayloadMatchesType(e.type, e.payload)
    PROVE  /\ e.payload.rows \in 1..MaxCells /\ e.payload.cols \in 1..MaxCells
           /\ e.payload.rows * e.payload.cols \in 1..MaxCells
<1>1. "rows" \in DOMAIN e.payload /\ "cols" \in DOMAIN e.payload
  BY DEF PayloadMatchesType, Required
<1>2. /\ FieldIsValid("rows", e.payload.rows) /\ FieldIsValid("cols", e.payload.cols)
      /\ e.payload.rows * e.payload.cols <= MaxCells
  BY <1>1 DEF PayloadMatchesType
<1>3. e.payload.rows \in 1..MaxCells /\ e.payload.cols \in 1..MaxCells
  BY <1>2 DEF FieldIsValid
<1>4. PICK r, c, m : r = e.payload.rows /\ c = e.payload.cols /\ m = e.payload.rows * e.payload.cols
  OBVIOUS
<1>5. r \in 1..MaxCells /\ c \in 1..MaxCells /\ m = r * c /\ m <= MaxCells
  <2>1. r \in 1..MaxCells /\ c \in 1..MaxCells
    BY <1>3, <1>4
  <2>2. m <= MaxCells
    BY <1>2, <1>4
  <2>3. m = r * c
    BY <1>4
  <2>4. QED
    BY <2>1, <2>2, <2>3
<1>6. MaxCells \in Nat
  BY DEF MaxCells
<1>7. m \in 1..MaxCells
  <2>1. r \in Nat /\ c \in Nat /\ r >= 1 /\ c >= 1
    BY <1>5, <1>6
  <2>2. r * c \in Nat /\ r * c >= 1
    BY <2>1
  <2>3. QED
    BY <1>5, <1>6, <2>2
<1>8. QED
  BY <1>3, <1>4, <1>7

\* The cells that the folds know of are cells that an event may name.
LEMMA CellsAreRepresentable ==
    ASSUME NEW E, Numbered(E), InScope(E), IsValid(E), NEW k \in DOMAIN FoldCellState(E)
    PROVE  k = <<Incident, k[2]>> /\ k[2] \in 0..MaxCellIndex
<1> DEFINE C == OfType(E, "CELL_STATUS_REPORTED")
<1>1. PICK held, latest : held = FoldAssignmentState(E) /\ latest = LatestReports(E)
  OBVIOUS
<1>2. HoldsState(E, held) /\ HoldsReports(C, latest)
  BY <1>1, AssignmentsAreFolded, ReportsAreFolded
<1>3. k \in DOMAIN held \cup DOMAIN latest
  BY <1>1 DEF FoldCellState, Update
<1>4. k = <<Incident, k[2]>>
  BY KeysOfCellState
<1>5. CASE k \in DOMAIN held
  <2>1. About(E, k) # {}
    BY <1>2, <1>4, <1>5 DEF HoldsState
  <2>2. PICK e \in About(E, k) : TRUE
    BY <2>1
  <2> DEFINE B == IssuesBefore(E, e)
  <2>3. B # {} /\ k[2] \in Latest(B).payload.cell_ids
    BY <2>2 DEF About
  <2>4. B \subseteq OfType(E, "ASSIGNMENT_ISSUED") /\ B \subseteq E
    BY DEF IssuesBefore, OfType
  <2> HIDE DEF B
  <2>5. Latest(B) \in OfType(E, "ASSIGNMENT_ISSUED")
    BY <2>3, <2>4, SubsetIsNumbered, LatestExists
  <2>6. QED
    BY <1>4, <2>3, <2>5, ValidIssue DEF OfType, IsValid
<1>6. CASE k \in DOMAIN latest
  <2>1. PICK e \in C : k = CellKey(e)
    BY <1>2, <1>6 DEF HoldsReports
  <2>2. k[2] = e.payload.cell_index
    BY <2>1 DEF CellKey
  <2>3. QED
    BY <1>4, <2>1, <2>2, ValidReport DEF OfType, IsValid
<1>7. QED
  BY <1>3, <1>5, <1>6

-----------------------------------------------------------------------------
(* Counting.                                                               *)

AnyOf(S) == CHOOSE x \in S : TRUE

\* The recursion of MapThenSumSet over the elements of D.
IsSum(h, D, f) ==
    h = [S \in SUBSET D |-> IF S = {} THEN 0 ELSE f[AnyOf(S)] + h[S \ {AnyOf(S)}]]

LEMMA SumExists ==
    ASSUME NEW D, IsFiniteSet(D), NEW f \in [D -> Nat]
    PROVE  \E h : IsSum(h, D, f)
<1> DEFINE pick == [S \in SUBSET D |-> AnyOf(S)]
           step == [q \in D \X Nat |-> f[q[1]] + q[2]]
<1>1. \A S \in SUBSET D : S # {} => pick[S] \in S
  BY DEF AnyOf
<1>2. step \in [D \X Nat -> Nat] /\ \A x \in D, m \in Nat : step[<<x, m>>] = f[x] + m
  OBVIOUS
<1>3. \A S \in SUBSET D : pick[S] = AnyOf(S)
  OBVIOUS
<1>4. 0 \in Nat
  OBVIOUS
<1> HIDE DEF pick, step
<1>5. PICK h : IsFold(h, D, Nat, 0, pick, step)
  BY <1>1, <1>2, <1>4, FoldExists
<1>6. ASSUME NEW S \in SUBSET D, S # {}
      PROVE  h[S] = f[AnyOf(S)] + h[S \ {AnyOf(S)}]
  <2>1. pick[S] \in D /\ h[S \ {pick[S]}] \in Nat
    BY <1>1, <1>5, <1>6 DEF IsFold
  <2>2. h[S] = f[pick[S]] + h[S \ {pick[S]}]
    BY <1>2, <1>5, <1>6, <2>1 DEF IsFold
  <2>3. QED
    BY <1>3, <2>2
<1>7. h \in [SUBSET D -> Nat] /\ h[{}] = 0
  BY <1>5 DEF IsFold
<1>8. QED
  BY <1>6, <1>7 DEF IsSum

\* The elements of K whose class is in S.
InClass(K, class, S) == {k \in K : class[k] \in S}

\* f counts the elements of each class.
CountsClasses(f, K, class, D) == \A d \in D : f[d] = Cardinality(InClass(K, class, {d}))

\* The counts of the classes of a set, summed, are the count of all of them.
LEMMA ClassesAddUp ==
    ASSUME NEW K, IsFiniteSet(K), NEW class, NEW D, IsFiniteSet(D),
           NEW f, CountsClasses(f, K, class, D),
           NEW h, IsSum(h, D, f)
    PROVE  h[D] = Cardinality(InClass(K, class, D))
<1> DEFINE In(S) == InClass(K, class, S)
           T == {n \in Nat : \A S \in SUBSET D : Cardinality(S) = n => h[S] = Cardinality(In(S))}
<1>1. \A S \in SUBSET D : IsFiniteSet(S) /\ Cardinality(S) \in Nat
  BY SubsetIsSmaller
<1>2. \A S : IsFiniteSet(In(S)) /\ Cardinality(In(S)) \in Nat
  BY SubsetIsSmaller DEF InClass
<1>3. 0 \in T
  <2>1. \A S \in SUBSET D : Cardinality(S) = 0 => S = {}
    BY <1>1, FS_EmptySet
  <2>2. In({}) = {}
    BY DEF InClass
  <2>3. h[{}] = Cardinality(In({}))
    BY <2>2, FS_EmptySet DEF IsSum
  <2> HIDE DEF In
  <2>4. QED
    BY <2>1, <2>3
<1>4. ASSUME NEW n \in Nat, n \in T PROVE n + 1 \in T
  <2>1. SUFFICES ASSUME NEW S \in SUBSET D, Cardinality(S) = n + 1
                 PROVE  h[S] = Cardinality(In(S))
    OBVIOUS
  <2>2. S # {}
    BY <2>1, FS_EmptySet
  <2>3. PICK d \in S : d = AnyOf(S)
    BY <2>2 DEF AnyOf
  <2> DEFINE R == S \ {d}
             B == In({d})
  <2>4. R \in SUBSET D /\ Cardinality(R) = n
    <3>1. IsFiniteSet(S) /\ Cardinality(R) = Cardinality(S) - 1
      BY <1>1, FS_RemoveElement
    <3>2. QED
      BY <2>1, <3>1
  <2>5. h[R] = Cardinality(In(R))
    <3> HIDE DEF R, In
    <3>1. QED
      BY <1>4, <2>4
  <2>6. h[S] = f[d] + h[R]
    BY <2>2, <2>3 DEF IsSum
  <2>7. f[d] = Cardinality(B)
    BY <2>3 DEF CountsClasses
  <2>8. In(S) = In(R) \cup B /\ In(R) \cap B = {}
    BY <2>3 DEF InClass
  <2>9. IsFiniteSet(B) /\ Cardinality(B) \in Nat
    BY <1>2
  <2> HIDE DEF In, R, B
  <2>10. Cardinality(In(S)) = Cardinality(In(R)) + Cardinality(B) - Cardinality(In(R) \cap B)
    BY <1>2, <2>8, <2>9, FS_Union
  <2>11. Cardinality(In(R) \cap B) = 0
    BY <2>8, FS_EmptySet
  <2>12. QED
    BY <1>2, <2>5, <2>6, <2>7, <2>9, <2>10, <2>11
<1> HIDE DEF T
<1>5. Cardinality(D) \in T
  BY <1>1, <1>3, <1>4, NatSet
<1>6. QED
  BY <1>5 DEF T

-----------------------------------------------------------------------------
(* Coverage.                                                               *)

CoverageStatuses == {"SEARCHED", "IN_PROGRESS", "NEEDS_RESEARCH", "ASSIGNED"}

\* A grid's cells are counted in the numbers.
LEMMA GridTotalIsANumber ==
    ASSUME NEW E, Numbered(E), IsValid(E), NEW i
    PROVE  GridTotal(E, i) \in Nat
<1> DEFINE C == OfType(E, "GRID_GENERATED")
           n == Cardinality(C)
           s == Ordered(C)
           Resize(m, e) == IF e.incident = i THEN e.payload.rows * e.payload.cols ELSE m
           op == [q \in Nat \X C |-> Resize(q[1], q[2])]
           Solves(h) == h = [S \in SUBSET (1..n) |->
                                IF S = {} THEN 0 ELSE Resize(h[S \ {Max(S)}], s[Max(S)])]
           h == CHOOSE g : Solves(g)
<1>1. Numbered(C)
  BY SubsetIsNumbered DEF OfType
<1>2. n = Cardinality(C) /\ s = Ordered(C)
  OBVIOUS
<1>3. n \in Nat /\ s \in [1..n -> C]
  BY <1>1, OrderedIs
<1>4. op \in [Nat \X C -> Nat] /\ \A v \in Nat, e \in C : op[<<v, e>>] = Resize(v, e)
  <2>1. \A e \in C : e.payload.rows * e.payload.cols \in Nat
    <3>1. SUFFICES ASSUME NEW e \in C PROVE e.payload.rows * e.payload.cols \in Nat
      OBVIOUS
    <3>2. e.payload.rows * e.payload.cols \in 1..MaxCells
      BY ValidGrid DEF OfType, IsValid
    <3>3. QED
      BY <3>2
  <2>2. QED
    BY <2>1
<1>5. GridTotal(E, i) = h[1..n]
  <2>1. DOMAIN s = 1..n
    BY <1>3
  <2>2. QED
    BY <2>1 DEF GridTotal, FoldLeft, MapThenFoldSet
<1> HIDE DEF op
<1>6. Solves(h)
  <2>1. PICK g : IsLoop(g, n, Nat, 0, s, op)
    <3>1. 0 \in Nat
      OBVIOUS
    <3> HIDE DEF n, s, C
    <3>2. QED
      BY <1>3, <1>4, <3>1, LoopExists
  <2>2. ASSUME NEW S \in SUBSET (1..n), S # {} PROVE g[S] = Resize(g[S \ {Max(S)}], s[Max(S)])
    <3>1. Max(S) \in 1..n
      BY <1>3, <2>2, MaxOfIndices
    <3>2. s[Max(S)] \in C /\ g[S \ {Max(S)}] \in Nat
      BY <1>3, <2>1, <3>1 DEF IsLoop
    <3> HIDE DEF Resize, C
    <3>3. QED
      BY <1>4, <2>1, <2>2, <3>2 DEF IsLoop
  <2>3. Solves(g)
    BY <2>1, <2>2 DEF IsLoop
  <2> HIDE DEF Solves
  <2>4. QED
    BY <2>3
<1>7. /\ h[{}] = 0
      /\ \A S \in SUBSET (1..n) : S # {} => h[S] = Resize(h[S \ {Max(S)}], s[Max(S)])
  BY <1>6
<1> HIDE DEF h, Solves, n, s, C, Resize
<1>8. ASSUME NEW S \in SUBSET (1..n), S # {}, h[S \ {Max(S)}] \in Nat
      PROVE  h[S] = op[<<h[S \ {Max(S)}], s[Max(S)]>>]
  <2>1. s[Max(S)] \in C
    BY <1>3, <1>8, MaxOfIndices
  <2>2. QED
    BY <1>4, <1>7, <1>8, <2>1
<1>9. RunsTo(h, n, Nat, 0, s, op)
  BY <1>7, <1>8 DEF RunsTo
<1>10. PICK p : IsRun(p, h, n, Nat, 0, s, op)
  <2>1. 0 \in Nat
    OBVIOUS
  <2>2. QED
    BY <1>3, <1>4, <1>9, <2>1, LoopValue
<1>11. QED
  BY <1>3, <1>5, <1>10 DEF IsRun

\* max(0, total - counted)
LEMMA RestIs ==
    ASSUME NEW total \in Nat, NEW counted \in Nat
    PROVE  /\ counted + Max({0, total - counted}) >= total
           /\ counted <= total => counted + Max({0, total - counted}) = total
<1> DEFINE T == {0, total - counted}
<1>1. \E x \in T : \A y \in T : x >= y
  <2>1. CASE total - counted >= 0
    BY <2>1
  <2>2. CASE ~(total - counted >= 0)
    BY <2>2
  <2>3. QED
    BY <2>1, <2>2
<1>2. Max(T) \in T /\ \A y \in T : Max(T) >= y
  <2> HIDE DEF T
  <2>1. QED
    BY <1>1 DEF Max
<1>3. PICK m : m = Max(T)
  OBVIOUS
<1>4. m \in {0, total - counted} /\ m >= 0 /\ m >= total - counted
  BY <1>2, <1>3
<1>5. counted + m >= total /\ (counted <= total => counted + m = total)
  BY <1>4
<1>6. QED
  BY <1>3, <1>5

\* The counts of the statuses add up to the number of the cells that have one of them.
LEMMA CountsAddUp ==
    ASSUME NEW E, NEW i, NEW state, state = FoldCellState(E), IsFiniteSet(DOMAIN state),
           NEW K, K = {k \in DOMAIN state : k[1] = i}
    PROVE  CellsIn(Counts(E, i), DOMAIN Counts(E, i)) =
             Cardinality({k \in K : state[k].status \in CoverageStatuses})
<1> DEFINE D == CoverageStatuses
           class == [k \in K |-> state[k].status]
           f == [d \in D |-> Cardinality({k \in K : class[k] = d})]
           h == CHOOSE g : IsSum(g, D, f)
<1>1. IsFiniteSet(K)
  BY SubsetIsSmaller
<1>2. IsFiniteSet(D)
  <2>1. D = ((({} \cup {"SEARCHED"}) \cup {"IN_PROGRESS"}) \cup {"NEEDS_RESEARCH"}) \cup {"ASSIGNED"}
    BY DEF CoverageStatuses
  <2>2. QED
    BY <2>1, FS_EmptySet, FS_AddElement
<1>3. f \in [D -> Nat]
  BY <1>1, SubsetIsSmaller
<1>4. Counts(E, i) = f
  <2>1. \A d \in D : {k \in DOMAIN state : k[1] = i /\ state[k].status = d} = {k \in K : class[k] = d}
    OBVIOUS
  <2> HIDE DEF class
  <2>2. QED
    BY <2>1 DEF Counts, CoverageStatuses
<1>5. DOMAIN f = D
  OBVIOUS
<1> HIDE DEF f, D
<1>6. CellsIn(f, D) = h[D]
  BY DEF CellsIn, MapThenSumSet, MapThenFoldSet, IsSum, AnyOf
<1>7. IsSum(h, D, f)
  BY <1>2, <1>3, SumExists
<1> HIDE DEF h
<1>8. h[D] = Cardinality(InClass(K, class, D))
  <2>1. \A d \in D : InClass(K, class, {d}) = {k \in K : class[k] = d}
    BY DEF InClass
  <2>2. \A d \in D : f[d] = Cardinality({k \in K : class[k] = d})
    BY DEF f
  <2> HIDE DEF class
  <2>3. \A d \in D : f[d] = Cardinality(InClass(K, class, {d}))
    BY <2>1, <2>2
  <2>4. CountsClasses(f, K, class, D)
    BY <2>3 DEF CountsClasses
  <2>5. QED
    BY <1>1, <1>2, <1>7, <2>4, ClassesAddUp
<1>9. InClass(K, class, D) = {k \in K : state[k].status \in CoverageStatuses}
  BY DEF D, InClass
<1>10. QED
  BY <1>4, <1>5, <1>6, <1>8, <1>9

\* The counts of an incident add up to its grid, or to more if a cell was named that the grid
\* does not have, for every log (fold_coverage_metrics).
THEOREM CoverageIsWhole == ReadModelsSpec => []CoverageAddsUp
<1>1. ReadInv => CoverageAddsUp
  <2> SUFFICES ASSUME ReadInv PROVE CoverageAddsUp
    OBVIOUS
  <2>1. PICK E : E = Scoped(Log)
    OBVIOUS
  <2>2. Numbered(E) /\ InScope(E) /\ IsValid(E)
    BY <2>1, ScopedLog, LogIsValid DEF Scoped, IsValid
  <2>3. PICK state : state = FoldCellState(E)
    OBVIOUS
  <2>4. \A k \in DOMAIN state : k = <<Incident, k[2]>> /\ k[2] \in 0..MaxCellIndex
    BY <2>2, <2>3, CellsAreRepresentable
  <2> DEFINE all == {<<Incident, c>> : c \in 0..MaxCellIndex}
             K == {k \in DOMAIN state : k[1] = Incident}
             L == {k \in K : state[k].status \in CoverageStatuses}
             total == GridTotal(E, Incident)
             counted == Cardinality(L)
  <2>5. IsFiniteSet(DOMAIN state)
    <3>1. DOMAIN state \subseteq all
      BY <2>4
    <3>2. IsFiniteSet(all)
      <4> DEFINE f == [c \in 0..MaxCellIndex |-> <<Incident, c>>]
      <4>1. f \in Surjection(0..MaxCellIndex, all)
        BY DEF Surjection
      <4>2. IsFiniteSet(0..MaxCellIndex)
        <5>1. 0 \in Int /\ MaxCellIndex \in Int
          BY DEF MaxCellIndex, MaxCells
        <5>2. QED
          BY <5>1, FS_Interval
      <4> HIDE DEF f, all
      <4>3. QED
        BY <4>1, <4>2, FS_Surjection
    <3>3. QED
      BY <3>1, <3>2, SubsetIsSmaller
  <2>6. CellsIn(Counts(E, Incident), DOMAIN Counts(E, Incident)) = counted
    <3>1. PICK M : M = K
      OBVIOUS
    <3>2. M = {k \in DOMAIN state : k[1] = Incident}
      BY <3>1
    <3> HIDE DEF K
    <3>3. QED
      BY <2>3, <2>5, <3>1, <3>2, CountsAddUp
  <2>7. total \in Nat
    BY <2>2, GridTotalIsANumber
  <2>8. counted \in Nat
    BY <2>5, SubsetIsSmaller
  <2>9. CellsOf(Log) = {k[2] : k \in DOMAIN state}
    BY <2>1, <2>3 DEF CellsOf
  <2>10. ASSUME CellsOf(Log) \subseteq 0..(total - 1) PROVE counted <= total
    <3> DEFINE g == [k \in L |-> k[2]]
    <3>1. g \in Injection(L, 0..(total - 1))
      <4>1. g \in [L -> 0..(total - 1)]
        BY <2>9, <2>10
      <4>2. \A k, l \in L : k[2] = l[2] => k = l
        BY <2>4
      <4>3. QED
        BY <4>1, <4>2 DEF Injection, IsInjective
    <3>2. IsFiniteSet(0..(total - 1)) /\ Cardinality(0..(total - 1)) = total
      <4>1. 0 \in Int /\ total - 1 \in Int
        BY <2>7
      <4>2. /\ IsFiniteSet(0..(total - 1))
            /\ Cardinality(0..(total - 1)) = IF 0 > total - 1 THEN 0 ELSE (total - 1) - 0 + 1
        BY <4>1, FS_Interval
      <4>3. QED
        BY <2>7, <4>2
    <3> HIDE DEF g, L
    <3>3. QED
      BY <3>1, <3>2, FS_Injection
  <2>11. FoldCoverageMetrics(E, Incident) =
           [total |-> total, counts |-> Counts(E, Incident),
            unsearched |-> Max({0, total - counted})]
    BY <2>6 DEF FoldCoverageMetrics, Unsearched
  <2> HIDE DEF total, counted
  <2>12. /\ counted + Max({0, total - counted}) >= total
         /\ counted <= total => counted + Max({0, total - counted}) = total
    BY <2>7, <2>8, RestIs
  <2>13. PICK c : c = FoldCoverageMetrics(E, Incident)
    OBVIOUS
  <2>14. /\ c.total = total
         /\ CellsIn(c.counts, DOMAIN c.counts) + c.unsearched = counted + Max({0, total - counted})
    BY <2>6, <2>11, <2>13
  <2>15. QED
    BY <2>1, <2>10, <2>12, <2>13, <2>14 DEF CoverageAddsUp
<1>2. QED
  BY <1>1, AlwaysRead, PTL
=============================================================================
