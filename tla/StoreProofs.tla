----------------------------- MODULE StoreProofs -----------------------------
(***************************************************************************)
(* What the steps of opening a store do to it, one at a time: each leaves  *)
(* a store by the rules (IsStore), brings about its own end, undoes none   *)
(* of the ends before it, and finds nothing to do where its end is reached *)
(* already.  So opening can be taken up again wherever it stopped.         *)
(***************************************************************************)
EXTENDS StoreOpen, FiniteSetTheorems, TLAPS

(***************************************************************************)
(* Numbers                                                                 *)
(***************************************************************************)
Below == {p \in Nat \X Nat : p[1] < p[2]}

LEMMA LeastExists ==
  ASSUME NEW S \in SUBSET Nat, S # {}
  PROVE  \E x \in S : \A y \in S : x <= y
<1>1. IsWellFoundedOn(Below, Nat)
  BY NatLessThanWellFounded DEF OpToRel, Below
<1>2. PICK x \in S : \A y \in S : ~ (<<y, x>> \in Below)
  BY WFMin, <1>1, Zenon
<1>3. ASSUME NEW y \in S PROVE x <= y
  <2>1. <<y, x>> \notin Below
    BY <1>2, Zenon
  <2>2. x \in Nat /\ y \in Nat
    OBVIOUS
  <2> QED
    BY <2>1, <2>2 DEF Below
<1> QED
  BY <1>3

\* The numbers of a sequence are bounded.
BoundedUpTo(s, k) == \E u \in Nat : \A i \in 1..k : s[i] + 1 <= u

LEMMA OneMoreIsBounded ==
  ASSUME NEW s \in Seq(Nat), NEW k \in 1..Len(s), BoundedUpTo(s, k - 1)
  PROVE  BoundedUpTo(s, k)
<1>1. PICK u \in Nat : \A i \in 1..(k - 1) : s[i] + 1 <= u
  BY DEF BoundedUpTo
<1>2. k \in Nat /\ \A i \in 1..k : s[i] \in Nat
  OBVIOUS
<1>3. PICK v \in Nat : u <= v /\ s[k] + 1 <= v
  <2>1. s[k] \in Nat
    BY <1>2
  <2>2. u <= u + s[k] + 1 /\ s[k] + 1 <= u + s[k] + 1 /\ u + s[k] + 1 \in Nat
    BY <2>1
  <2> QED
    BY <2>2
<1>4. ASSUME NEW i \in 1..k PROVE s[i] + 1 <= v
  <2>1. i = k \/ i \in 1..(k - 1)
    BY <1>2
  <2> QED
    BY <1>1, <1>2, <1>3, <2>1
<1> QED
  BY <1>4 DEF BoundedUpTo

LEMMA SequencesAreBounded ==
  ASSUME NEW s \in Seq(Nat)
  PROVE  \E u \in Nat : \A i \in DOMAIN s : s[i] + 1 <= u
<1> DEFINE bad == {k \in 0..Len(s) : ~BoundedUpTo(s, k)}
<1>1. BoundedUpTo(s, 0)
  <2>1. \A i \in 1..0 : s[i] + 1 <= 0
    OBVIOUS
  <2> QED
    BY <2>1 DEF BoundedUpTo
<1>2. bad = {}
  <2> SUFFICES ASSUME bad # {} PROVE FALSE
    OBVIOUS
  <2>1. PICK k \in bad : \A j \in bad : k <= j
    <3>1. bad \in SUBSET Nat
      OBVIOUS
    <3> HIDE DEF bad
    <3> QED
      BY <3>1, LeastExists
  <2>2. k \in 1..Len(s) /\ k - 1 \in 0..Len(s)
    BY <1>1
  <2>3. BoundedUpTo(s, k - 1)
    BY <2>1, <2>2
  <2> QED
    BY <2>2, <2>3, OneMoreIsBounded
<1>3. BoundedUpTo(s, Len(s))
  BY <1>2
<1>4. DOMAIN s = 1..Len(s)
  OBVIOUS
<1> QED
  BY <1>3, <1>4 DEF BoundedUpTo

\* The greatest port that is wired, counted from one, or none.
LEMMA WiredIsGreatest ==
  ASSUME NEW s, s.wires \in Seq(Nat)
  PROVE  /\ Wired(s) \in Nat
         /\ \A w \in DOMAIN s.wires : s.wires[w] < Wired(s)
         /\ Wired(s) # 0 => \E w \in DOMAIN s.wires : Wired(s) = s.wires[w] + 1
<1> DEFINE S == {0} \cup {s.wires[w] + 1 : w \in DOMAIN s.wires}
           bounds == {u \in Nat : \A n \in S : n <= u}
<1>1. S \in SUBSET Nat /\ 0 \in S
  OBVIOUS
<1>2. bounds \in SUBSET Nat /\ bounds # {}
  <2>1. PICK u \in Nat : \A w \in DOMAIN s.wires : s.wires[w] + 1 <= u
    BY SequencesAreBounded
  <2>2. u \in bounds
    BY <2>1
  <2> QED
    BY <2>2
<1>3. PICK u \in bounds : \A v \in bounds : u <= v
  BY <1>2, LeastExists
<1>4. u \in S
  <2> HIDE DEF S
  <2> SUFFICES ASSUME u \notin S PROVE FALSE
    OBVIOUS
  <2>1. \A n \in S : n <= u - 1
    BY <1>1, <1>3
  <2>2. u - 1 \in bounds
    BY <1>1, <1>3, <2>1
  <2> QED
    BY <1>3, <2>2
<1>5. \E x \in S : \A y \in S : x >= y
  <2> HIDE DEF S
  <2> QED
    BY <1>1, <1>3, <1>4
<1>6. Wired(s) = Max(S)
  BY DEF Wired
<1>7. Max(S) \in S /\ \A y \in S : Max(S) >= y
  <2> HIDE DEF S
  <2> QED
    BY <1>5 DEF Max
<1>8. \A w \in DOMAIN s.wires : s.wires[w] + 1 \in S /\ s.wires[w] \in Nat
  OBVIOUS
<1>11. Wired(s) # 0 => \E w \in DOMAIN s.wires : Wired(s) = s.wires[w] + 1
  BY <1>6, <1>7
<1> HIDE DEF S, bounds
<1>9. Wired(s) \in Nat
  BY <1>1, <1>6, <1>7
<1>10. ASSUME NEW w \in DOMAIN s.wires PROVE s.wires[w] < Wired(s)
  BY <1>6, <1>7, <1>8, <1>9
<1> QED
  BY <1>9, <1>10, <1>11

\* How many numbers there are up to one, from one and from zero.
LEMMA CountUpTo ==
  \A n \in Nat : /\ IsFiniteSet(1..n) /\ Cardinality(1..n) = n
                 /\ IsFiniteSet(0..(n - 1)) /\ Cardinality(0..(n - 1)) = n
<1> SUFFICES ASSUME NEW n \in Nat
             PROVE  /\ IsFiniteSet(1..n) /\ Cardinality(1..n) = n
                    /\ IsFiniteSet(0..(n - 1)) /\ Cardinality(0..(n - 1)) = n
  OBVIOUS
<1>1. IsFiniteSet(1..n) /\ Cardinality(1..n) = IF 1 > n THEN 0 ELSE n - 1 + 1
  BY FS_Interval
<1>2. n - 1 \in Int
  OBVIOUS
<1>3. /\ IsFiniteSet(0..(n - 1))
      /\ Cardinality(0..(n - 1)) = IF 0 > n - 1 THEN 0 ELSE n - 1 - 0 + 1
  BY <1>2, FS_Interval
<1> QED
  BY <1>1, <1>3

\* Ranked by any strict order of theirs, the members of a finite set get all the numbers
\* from zero, each one of them.
LEMMA RanksAreDense ==
  ASSUME NEW S, IsFiniteSet(S), NEW lower, lower \in [S -> SUBSET S],
         \A f \in S : f \notin lower[f],
         \A f, g \in S : f # g => f \in lower[g] \/ g \in lower[f],
         \A f, g, h \in S : f \in lower[g] /\ g \in lower[h] => f \in lower[h]
  PROVE  {Cardinality(lower[f]) : f \in S} = 0..(Cardinality(S) - 1)
<1> DEFINE n == Cardinality(S)
           rank == [f \in S |-> Cardinality(lower[f])]
           T == {Cardinality(lower[f]) : f \in S}
<1>1. n \in Nat
  BY FS_CardinalityType
<1>2. \A f \in S : IsFiniteSet(lower[f]) /\ Cardinality(lower[f]) \in Nat
  BY FS_Subset, FS_CardinalityType
<1>3. ASSUME NEW f, NEW g, f \in S, g \in S, f \in lower[g]
      PROVE  Cardinality(lower[f]) < Cardinality(lower[g])
  <2>1. lower[f] \in SUBSET lower[g]
    BY <1>3
  <2>2. lower[f] # lower[g]
    BY <1>3
  <2>3. Cardinality(lower[f]) <= Cardinality(lower[g]) /\ Cardinality(lower[f]) # Cardinality(lower[g])
    BY <1>2, <1>3, <2>1, <2>2, FS_Subset
  <2> QED
    BY <1>2, <1>3, <2>3
<1>4. ASSUME NEW f \in S PROVE Cardinality(lower[f]) \in 0..(n - 1)
  <2>1. lower[f] \in SUBSET S /\ lower[f] # S
    OBVIOUS
  <2>2. Cardinality(lower[f]) <= n /\ Cardinality(lower[f]) # n
    BY <2>1, FS_Subset
  <2> QED
    BY <1>1, <1>2, <2>2
<1>5. rank \in Surjection(S, T) /\ T \in SUBSET (0..(n - 1))
  BY <1>4 DEF Surjection
<1>6. rank \in Injection(S, T)
  <2>1. \A f, g \in S : f # g => rank[f] # rank[g]
    <3> SUFFICES ASSUME NEW f \in S, NEW g \in S, f # g PROVE rank[f] # rank[g]
      OBVIOUS
    <3> QED
      BY <1>2, <1>3
  <2>2. rank \in [S -> T]
    BY <1>5 DEF Surjection
  <2> HIDE DEF rank
  <2> QED
    BY <2>1, <2>2 DEF Injection, IsInjective
<1>7. Cardinality(T) = n
  <2> HIDE DEF rank, T
  <2> QED
    BY <1>5, <1>6, FS_Surjection
<1>8. IsFiniteSet(0..(n - 1)) /\ Cardinality(0..(n - 1)) = n
  BY <1>1, CountUpTo, Zenon
<1> HIDE DEF T, n
<1>9. 0..(n - 1) = T
  BY <1>5, <1>7, <1>8, FS_Subset
<1> QED
  BY <1>9 DEF T, n

(***************************************************************************)
(* The ends of the steps                                                   *)
(***************************************************************************)
HasParameters(s) == s.amplitude # "column" /\ (s.amplitude # "none" => s.signs # << >>)
HasDeclaredPorts(s) == ~(Wired(s) \in 2..MaxInputSigns /\ Len(s.signs) = 1)
HasPositions(s) == Has(s, "position") /\ ~InvalidPositions(s)

\* What the first n parts of Open have brought about.
UpTo(n, s) ==
    /\ n >= 1 => MissingTables(s) = {}
    /\ n >= 2 => Has(s, "model_updated_at")
    /\ n >= 3 => Has(s, "parameters_json")
    /\ n >= 4 => HasParameters(s)
    /\ n >= 5 => Has(s, "source_port")
    /\ n >= 6 => HasDeclaredPorts(s)
    /\ n >= 7 => Has(s, "project_id") /\ Unassigned(s) = {}
    /\ n >= 8 => HasPositions(s)
    /\ n >= 9 => Has(s, "mirrored")
    /\ n >= 10 => s.flows # << >>

\* Two stores that differ in revisions only.
Alike(s, u) ==
    /\ s \in Stores /\ u \in Stores
    /\ u.tables = s.tables /\ u.columns = s.columns /\ u.projects = s.projects
    /\ u.amplitude = s.amplitude /\ u.signs = s.signs /\ u.wires = s.wires
    /\ DOMAIN u.flows = DOMAIN s.flows
    /\ \A f \in DOMAIN s.flows : /\ u.flows[f].project = s.flows[f].project
                                 /\ u.flows[f].position = s.flows[f].position

LEMMA SameFields ==
  ASSUME NEW s \in Stores, NEW t \in Stores,
         t.tables = s.tables, t.columns = s.columns, t.projects = s.projects, t.flows = s.flows,
         t.amplitude = s.amplitude, t.signs = s.signs, t.wires = s.wires
  PROVE  t = s
  BY DEF Stores

SameRows(s, t) == t.projects = s.projects /\ t.flows = s.flows
SameBlocks(s, t) == t.amplitude = s.amplitude /\ t.signs = s.signs /\ t.wires = s.wires

LEMMA ColumnAdded ==
  ASSUME NEW s \in Stores, NEW c \in Columns, NEW t, t = WithColumn(s, c)
  PROVE  /\ t \in Stores /\ t.tables = s.tables /\ t.columns = s.columns \cup {c}
         /\ SameRows(s, t) /\ SameBlocks(s, t)
         /\ c \in s.columns => t = s
<1>1. /\ t \in Stores /\ t.tables = s.tables /\ t.columns = s.columns \cup {c}
      /\ SameRows(s, t) /\ SameBlocks(s, t)
  BY DEF Stores, WithColumn, SameRows, SameBlocks
<1>2. c \in s.columns => t.columns = s.columns
  BY <1>1
<1> QED
  BY <1>1, <1>2, SameFields DEF SameRows, SameBlocks

\* What a column says nothing about.
LEMMA RowsDecide ==
  ASSUME NEW s, NEW t, SameRows(s, t), SameBlocks(s, t)
  PROVE  /\ Unassigned(t) = Unassigned(s)
         /\ EmptyDefaultProjects(t) = EmptyDefaultProjects(s)
         /\ InvalidPositions(t) = InvalidPositions(s)
         /\ HasParameters(t) = HasParameters(s)
         /\ Wired(t) = Wired(s)
         /\ HasDeclaredPorts(t) = HasDeclaredPorts(s)
  BY DEF SameRows, SameBlocks, Unassigned, EmptyDefaultProjects, InvalidPositions, Siblings,
         HasParameters, Wired, HasDeclaredPorts

\* A column that is not that of the ports is none of the rules' business.
LEMMA ColumnKeepsTheRules ==
  ASSUME NEW s, IsStore(s), NEW c \in Columns \ {"source_port"}, NEW t, t = WithColumn(s, c)
  PROVE  IsStore(t)
<1>1. s \in Stores
  BY DEF IsStore
<1>2. /\ t \in Stores /\ t.tables = s.tables /\ t.columns = s.columns \cup {c}
      /\ SameRows(s, t) /\ SameBlocks(s, t)
  BY <1>1, ColumnAdded
<1>3. Has(t, "source_port") <=> Has(s, "source_port")
  BY <1>2 DEF Has
<1>4. Ports(t) = Ports(s) /\ Declarable(t) = Declarable(s)
  BY <1>2, <1>3 DEF Ports, Declarable, SameBlocks
<1> QED
  BY <1>2, <1>3, <1>4 DEF IsStore, SameRows, SameBlocks

\* What opening has come to is not lost with a column.
LEMMA ColumnKeepsTheEnds ==
  ASSUME NEW s \in Stores, NEW n \in 0..10, UpTo(n, s), NEW c \in Columns, NEW t,
         t = WithColumn(s, c)
  PROVE  UpTo(n, t) /\ Has(t, c)
<1>1. /\ t \in Stores /\ t.tables = s.tables /\ t.columns = s.columns \cup {c}
      /\ SameRows(s, t) /\ SameBlocks(s, t)
  BY ColumnAdded
<1>2. \A d : Has(s, d) => Has(t, d)
  BY <1>1 DEF Has
<1>3. MissingTables(t) = MissingTables(s)
  BY <1>1 DEF MissingTables
<1>4. t.flows = s.flows /\ Has(t, c)
  BY <1>1 DEF SameRows, Has
<1> QED
  BY <1>1, <1>2, <1>3, <1>4, RowsDecide DEF UpTo, HasPositions

(***************************************************************************)
(* The steps                                                               *)
(***************************************************************************)
LEMMA EnsureParametersJSONStep ==
  ASSUME NEW s, IsStore(s), UpTo(2, s), NEW t, t = EnsureParametersJSON(s)
  PROVE  /\ IsStore(t) /\ UpTo(3, t)
         /\ Has(s, "parameters_json") => t = s
<1>1. s \in Stores /\ "parameters_json" \in Columns \ {"source_port"}
  BY DEF IsStore, Columns
<1>2. t = WithColumn(s, "parameters_json")
  BY DEF EnsureParametersJSON
<1>3. UpTo(2, t) /\ Has(t, "parameters_json")
  BY <1>1, <1>2, ColumnKeepsTheEnds
<1>4. IsStore(t)
  BY <1>1, <1>2, ColumnKeepsTheRules
<1>5. Has(s, "parameters_json") => t = s
  BY <1>1, <1>2, ColumnAdded DEF Has
<1> QED
  BY <1>3, <1>4, <1>5 DEF UpTo

LEMMA EnsureMirroredStep ==
  ASSUME NEW s, IsStore(s), UpTo(8, s), NEW t, t = EnsureMirrored(s)
  PROVE  /\ IsStore(t) /\ UpTo(9, t)
         /\ Has(s, "mirrored") => t = s
<1>1. s \in Stores /\ "mirrored" \in Columns \ {"source_port"}
  BY DEF IsStore, Columns
<1>2. t = WithColumn(s, "mirrored")
  BY DEF EnsureMirrored
<1>3. UpTo(8, t) /\ Has(t, "mirrored")
  BY <1>1, <1>2, ColumnKeepsTheEnds
<1>4. IsStore(t)
  BY <1>1, <1>2, ColumnKeepsTheRules
<1>5. Has(s, "mirrored") => t = s
  BY <1>1, <1>2, ColumnAdded DEF Has
<1> QED
  BY <1>3, <1>4, <1>5 DEF UpTo

LEMMA EnsureLegacyBlockParametersStep ==
  ASSUME NEW s, IsStore(s), UpTo(3, s), NEW t, t = EnsureLegacyBlockParameters(s)
  PROVE  /\ IsStore(t) /\ UpTo(4, t)
         /\ HasParameters(s) => t = s
<1>1. s \in Stores
  BY DEF IsStore
<1>2. /\ t \in Stores /\ t.tables = s.tables /\ t.columns = s.columns /\ SameRows(s, t)
      /\ t.wires = s.wires
      /\ t.amplitude = IF s.amplitude = "column" THEN "json" ELSE s.amplitude
      /\ t.signs = IF s.amplitude # "none" /\ s.signs = << >> THEN <<"+">> ELSE s.signs
  <2>1. <<"+">> \in Seq({"+", "-"})
    OBVIOUS
  <2> QED
    BY <1>1, <2>1 DEF Stores, EnsureLegacyBlockParameters, SameRows
<1>3. UpTo(4, t)
  <2>1. MissingTables(t) = MissingTables(s) /\ \A c : Has(t, c) <=> Has(s, c)
    BY <1>2 DEF MissingTables, Has
  <2>2. <<"+">> # << >>
    OBVIOUS
  <2>3. HasParameters(t)
    BY <1>2, <2>2 DEF HasParameters
  <2> QED
    BY <2>1, <2>3 DEF UpTo
<1>4. IsStore(t)
  <2>1. Has(t, "source_port") <=> Has(s, "source_port")
    BY <1>2 DEF Has
  <2>2. Ports(t) = Ports(s)
    BY <1>2, <2>1 DEF Ports
  <2>3. Declarable(t) = Declarable(s)
    <3>1. Len(<<"+">>) = 1 /\ Len(<< >>) = 0
      OBVIOUS
    <3> QED
      BY <1>2, <3>1 DEF Declarable
  <2>4. t.amplitude = "none" => s.amplitude = "none"
    BY <1>2
  <2> QED
    BY <1>2, <2>1, <2>2, <2>3, <2>4 DEF IsStore, SameRows
<1>5. HasParameters(s) => t = s
  BY <1>1, <1>2, SameFields DEF HasParameters, SameRows
<1> QED
  BY <1>3, <1>4, <1>5

LEMMA EnsureConnectionPortsStep ==
  ASSUME NEW s, IsStore(s), UpTo(4, s), NEW t, t = EnsureConnectionPorts(s)
  PROVE  /\ IsStore(t) /\ UpTo(5, t)
         /\ Has(s, "source_port") => t = s
<1>1. CASE Has(s, "source_port")
  BY <1>1 DEF EnsureConnectionPorts, UpTo
<1>2. CASE ~Has(s, "source_port")
  <2> DEFINE m == WithColumn(s, "source_port")
  <2>1. s \in Stores /\ "source_port" \in Columns
    BY DEF IsStore, Columns
  <2>2. /\ m \in Stores /\ m.tables = s.tables /\ m.columns = s.columns \cup {"source_port"}
        /\ SameRows(s, m) /\ SameBlocks(s, m)
    BY <2>1, ColumnAdded
  <2>3. UpTo(4, m) /\ Has(m, "source_port")
    BY <2>1, ColumnKeepsTheEnds
  <2>4. t = [m EXCEPT !.wires = [w \in DOMAIN s.wires |-> w - 1]]
    BY <1>2, <2>1 DEF EnsureConnectionPorts, WithColumn, Stores
  <2> HIDE DEF m
  <2>5. s.wires \in Seq(Nat) /\ DOMAIN s.wires = 1..Len(s.wires) /\ Len(s.wires) \in Nat
    BY <2>1 DEF Stores
  <2>6. [w \in DOMAIN s.wires |-> w - 1] \in Seq(Nat)
    BY <2>5
  <2>7. /\ t \in Stores /\ t.tables = s.tables /\ t.columns = s.columns \cup {"source_port"}
        /\ SameRows(s, t) /\ t.amplitude = s.amplitude /\ t.signs = s.signs
        /\ t.wires = [w \in DOMAIN s.wires |-> w - 1]
    BY <2>2, <2>4, <2>6 DEF Stores, SameRows, SameBlocks
  <2>8. UpTo(5, t)
    <3>1. MissingTables(t) = MissingTables(m) /\ \A c : Has(t, c) <=> Has(m, c)
      BY <2>2, <2>7 DEF MissingTables, Has
    <3>2. HasParameters(t) <=> HasParameters(m)
      BY <2>2, <2>7 DEF HasParameters, SameBlocks
    <3> QED
      BY <2>3, <3>1, <3>2 DEF UpTo
  <2>9. IsStore(t)
    <3>1. s.wires = << >> => t.wires = << >>
      BY <2>5, <2>7
    <3>2. t.wires = << >> \/ s.wires # << >>
      BY <3>1
    <3>3. \A v, w \in DOMAIN t.wires : t.wires[v] = t.wires[w] => v = w
      BY <2>5, <2>7
    <3>4. Has(t, "source_port")
      BY <2>7 DEF Has
    <3>5. Ports(t) \subseteq Ports(s)
      <4>1. \A w \in DOMAIN t.wires : t.wires[w] \in 0..(Len(s.wires) - 1)
        BY <2>5, <2>7
      <4> QED
        BY <1>2, <3>4, <4>1 DEF Ports
    <3>6. Declarable(t) = Declarable(s)
      BY <2>7 DEF Declarable
    <3> QED
      BY <2>7, <3>1, <3>2, <3>3, <3>4, <3>5, <3>6 DEF IsStore, SameRows
  <2> QED
    BY <1>2, <2>8, <2>9
<1> QED
  BY <1>1, <1>2

LEMMA EnsureDeclaredInputPortsStep ==
  ASSUME NEW s, IsStore(s), UpTo(5, s), NEW t, t = EnsureDeclaredInputPorts(s)
  PROVE  /\ IsStore(t) /\ UpTo(6, t)
         /\ HasDeclaredPorts(s) => t = s
<1>1. CASE HasDeclaredPorts(s)
  BY <1>1 DEF EnsureDeclaredInputPorts, UpTo, HasDeclaredPorts
<1>2. CASE ~HasDeclaredPorts(s)
  <2>1. s \in Stores /\ Wired(s) \in 2..MaxInputSigns /\ Len(s.signs) = 1
    BY <1>2 DEF IsStore, HasDeclaredPorts
  <2>2. s.signs \in Seq({"+", "-"}) /\ s.wires \in Seq(Nat)
    BY <2>1 DEF Stores
  <2>3. Wired(s) \in Nat /\ Wired(s) >= 2
    BY <2>1 DEF MaxInputSigns
  <2> DEFINE wide == [p \in 1..Wired(s) |-> s.signs[1]]
  <2>4. wide \in Seq({"+", "-"}) /\ Len(wide) = Wired(s) /\ wide # << >>
    <3>1. s.signs[1] \in {"+", "-"}
      BY <2>1, <2>2
    <3>2. DOMAIN wide = 1..Wired(s) /\ wide \in Seq({"+", "-"})
      BY <2>3, <3>1
    <3>3. Len(wide) = Wired(s)
      BY <2>3, <3>2
    <3> QED
      BY <2>3, <3>2, <3>3
  <2>5. t = [s EXCEPT !.signs = wide]
    BY <2>1 DEF EnsureDeclaredInputPorts
  <2> HIDE DEF wide
  <2>6. /\ t \in Stores /\ t.tables = s.tables /\ t.columns = s.columns /\ SameRows(s, t)
        /\ t.amplitude = s.amplitude /\ t.wires = s.wires /\ t.signs = wide
    BY <2>1, <2>4, <2>5 DEF Stores, SameRows
  <2>7. UpTo(6, t)
    <3>1. MissingTables(t) = MissingTables(s) /\ \A c : Has(t, c) <=> Has(s, c)
      BY <2>6 DEF MissingTables, Has
    <3>2. HasParameters(s) => HasParameters(t)
      BY <2>4, <2>6 DEF HasParameters
    <3>3. HasDeclaredPorts(t)
      BY <2>3, <2>4, <2>6 DEF HasDeclaredPorts
    <3> QED
      BY <3>1, <3>2, <3>3 DEF UpTo
  <2>8. IsStore(t)
    <3>1. Has(t, "source_port") /\ Has(s, "source_port")
      BY <2>6 DEF Has, UpTo
    <3>2. \A p \in Ports(t) : p < Declarable(t)
      <4>1. \A w \in DOMAIN s.wires : s.wires[w] < Wired(s)
        BY <2>2, WiredIsGreatest
      <4>2. Declarable(t) = Wired(s)
        BY <2>3, <2>4, <2>6 DEF Declarable
      <4> QED
        BY <2>6, <3>1, <4>1, <4>2 DEF Ports
    <3> QED
      BY <2>6, <3>1, <3>2 DEF IsStore, SameRows
  <2> QED
    BY <1>2, <2>7, <2>8
<1> QED
  BY <1>1, <1>2

\* The project the flowsheets without one go to, and the projects with it.
Home(s) ==
    LET old == EmptyDefaultProjects(s)
    IN  IF old # {} THEN CHOOSE p \in old : \A q \in old : p <= q
        ELSE Cardinality(DOMAIN s.projects) + 1
WithHome(s) ==
    [p \in DOMAIN s.projects \cup {Home(s)} |->
        IF p \in DOMAIN s.projects THEN s.projects[p] ELSE "default"]
Assigned(s) ==
    [f \in DOMAIN s.flows |->
        IF f \in Unassigned(s) THEN [s.flows[f] EXCEPT !.project = Home(s)] ELSE s.flows[f]]

LEMMA HomeIsAProject ==
  ASSUME NEW s \in Stores
  PROVE  /\ Home(s) \in Nat \ {NoProject}
         /\ WithHome(s) \in Seq(ProjectNames)
         /\ DOMAIN s.projects \subseteq DOMAIN WithHome(s) /\ Home(s) \in DOMAIN WithHome(s)
<1> DEFINE n == Len(s.projects)
           old == EmptyDefaultProjects(s)
<1>1. s.projects \in Seq(ProjectNames) /\ n \in Nat /\ DOMAIN s.projects = 1..n
  BY DEF Stores
<1>2. Cardinality(1..n) = n
  BY <1>1, CountUpTo, Zenon
<1>3. Home(s) \in 1..(n + 1)
  <2>1. CASE old # {}
    <3>1. old \subseteq 1..n
      BY <1>1 DEF EmptyDefaultProjects
    <3>2. \E p \in old : \A q \in old : p <= q
      <4>1. old \in SUBSET Nat
        BY <3>1
      <4> HIDE DEF old
      <4> QED
        BY <2>1, <4>1, LeastExists
    <3>3. Home(s) \in old
      BY <2>1, <3>2 DEF Home
    <3> QED
      BY <1>1, <3>1, <3>3
  <2>2. CASE old = {}
    BY <1>1, <1>2, <2>2 DEF Home
  <2> QED
    BY <2>1, <2>2
<1>4. DOMAIN s.projects \cup {Home(s)} = 1..(IF Home(s) = n + 1 THEN n + 1 ELSE n)
  BY <1>1, <1>3
<1>5. \A p \in DOMAIN s.projects : s.projects[p] \in ProjectNames
  BY <1>1
<1>6. WithHome(s) \in [1..(IF Home(s) = n + 1 THEN n + 1 ELSE n) -> ProjectNames]
  BY <1>4, <1>5 DEF WithHome, ProjectNames
<1>7. WithHome(s) \in Seq(ProjectNames)
  <2>1. (IF Home(s) = n + 1 THEN n + 1 ELSE n) \in Nat
    BY <1>1
  <2> QED
    BY <1>6, <2>1
<1> QED
  BY <1>1, <1>3, <1>7 DEF WithHome, NoProject

LEMMA EnsureProjectsFields ==
  ASSUME NEW s \in Stores, NEW t, t = EnsureProjects(s)
  PROVE  /\ t \in Stores /\ t.tables = s.tables /\ t.columns = s.columns \cup {"project_id"}
         /\ SameBlocks(s, t)
         /\ t.projects = IF Unassigned(s) = {} THEN s.projects ELSE WithHome(s)
         /\ t.flows = IF Unassigned(s) = {} THEN s.flows ELSE Assigned(s)
<1> DEFINE m == WithColumn(s, "project_id")
<1>1. /\ m \in Stores /\ m.tables = s.tables /\ m.columns = s.columns \cup {"project_id"}
      /\ SameRows(s, m) /\ SameBlocks(s, m)
  BY ColumnAdded DEF Columns
<1>2. CASE Unassigned(s) = {}
  <2>1. t = m
    BY <1>2 DEF EnsureProjects
  <2> HIDE DEF m
  <2> QED
    BY <1>1, <1>2, <2>1 DEF SameRows
<1>3. CASE Unassigned(s) # {}
  <2>1. t = [m EXCEPT !.projects = WithHome(s), !.flows = Assigned(s)]
    <3>1. m.projects = s.projects /\ m.flows = s.flows
      BY <1>1 DEF SameRows
    <3>2. t = [m EXCEPT !.projects = [p \in DOMAIN @ \cup {Home(s)} |->
                            IF p \in DOMAIN @ THEN @[p] ELSE "default"],
                        !.flows = [f \in DOMAIN @ |->
                            IF f \in Unassigned(s) THEN [@[f] EXCEPT !.project = Home(s)] ELSE @[f]]]
      BY <1>3 DEF EnsureProjects, Home
    <3> HIDE DEF m
    <3> QED
      BY <3>1, <3>2 DEF WithHome, Assigned
  <2>2. Assigned(s) \in Seq(FlowRows)
    <3>1. s.flows \in Seq(FlowRows) /\ DOMAIN s.flows = 1..Len(s.flows) /\ Len(s.flows) \in Nat
      BY DEF Stores
    <3>2. \A f \in DOMAIN s.flows : s.flows[f] \in FlowRows /\ Home(s) \in Nat
      BY <3>1, HomeIsAProject
    <3>3. Assigned(s) \in [1..Len(s.flows) -> FlowRows]
      BY <3>1, <3>2 DEF Assigned, FlowRows
    <3> QED
      BY <3>1, <3>3
  <2>3. WithHome(s) \in Seq(ProjectNames)
    BY HomeIsAProject
  <2> HIDE DEF m
  <2> QED
    BY <1>1, <1>3, <2>1, <2>2, <2>3 DEF Stores, SameRows, SameBlocks
<1> QED
  BY <1>2, <1>3

LEMMA EnsureProjectsStep ==
  ASSUME NEW s, IsStore(s), UpTo(6, s), NEW t, t = EnsureProjects(s)
  PROVE  /\ IsStore(t) /\ UpTo(7, t)
         /\ Has(s, "project_id") /\ Unassigned(s) = {} => t = s
<1>1. s \in Stores
  BY DEF IsStore
<1>2. /\ t \in Stores /\ t.tables = s.tables /\ t.columns = s.columns \cup {"project_id"}
      /\ SameBlocks(s, t)
      /\ t.projects = IF Unassigned(s) = {} THEN s.projects ELSE WithHome(s)
      /\ t.flows = IF Unassigned(s) = {} THEN s.flows ELSE Assigned(s)
  BY <1>1, EnsureProjectsFields
<1>3. DOMAIN t.flows = DOMAIN s.flows /\ DOMAIN s.projects \subseteq DOMAIN t.projects
  BY <1>1, <1>2, HomeIsAProject DEF Assigned
<1>4. ASSUME NEW f \in DOMAIN s.flows
      PROVE  t.flows[f].project \in DOMAIN t.projects /\ t.flows[f].project # NoProject
  <2>1. s.flows[f] \in FlowRows
    BY <1>1 DEF Stores
  <2>2. CASE Unassigned(s) = {}
    BY <1>2, <2>1, <2>2 DEF Unassigned, IsStore
  <2>3. CASE f \in Unassigned(s)
    <3>1. t.flows[f].project = Home(s)
      BY <1>2, <2>1, <2>3 DEF Assigned, FlowRows
    <3> QED
      BY <1>1, <1>2, <2>3, <3>1, HomeIsAProject
  <2>4. CASE Unassigned(s) # {} /\ f \notin Unassigned(s)
    BY <1>2, <1>3, <2>1, <2>4 DEF Assigned, Unassigned, IsStore
  <2> QED
    BY <2>2, <2>3, <2>4
<1>5. UpTo(7, t)
  <2>1. MissingTables(t) = MissingTables(s) /\ \A c : Has(s, c) => Has(t, c)
    BY <1>2 DEF MissingTables, Has
  <2>2. Has(t, "project_id") /\ Unassigned(t) = {}
    BY <1>2, <1>3, <1>4 DEF Has, Unassigned
  <2>3. (HasParameters(s) => HasParameters(t)) /\ (HasDeclaredPorts(s) => HasDeclaredPorts(t))
    BY <1>2 DEF HasParameters, HasDeclaredPorts, Wired, SameBlocks
  <2> QED
    BY <2>1, <2>2, <2>3 DEF UpTo
<1>6. IsStore(t)
  <2>1. Has(t, "source_port") <=> Has(s, "source_port")
    BY <1>2 DEF Has
  <2>2. Ports(t) = Ports(s) /\ Declarable(t) = Declarable(s)
    BY <1>2, <2>1 DEF Ports, Declarable, SameBlocks
  <2>3. s.flows = << >> => t.flows = << >>
    <3>1. s.flows = << >> => Unassigned(s) = {}
      BY DEF Unassigned
    <3> QED
      BY <1>2, <3>1
  <2> QED
    BY <1>2, <1>3, <1>4, <2>1, <2>2, <2>3 DEF IsStore, SameBlocks
<1>7. Has(s, "project_id") /\ Unassigned(s) = {} => t = s
  <2>1. Has(s, "project_id") => t.columns = s.columns
    BY <1>2 DEF Has
  <2> QED
    BY <1>1, <1>2, <2>1, SameFields DEF SameBlocks
<1> QED
  BY <1>5, <1>6, <1>7

Numbered(s) ==
    [f \in DOMAIN s.flows |->
        [s.flows[f] EXCEPT !.position = Cardinality({g \in Siblings(s, f) : Before(s, g, f)})]]

LEMMA NumberedRows ==
  ASSUME NEW s \in Stores
  PROVE  /\ Numbered(s) \in Seq(FlowRows) /\ DOMAIN Numbered(s) = DOMAIN s.flows
         /\ IsFiniteSet(DOMAIN s.flows)
         /\ \A f \in DOMAIN s.flows :
              /\ Numbered(s)[f].project = s.flows[f].project
              /\ Numbered(s)[f].position = Cardinality({g \in Siblings(s, f) : Before(s, g, f)})
<1>1. s.flows \in Seq(FlowRows) /\ DOMAIN s.flows = 1..Len(s.flows) /\ Len(s.flows) \in Nat
  BY DEF Stores
<1>2. IsFiniteSet(DOMAIN s.flows)
  BY <1>1, CountUpTo, Zenon
<1>3. ASSUME NEW f \in DOMAIN s.flows
      PROVE  Cardinality({g \in Siblings(s, f) : Before(s, g, f)}) \in Int
  <2>1. {g \in Siblings(s, f) : Before(s, g, f)} \in SUBSET DOMAIN s.flows
    BY DEF Siblings
  <2>2. IsFiniteSet({g \in Siblings(s, f) : Before(s, g, f)})
    BY <1>2, <2>1, FS_Subset
  <2>3. Cardinality({g \in Siblings(s, f) : Before(s, g, f)}) \in Nat
    BY <2>2, FS_CardinalityType
  <2> QED
    BY <2>3
<1>4. ASSUME NEW f \in DOMAIN s.flows
      PROVE  /\ Numbered(s)[f] \in FlowRows
             /\ Numbered(s)[f].project = s.flows[f].project
             /\ Numbered(s)[f].position = Cardinality({g \in Siblings(s, f) : Before(s, g, f)})
  <2> DEFINE rank == Cardinality({g \in Siblings(s, f) : Before(s, g, f)})
  <2>1. Numbered(s)[f] = [s.flows[f] EXCEPT !.position = rank]
    BY DEF Numbered
  <2>2. s.flows[f] \in FlowRows /\ rank \in Int
    BY <1>1, <1>3
  <2> HIDE DEF rank
  <2>3. Numbered(s)[f] \in FlowRows /\ Numbered(s)[f].project = s.flows[f].project
        /\ Numbered(s)[f].position = rank
    BY <2>1, <2>2 DEF FlowRows
  <2> QED
    BY <2>3 DEF rank
<1>5. DOMAIN Numbered(s) = DOMAIN s.flows /\ Numbered(s) = [f \in DOMAIN s.flows |-> Numbered(s)[f]]
  BY DEF Numbered
<1>6. Numbered(s) \in [1..Len(s.flows) -> FlowRows]
  BY <1>1, <1>4, <1>5
<1>7. Numbered(s) \in Seq(FlowRows)
  BY <1>1, <1>6
<1> QED
  BY <1>2, <1>4, <1>5, <1>7

\* Numbered among their siblings by position and name, flowsheets have valid positions.
LEMMA NumberingIsValid ==
  ASSUME NEW s \in Stores, NEW t, t.flows = Numbered(s)
  PROVE  ~InvalidPositions(t)
<1>1. s.flows \in Seq(FlowRows) /\ DOMAIN s.flows = 1..Len(s.flows) /\ Len(s.flows) \in Nat
      /\ IsFiniteSet(DOMAIN s.flows)
  BY NumberedRows DEF Stores
<1>2. DOMAIN t.flows = DOMAIN s.flows
      /\ \A f \in DOMAIN s.flows :
            /\ t.flows[f].project = s.flows[f].project
            /\ t.flows[f].position = Cardinality({g \in Siblings(s, f) : Before(s, g, f)})
  BY NumberedRows
<1>3. SUFFICES ASSUME NEW f \in DOMAIN s.flows
      PROVE {t.flows[g].position : g \in Siblings(t, f)} = 0..(Cardinality(Siblings(t, f)) - 1)
  BY <1>2 DEF InvalidPositions
<1> DEFINE S == Siblings(s, f)
           lower == [g \in S |-> {h \in S : Before(s, h, g)}]
<1>4. S \in SUBSET DOMAIN s.flows /\ IsFiniteSet(S) /\ Siblings(t, f) = S
  <2>1. S \in SUBSET DOMAIN s.flows
    BY DEF Siblings
  <2>2. Siblings(t, f) = S
    BY <1>2 DEF Siblings
  <2> QED
    BY <1>1, <2>1, <2>2, FS_Subset
<1>5. \A g \in S : Siblings(s, g) = S
  BY DEF Siblings
<1>6. \A g \in S : s.flows[g].position \in Int /\ g \in Nat
  <2>1. \A g \in S : s.flows[g] \in FlowRows /\ g \in Nat
    BY <1>1, <1>4
  <2> QED
    BY <2>1 DEF FlowRows
<1>7. \A g \in S : t.flows[g].position = Cardinality(lower[g])
  BY <1>2, <1>4, <1>5
<1>8. /\ \A g \in S : ~Before(s, g, g)
      /\ \A g, h \in S : g # h => Before(s, g, h) \/ Before(s, h, g)
      /\ \A g, h, k \in S : Before(s, g, h) /\ Before(s, h, k) => Before(s, g, k)
  <2> HIDE DEF S
  <2> QED
    BY <1>6 DEF Before
<1>9. lower \in [S -> SUBSET S] /\ \A g, h \in S : h \in lower[g] <=> Before(s, h, g)
  <2> HIDE DEF S
  <2> QED
    OBVIOUS
<1> HIDE DEF S, lower
<1>10. {Cardinality(lower[g]) : g \in S} = 0..(Cardinality(S) - 1)
  <2>1. /\ \A g \in S : g \notin lower[g]
        /\ \A g, h \in S : g # h => g \in lower[h] \/ h \in lower[g]
        /\ \A g, h, k \in S : g \in lower[h] /\ h \in lower[k] => g \in lower[k]
    BY <1>8, <1>9
  <2> QED
    BY <1>4, <1>9, <2>1, RanksAreDense
<1>11. {t.flows[g].position : g \in S} = {Cardinality(lower[g]) : g \in S}
  BY <1>7
<1> QED
  BY <1>4, <1>10, <1>11

LEMMA EnsureFlowPositionsFields ==
  ASSUME NEW s \in Stores, ~HasPositions(s), NEW t, t = EnsureFlowPositions(s)
  PROVE  /\ t \in Stores /\ t.tables = s.tables /\ t.columns = s.columns \cup {"position"}
         /\ SameBlocks(s, t) /\ t.projects = s.projects /\ t.flows = Numbered(s)
<1> DEFINE m == WithColumn(s, "position")
<1>1. /\ m \in Stores /\ m.tables = s.tables /\ m.columns = s.columns \cup {"position"}
      /\ SameRows(s, m) /\ SameBlocks(s, m)
  BY ColumnAdded DEF Columns
<1>2. t = [m EXCEPT !.flows = Numbered(s)]
  <2>1. t = [m EXCEPT !.flows = [f \in DOMAIN @ |->
                [@[f] EXCEPT !.position = Cardinality({g \in Siblings(s, f) : Before(s, g, f)})]]]
    BY DEF HasPositions, EnsureFlowPositions
  <2>2. m.flows = s.flows
    BY <1>1 DEF SameRows
  <2> HIDE DEF m
  <2> QED
    BY <2>1, <2>2 DEF Numbered
<1> HIDE DEF m
<1> QED
  BY <1>1, <1>2, NumberedRows DEF Stores, SameRows, SameBlocks

LEMMA EnsureFlowPositionsStep ==
  ASSUME NEW s, IsStore(s), UpTo(7, s), NEW t, t = EnsureFlowPositions(s)
  PROVE  /\ IsStore(t) /\ UpTo(8, t)
         /\ HasPositions(s) => t = s
<1>1. s \in Stores
  BY DEF IsStore
<1>2. CASE HasPositions(s)
  <2>1. t = s
    BY <1>2 DEF HasPositions, EnsureFlowPositions
  <2> QED
    BY <1>2, <2>1 DEF UpTo
<1>3. CASE ~HasPositions(s)
  <2>1. /\ t \in Stores /\ t.tables = s.tables /\ t.columns = s.columns \cup {"position"}
        /\ SameBlocks(s, t) /\ t.projects = s.projects /\ t.flows = Numbered(s)
    BY <1>1, <1>3, EnsureFlowPositionsFields
  <2>2. DOMAIN t.flows = DOMAIN s.flows
        /\ \A f \in DOMAIN s.flows : t.flows[f].project = s.flows[f].project
    BY <1>1, <2>1, NumberedRows
  <2>3. UpTo(8, t)
    <3>1. MissingTables(t) = MissingTables(s) /\ \A c : Has(s, c) => Has(t, c)
      BY <2>1 DEF MissingTables, Has
    <3>2. Unassigned(t) = Unassigned(s)
      BY <2>2 DEF Unassigned
    <3>3. (HasParameters(s) => HasParameters(t)) /\ (HasDeclaredPorts(s) => HasDeclaredPorts(t))
      BY <2>1 DEF HasParameters, HasDeclaredPorts, Wired, SameBlocks
    <3>4. HasPositions(t)
      BY <1>1, <2>1, NumberingIsValid DEF HasPositions, Has
    <3> QED
      BY <3>1, <3>2, <3>3, <3>4 DEF UpTo
  <2>4. IsStore(t)
    <3>1. Has(t, "source_port") <=> Has(s, "source_port")
      BY <2>1 DEF Has
    <3>2. Ports(t) = Ports(s) /\ Declarable(t) = Declarable(s)
      BY <2>1, <3>1 DEF Ports, Declarable, SameBlocks
    <3>3. s.flows = << >> => t.flows = << >>
      <4>1. s.flows = << >> => DOMAIN t.flows = {}
        BY <2>2
      <4>2. t.flows \in Seq(FlowRows) /\ DOMAIN t.flows = 1..Len(t.flows) /\ Len(t.flows) \in Nat
        BY <2>1 DEF Stores
      <4>3. Len(t.flows) # 0 => 1 \in DOMAIN t.flows
        BY <4>2
      <4> QED
        BY <4>1, <4>2, <4>3
    <3> QED
      BY <2>1, <2>2, <3>1, <3>2, <3>3 DEF IsStore, SameBlocks
  <2> QED
    BY <1>3, <2>3, <2>4
<1> QED
  BY <1>2, <1>3

Example(s) ==
    [project |-> Cardinality(DOMAIN s.projects) + 1, position |-> 0, stamped |-> TRUE]
WithExample(s) ==
    LET p == Cardinality(DOMAIN s.projects) + 1
    IN  [q \in DOMAIN s.projects \cup {p} |-> IF q = p THEN "default" ELSE s.projects[q]]

LEMMA ExampleRows ==
  ASSUME NEW s \in Stores
  PROVE  /\ WithExample(s) \in Seq(ProjectNames) /\ Example(s) \in FlowRows
         /\ Example(s).project \in DOMAIN WithExample(s) /\ Example(s).project # NoProject
         /\ Example(s).position = 0
<1> DEFINE n == Len(s.projects)
<1>1. s.projects \in Seq(ProjectNames) /\ n \in Nat /\ DOMAIN s.projects = 1..n
  BY DEF Stores
<1>2. Cardinality(DOMAIN s.projects) = n
  BY <1>1, CountUpTo, Zenon
<1> HIDE DEF n
<1>3. WithExample(s) = [q \in 1..(n + 1) |-> IF q = n + 1 THEN "default" ELSE s.projects[q]]
  <2>1. DOMAIN s.projects \cup {n + 1} = 1..(n + 1)
    BY <1>1
  <2> QED
    BY <1>2, <2>1 DEF WithExample
<1>4. WithExample(s) \in [1..(n + 1) -> ProjectNames]
  BY <1>1, <1>3 DEF ProjectNames
<1>5. WithExample(s) \in Seq(ProjectNames)
  BY <1>1, <1>4
<1>6. Example(s) = [project |-> n + 1, position |-> 0, stamped |-> TRUE]
  BY <1>2 DEF Example
<1> QED
  BY <1>1, <1>3, <1>5, <1>6 DEF FlowRows, NoProject

LEMMA SeedFields ==
  ASSUME NEW s \in Stores, s.flows = << >>, NEW t, t = Seed(s)
  PROVE  /\ t \in Stores /\ t.tables = s.tables /\ t.columns = s.columns
         /\ t.projects = WithExample(s) /\ t.flows = <<Example(s)>>
         /\ t.amplitude = "json" /\ t.signs = <<"+", "+">> /\ t.wires = <<0, 1>>
<1>1. t = [s EXCEPT !.projects = WithExample(s), !.flows = <<Example(s)>>,
                    !.amplitude = "json", !.signs = <<"+", "+">>, !.wires = <<0, 1>>]
  BY DEF Seed, WithExample, Example
<1>2. <<"+", "+">> \in Seq({"+", "-"}) /\ <<0, 1>> \in Seq(Nat)
  OBVIOUS
<1>3. <<Example(s)>> \in Seq(FlowRows) /\ WithExample(s) \in Seq(ProjectNames)
  BY ExampleRows
<1> QED
  BY <1>1, <1>2, <1>3 DEF Stores

LEMMA SeedStep ==
  ASSUME NEW s, IsStore(s), UpTo(9, s), NEW t, t = Seed(s)
  PROVE  /\ IsStore(t) /\ UpTo(10, t)
         /\ s.flows # << >> => t = s
<1>1. s \in Stores
  BY DEF IsStore
<1>2. CASE s.flows # << >>
  <2>1. t = s
    BY <1>2 DEF Seed
  <2> QED
    BY <1>2, <2>1 DEF UpTo
<1>3. CASE s.flows = << >>
  <2>1. /\ t \in Stores /\ t.tables = s.tables /\ t.columns = s.columns
        /\ t.projects = WithExample(s) /\ t.flows = <<Example(s)>>
        /\ t.amplitude = "json" /\ t.signs = <<"+", "+">> /\ t.wires = <<0, 1>>
    BY <1>1, <1>3, SeedFields
  <2>2. /\ DOMAIN t.flows = {1} /\ t.flows[1] = Example(s) /\ t.flows # << >>
        /\ Len(t.signs) = 2 /\ t.signs # << >>
        /\ DOMAIN t.wires = {1, 2} /\ t.wires[1] = 0 /\ t.wires[2] = 1
    BY <2>1
  <2>3. /\ t.flows[1].project \in DOMAIN t.projects /\ t.flows[1].project # NoProject
        /\ t.flows[1].position = 0
    BY <1>1, <2>1, <2>2, ExampleRows
  <2>4. UpTo(10, t)
    <3>1. MissingTables(t) = MissingTables(s) /\ \A c : Has(s, c) => Has(t, c)
      BY <2>1 DEF MissingTables, Has
    <3>2. Unassigned(t) = {}
      BY <2>2, <2>3 DEF Unassigned
    <3>3. HasParameters(t) /\ HasDeclaredPorts(t)
      BY <2>1, <2>2 DEF HasParameters, HasDeclaredPorts
    <3>4. ~InvalidPositions(t)
      <4>1. Siblings(t, 1) = {1}
        BY <2>2 DEF Siblings
      <4>2. Cardinality({1}) = 1
        BY FS_Singleton
      <4>3. {t.flows[g].position : g \in Siblings(t, 1)} = 0..(Cardinality(Siblings(t, 1)) - 1)
        <5>1. {t.flows[g].position : g \in {1}} = {0}
          BY <2>3
        <5>2. 0..(1 - 1) = {0}
          OBVIOUS
        <5> QED
          BY <4>1, <4>2, <5>1, <5>2
      <4> QED
        BY <2>2, <4>3 DEF InvalidPositions
    <3> QED
      BY <2>2, <3>1, <3>2, <3>3, <3>4 DEF UpTo, HasPositions
  <2>5. IsStore(t)
    <3>1. Has(t, "source_port") /\ MissingTables(t) = {}
      BY <2>4 DEF UpTo
    <3>2. "flows" \in t.tables /\ "connections" \in t.tables
      <4>1. Tables[2] = "flows" /\ Tables[4] = "connections" /\ 2 \in DOMAIN Tables
            /\ 4 \in DOMAIN Tables
        BY DEF Tables
      <4> QED
        BY <3>1, <4>1 DEF MissingTables
    <3>3. \A p \in Ports(t) : p < Declarable(t)
      BY <2>2, <3>1 DEF Ports, Declarable
    <3> QED
      BY <2>1, <2>2, <2>3, <3>1, <3>2, <3>3 DEF IsStore
  <2> QED
    BY <1>3, <2>4, <2>5
<1> QED
  BY <1>2, <1>3

(***************************************************************************)
(* Tables and revisions, the two parts that commit more than once          *)
(***************************************************************************)
LEMMA FourTables ==
  /\ DOMAIN Tables = 1..4
  /\ Tables[1] = "projects" /\ Tables[2] = "flows" /\ Tables[3] = "blocks"
  /\ Tables[4] = "connections"
  /\ \A i \in DOMAIN Tables : Tables[i] \in DOMAIN Created /\ Created[Tables[i]] \subseteq Columns
  /\ \A i \in DOMAIN Tables : "source_port" \in Created[Tables[i]] => Tables[i] = "connections"
  /\ \A i \in DOMAIN Tables : "model_updated_at" \in Created[Tables[i]] => Tables[i] = "flows"
<1>1. /\ DOMAIN Tables = 1..4
      /\ Tables[1] = "projects" /\ Tables[2] = "flows" /\ Tables[3] = "blocks"
      /\ Tables[4] = "connections"
  BY DEF Tables
<1>2. \A i \in 1..4 : i = 1 \/ i = 2 \/ i = 3 \/ i = 4
  OBVIOUS
<1>3. /\ Created["projects"] = {}
      /\ Created["flows"] = {"model_updated_at", "project_id", "position"}
      /\ Created["blocks"] = {"parameters_json"}
      /\ Created["connections"] = {"source_port"}
      /\ DOMAIN Created = {"projects", "flows", "blocks", "connections"}
  BY DEF Created
<1> QED
  BY <1>1, <1>2, <1>3 DEF Columns

\* Some tables, with their columns.
WithTables(s, new) ==
    [s EXCEPT !.tables = @ \cup {Tables[i] : i \in new},
              !.columns = @ \cup UNION {Created[Tables[i]] : i \in new}]

LEMMA WithTablesFields ==
  ASSUME NEW s, IsStore(s), NEW new \in SUBSET MissingTables(s), NEW t, t = WithTables(s, new)
  PROVE  /\ IsStore(t) /\ t.tables = s.tables \cup {Tables[i] : i \in new}
         /\ t.columns = s.columns \cup UNION {Created[Tables[i]] : i \in new}
         /\ SameRows(s, t) /\ SameBlocks(s, t)
         /\ IsStamped(s) => IsStamped(t)
<1> DEFINE more == {Tables[i] : i \in new}
           columns == UNION {Created[Tables[i]] : i \in new}
<1>1. s \in Stores /\ new \subseteq DOMAIN Tables
  BY DEF IsStore, MissingTables
<1>2. columns \subseteq Columns /\ more \subseteq {Tables[i] : i \in DOMAIN Tables}
  BY <1>1, FourTables
<1>3. /\ "source_port" \in columns => s.wires = << >>
      /\ "model_updated_at" \in columns => s.flows = << >>
  <2>1. "source_port" \in columns => "connections" \notin s.tables
    <3> SUFFICES ASSUME NEW i \in new, "source_port" \in Created[Tables[i]]
                 PROVE  "connections" \notin s.tables
      OBVIOUS
    <3> QED
      BY <1>1, FourTables DEF MissingTables
  <2>2. "model_updated_at" \in columns => "flows" \notin s.tables
    <3> SUFFICES ASSUME NEW i \in new, "model_updated_at" \in Created[Tables[i]]
                 PROVE  "flows" \notin s.tables
      OBVIOUS
    <3> QED
      BY <1>1, FourTables DEF MissingTables
  <2> QED
    BY <2>1, <2>2 DEF IsStore
<1>4. t = [s EXCEPT !.tables = @ \cup more, !.columns = @ \cup columns]
  BY DEF WithTables
<1> HIDE DEF more, columns
<1>5. /\ t \in Stores /\ t.tables = s.tables \cup more /\ t.columns = s.columns \cup columns
      /\ SameRows(s, t) /\ SameBlocks(s, t)
  BY <1>1, <1>2, <1>4 DEF Stores, SameRows, SameBlocks
<1>6. IsStore(t)
  <2>1. CASE s.wires = << >>
    <3>1. DOMAIN t.wires = {} /\ Len(t.wires) = 0
      BY <1>5, <2>1 DEF SameBlocks
    <3>2. Ports(t) = {}
      BY <3>1 DEF Ports
    <3> QED
      BY <1>5, <2>1, <3>1, <3>2 DEF IsStore, SameRows, SameBlocks
  <2>2. CASE s.wires # << >>
    <3>1. Has(t, "source_port") <=> Has(s, "source_port")
      BY <1>3, <1>5, <2>2 DEF Has
    <3>2. Ports(t) = Ports(s) /\ Declarable(t) = Declarable(s)
      BY <1>5, <3>1 DEF Ports, Declarable, SameBlocks
    <3> QED
      BY <1>5, <3>1, <3>2 DEF IsStore, SameRows, SameBlocks
  <2> QED
    BY <2>1, <2>2
<1>7. IsStamped(s) => IsStamped(t)
  BY <1>3, <1>5 DEF IsStamped, Has, SameRows
<1> QED
  BY <1>5, <1>6, <1>7 DEF more, columns

LEMMA AllTablesStep ==
  ASSUME NEW s, IsStore(s), NEW t, t = AllTables(s)
  PROVE  /\ IsStore(t) /\ UpTo(1, t)
         /\ MissingTables(s) = {} => t = s
<1>1. t = WithTables(s, MissingTables(s))
  BY DEF AllTables, WithTables
<1>2. /\ IsStore(t) /\ t.tables = s.tables \cup {Tables[i] : i \in MissingTables(s)}
      /\ t.columns = s.columns \cup UNION {Created[Tables[i]] : i \in MissingTables(s)}
      /\ SameRows(s, t) /\ SameBlocks(s, t)
  BY <1>1, WithTablesFields
<1>3. MissingTables(t) = {}
  BY <1>2 DEF MissingTables
<1>4. MissingTables(s) = {} => t = s
  <2>1. MissingTables(s) = {} => t.tables = s.tables /\ t.columns = s.columns
    BY <1>2
  <2> QED
    BY <1>2, <2>1, SameFields DEF IsStore, SameRows, SameBlocks
<1> QED
  BY <1>2, <1>3, <1>4 DEF UpTo

\* One table at a time comes to the same.
LEMMA CreateTableStep ==
  ASSUME NEW s, IsStore(s), NEW i \in MissingTables(s), NEW t, t = WithTable(s, Tables[i])
  PROVE  IsStore(t) /\ (IsStamped(s) => IsStamped(t)) /\ AllTables(t) = AllTables(s)
<1>1. t = WithTables(s, {i})
  <2>1. {Tables[j] : j \in {i}} = {Tables[i]} /\ UNION {Created[Tables[j]] : j \in {i}} = Created[Tables[i]]
    OBVIOUS
  <2> QED
    BY <2>1 DEF WithTable, WithTables
<1>2. /\ IsStore(t) /\ t.tables = s.tables \cup {Tables[i]}
      /\ t.columns = s.columns \cup Created[Tables[i]]
      /\ SameRows(s, t) /\ SameBlocks(s, t)
      /\ IsStamped(s) => IsStamped(t)
  <2>1. {i} \in SUBSET MissingTables(s)
    OBVIOUS
  <2> QED
    BY <1>1, <2>1, WithTablesFields
<1>3. MissingTables(t) \cup {i} = MissingTables(s)
  <2>1. i \in DOMAIN Tables
    BY DEF MissingTables
  <2>2. \A j \in DOMAIN Tables : Tables[j] = Tables[i] => j = i
    <3>1. \A j \in 1..4 : j = 1 \/ j = 2 \/ j = 3 \/ j = 4
      OBVIOUS
    <3> QED
      BY <2>1, <3>1, FourTables
  <2> QED
    BY <1>2, <2>1, <2>2 DEF MissingTables
<1> DEFINE a == AllTables(t)
           b == AllTables(s)
<1>4. a = WithTables(t, MissingTables(t)) /\ b = WithTables(s, MissingTables(s))
  BY DEF AllTables, WithTables
<1>5. /\ IsStore(a) /\ a.tables = t.tables \cup {Tables[j] : j \in MissingTables(t)}
      /\ a.columns = t.columns \cup UNION {Created[Tables[j]] : j \in MissingTables(t)}
      /\ SameRows(t, a) /\ SameBlocks(t, a)
  <2> HIDE DEF a
  <2> QED
    BY <1>2, <1>4, WithTablesFields
<1>6. /\ IsStore(b) /\ b.tables = s.tables \cup {Tables[j] : j \in MissingTables(s)}
      /\ b.columns = s.columns \cup UNION {Created[Tables[j]] : j \in MissingTables(s)}
      /\ SameRows(s, b) /\ SameBlocks(s, b)
  <2> HIDE DEF b
  <2> QED
    BY <1>4, WithTablesFields
<1> HIDE DEF a, b
<1>7. a.tables = b.tables
  BY <1>2, <1>3, <1>5, <1>6
<1>8. a.columns = b.columns
  BY <1>2, <1>3, <1>5, <1>6
<1>9. a = b
  <2>1. a \in Stores /\ b \in Stores
    BY <1>5, <1>6 DEF IsStore
  <2>2. /\ a.projects = b.projects /\ a.flows = b.flows
        /\ a.amplitude = b.amplitude /\ a.signs = b.signs /\ a.wires = b.wires
    BY <1>2, <1>5, <1>6 DEF SameRows, SameBlocks
  <2> QED
    BY <1>7, <1>8, <2>1, <2>2, SameFields
<1> QED
  BY <1>2, <1>9 DEF a, b

\* Stamping every flowsheet, or none.
Stamping(s, flag) ==
    [s EXCEPT !.flows = [f \in DOMAIN s.flows |-> [s.flows[f] EXCEPT !.stamped = flag]]]

LEMMA StampingFields ==
  ASSUME NEW s \in Stores, NEW flag \in BOOLEAN, NEW t, t = Stamping(s, flag)
  PROVE  Alike(s, t) /\ \A f \in DOMAIN t.flows : t.flows[f].stamped = flag
<1>1. s.flows \in Seq(FlowRows) /\ DOMAIN s.flows = 1..Len(s.flows) /\ Len(s.flows) \in Nat
  BY DEF Stores
<1> DEFINE rows == [f \in DOMAIN s.flows |-> [s.flows[f] EXCEPT !.stamped = flag]]
<1>2. ASSUME NEW f \in DOMAIN s.flows
      PROVE  /\ rows[f] \in FlowRows /\ rows[f].project = s.flows[f].project
             /\ rows[f].position = s.flows[f].position /\ rows[f].stamped = flag
  <2>1. s.flows[f] \in FlowRows /\ rows[f] = [s.flows[f] EXCEPT !.stamped = flag]
    BY <1>1
  <2> HIDE DEF rows
  <2> QED
    BY <2>1 DEF FlowRows
<1>3. rows = [f \in DOMAIN s.flows |-> rows[f]] /\ t = [s EXCEPT !.flows = rows]
  BY DEF Stamping
<1> HIDE DEF rows
<1>4. rows \in Seq(FlowRows)
  <2>1. rows \in [1..Len(s.flows) -> FlowRows]
    BY <1>1, <1>2, <1>3
  <2> QED
    BY <1>1, <2>1
<1> QED
  BY <1>2, <1>3, <1>4 DEF Alike, Stores

(***************************************************************************)
(* Revisions decide nothing                                                *)
(***************************************************************************)
LEMMA AlikeDecide ==
  ASSUME NEW s, NEW u, Alike(s, u)
  PROVE  /\ Alike(u, s)
         /\ MissingTables(u) = MissingTables(s) /\ \A c : Has(u, c) <=> Has(s, c)
         /\ Unassigned(u) = Unassigned(s) /\ EmptyDefaultProjects(u) = EmptyDefaultProjects(s)
         /\ InvalidPositions(u) = InvalidPositions(s)
         /\ \A f \in DOMAIN s.flows :
               Siblings(u, f) = Siblings(s, f)
               /\ \A g \in DOMAIN s.flows : Before(u, g, f) <=> Before(s, g, f)
         /\ HasParameters(u) = HasParameters(s)
         /\ Wired(u) = Wired(s) /\ HasDeclaredPorts(u) = HasDeclaredPorts(s)
         /\ u.flows = << >> <=> s.flows = << >>
<1>1. Alike(u, s) /\ MissingTables(u) = MissingTables(s) /\ \A c : Has(u, c) <=> Has(s, c)
  BY DEF Alike, MissingTables, Has
<1>2. Unassigned(u) = Unassigned(s) /\ EmptyDefaultProjects(u) = EmptyDefaultProjects(s)
  BY DEF Alike, Unassigned, EmptyDefaultProjects
<1>3. \A f \in DOMAIN s.flows :
          Siblings(u, f) = Siblings(s, f) /\ Siblings(s, f) \subseteq DOMAIN s.flows
  BY DEF Alike, Siblings
<1>4. \A f, g \in DOMAIN s.flows : Before(u, g, f) <=> Before(s, g, f)
  BY DEF Alike, Before
<1>5. InvalidPositions(u) = InvalidPositions(s)
  <2>1. \A f \in DOMAIN s.flows : {u.flows[g].position : g \in Siblings(u, f)}
                                  = {s.flows[g].position : g \in Siblings(s, f)}
    BY <1>3 DEF Alike
  <2>2. DOMAIN u.flows = DOMAIN s.flows
    BY DEF Alike
  <2>3. \A f \in DOMAIN s.flows :
            ({u.flows[g].position : g \in Siblings(u, f)} = 0..(Cardinality(Siblings(u, f)) - 1))
            <=> ({s.flows[g].position : g \in Siblings(s, f)} = 0..(Cardinality(Siblings(s, f)) - 1))
    BY <1>3, <2>1
  <2> QED
    BY <2>2, <2>3, Zenon DEF InvalidPositions
<1>6. HasParameters(u) = HasParameters(s) /\ Wired(u) = Wired(s)
      /\ HasDeclaredPorts(u) = HasDeclaredPorts(s)
  BY DEF Alike, HasParameters, Wired, HasDeclaredPorts
<1>7. u.flows = << >> <=> s.flows = << >>
  <2>1. /\ s.flows \in Seq(FlowRows) /\ DOMAIN s.flows = 1..Len(s.flows) /\ Len(s.flows) \in Nat
        /\ u.flows \in Seq(FlowRows) /\ DOMAIN u.flows = 1..Len(u.flows) /\ Len(u.flows) \in Nat
        /\ DOMAIN u.flows = DOMAIN s.flows
    BY DEF Alike, Stores
  <2>2. /\ s.flows # << >> => 1 \in DOMAIN s.flows
        /\ u.flows # << >> => 1 \in DOMAIN u.flows
    BY <2>1
  <2>3. /\ s.flows = << >> => DOMAIN s.flows = {}
        /\ u.flows = << >> => DOMAIN u.flows = {}
    OBVIOUS
  <2> QED
    BY <2>1, <2>2, <2>3
<1> QED
  BY <1>1, <1>2, <1>3, <1>4, <1>5, <1>6, <1>7

LEMMA AlikeStores ==
  ASSUME NEW s, NEW u, Alike(s, u), IsStore(s), NEW n \in 0..10, UpTo(n, s)
  PROVE  IsStore(u) /\ UpTo(n, u)
<1>1. UpTo(n, u)
  BY AlikeDecide DEF UpTo, HasPositions
<1>2. IsStore(u)
  <2>1. Has(u, "source_port") <=> Has(s, "source_port")
    BY AlikeDecide
  <2>2. Ports(u) = Ports(s) /\ Declarable(u) = Declarable(s)
    BY <2>1 DEF Ports, Declarable, Alike
  <2>3. u.flows = << >> <=> s.flows = << >>
    BY AlikeDecide
  <2> QED
    BY <2>1, <2>2, <2>3 DEF IsStore, Alike
<1> QED
  BY <1>1, <1>2

LEMMA AlikeAfterColumn ==
  ASSUME NEW s, NEW u, Alike(s, u), NEW c \in Columns
  PROVE  Alike(WithColumn(s, c), WithColumn(u, c))
<1> DEFINE t == WithColumn(s, c)
           v == WithColumn(u, c)
<1>1. /\ t \in Stores /\ t.tables = s.tables /\ t.columns = s.columns \cup {c}
      /\ SameRows(s, t) /\ SameBlocks(s, t)
  BY ColumnAdded DEF Alike
<1>2. /\ v \in Stores /\ v.tables = u.tables /\ v.columns = u.columns \cup {c}
      /\ SameRows(u, v) /\ SameBlocks(u, v)
  BY ColumnAdded DEF Alike
<1> HIDE DEF t, v
<1>3. Alike(t, v)
  BY <1>1, <1>2 DEF Alike, SameRows, SameBlocks
<1> QED
  BY <1>3 DEF t, v

LEMMA AlikeAfterParameters ==
  ASSUME NEW s, NEW u, Alike(s, u), IsStore(s), UpTo(3, s)
  PROVE  Alike(EnsureLegacyBlockParameters(s), EnsureLegacyBlockParameters(u))
<1> DEFINE t == EnsureLegacyBlockParameters(s)
           v == EnsureLegacyBlockParameters(u)
<1>1. IsStore(u) /\ UpTo(3, u)
  BY AlikeStores
<1>2. t \in Stores /\ v \in Stores
  BY <1>1, EnsureLegacyBlockParametersStep DEF IsStore
<1>3. /\ t.tables = s.tables /\ t.columns = s.columns /\ SameRows(s, t) /\ t.wires = s.wires
      /\ t.amplitude = IF s.amplitude = "column" THEN "json" ELSE s.amplitude
      /\ t.signs = IF s.amplitude # "none" /\ s.signs = << >> THEN <<"+">> ELSE s.signs
  BY DEF Alike, Stores, EnsureLegacyBlockParameters, SameRows
<1>4. /\ v.tables = u.tables /\ v.columns = u.columns /\ SameRows(u, v) /\ v.wires = u.wires
      /\ v.amplitude = IF u.amplitude = "column" THEN "json" ELSE u.amplitude
      /\ v.signs = IF u.amplitude # "none" /\ u.signs = << >> THEN <<"+">> ELSE u.signs
  BY DEF Alike, Stores, EnsureLegacyBlockParameters, SameRows
<1> HIDE DEF t, v
<1>5. Alike(t, v)
  BY <1>2, <1>3, <1>4 DEF Alike, SameRows
<1> QED
  BY <1>5 DEF t, v

LEMMA AlikeAfterPorts ==
  ASSUME NEW s, NEW u, Alike(s, u), IsStore(s), UpTo(4, s)
  PROVE  Alike(EnsureConnectionPorts(s), EnsureConnectionPorts(u))
<1>1. CASE Has(s, "source_port")
  BY <1>1, AlikeDecide DEF EnsureConnectionPorts
<1>2. CASE ~Has(s, "source_port")
  <2> DEFINE t == EnsureConnectionPorts(s)
             v == EnsureConnectionPorts(u)
             m == WithColumn(s, "source_port")
             w == WithColumn(u, "source_port")
  <2>1. IsStore(u) /\ UpTo(4, u)
    BY AlikeStores
  <2>2. t \in Stores /\ v \in Stores
    BY <2>1, EnsureConnectionPortsStep DEF IsStore
  <2>3. Alike(m, w)
    BY AlikeAfterColumn DEF Columns
  <2>4. ~Has(u, "source_port")
    BY <1>2, AlikeDecide
  <2>5. t = [m EXCEPT !.wires = [x \in DOMAIN @ |-> x - 1]]
    BY <1>2 DEF EnsureConnectionPorts
  <2>6. v = [w EXCEPT !.wires = [x \in DOMAIN @ |-> x - 1]]
    BY <2>4 DEF EnsureConnectionPorts
  <2> HIDE DEF t, v, m, w
  <2>7. Alike(t, v)
    BY <2>2, <2>3, <2>5, <2>6 DEF Alike, Stores
  <2> QED
    BY <2>7 DEF t, v
<1> QED
  BY <1>1, <1>2

LEMMA AlikeAfterDeclared ==
  ASSUME NEW s, NEW u, Alike(s, u), IsStore(s), UpTo(5, s)
  PROVE  Alike(EnsureDeclaredInputPorts(s), EnsureDeclaredInputPorts(u))
<1>1. CASE HasDeclaredPorts(s)
  BY <1>1, AlikeDecide DEF EnsureDeclaredInputPorts, HasDeclaredPorts
<1>2. CASE ~HasDeclaredPorts(s)
  <2> DEFINE t == EnsureDeclaredInputPorts(s)
             v == EnsureDeclaredInputPorts(u)
  <2>1. IsStore(u) /\ UpTo(5, u)
    BY AlikeStores
  <2>2. t \in Stores /\ v \in Stores
    BY <2>1, EnsureDeclaredInputPortsStep DEF IsStore
  <2>3. t = [s EXCEPT !.signs = [p \in 1..Wired(s) |-> s.signs[1]]]
    BY <1>2 DEF EnsureDeclaredInputPorts, HasDeclaredPorts
  <2>4. v = [u EXCEPT !.signs = [p \in 1..Wired(u) |-> u.signs[1]]]
    BY <1>2, AlikeDecide DEF EnsureDeclaredInputPorts, HasDeclaredPorts
  <2>5. Wired(u) = Wired(s)
    BY AlikeDecide
  <2> HIDE DEF t, v
  <2>6. Alike(t, v)
    BY <2>2, <2>3, <2>4, <2>5 DEF Alike, Stores
  <2> QED
    BY <2>6 DEF t, v
<1> QED
  BY <1>1, <1>2

LEMMA AlikeAfterProjects ==
  ASSUME NEW s, NEW u, Alike(s, u)
  PROVE  Alike(EnsureProjects(s), EnsureProjects(u))
<1> DEFINE t == EnsureProjects(s)
           v == EnsureProjects(u)
<1>1. s \in Stores /\ u \in Stores
  BY DEF Alike
<1>2. /\ t \in Stores /\ t.tables = s.tables /\ t.columns = s.columns \cup {"project_id"}
      /\ SameBlocks(s, t)
      /\ t.projects = IF Unassigned(s) = {} THEN s.projects ELSE WithHome(s)
      /\ t.flows = IF Unassigned(s) = {} THEN s.flows ELSE Assigned(s)
  BY <1>1, EnsureProjectsFields
<1>3. /\ v \in Stores /\ v.tables = u.tables /\ v.columns = u.columns \cup {"project_id"}
      /\ SameBlocks(u, v)
      /\ v.projects = IF Unassigned(u) = {} THEN u.projects ELSE WithHome(u)
      /\ v.flows = IF Unassigned(u) = {} THEN u.flows ELSE Assigned(u)
  BY <1>1, EnsureProjectsFields
<1>4. Unassigned(u) = Unassigned(s) /\ EmptyDefaultProjects(u) = EmptyDefaultProjects(s)
  BY AlikeDecide
<1>5. Home(u) = Home(s) /\ WithHome(u) = WithHome(s)
  BY <1>4 DEF Alike, Home, WithHome
<1>6. DOMAIN Assigned(u) = DOMAIN Assigned(s) /\ DOMAIN Assigned(s) = DOMAIN s.flows
  BY DEF Alike, Assigned
<1>7. ASSUME NEW f \in DOMAIN s.flows
      PROVE  /\ Assigned(u)[f].project = Assigned(s)[f].project
             /\ Assigned(u)[f].position = Assigned(s)[f].position
  <2>1. /\ s.flows[f] \in FlowRows /\ u.flows[f] \in FlowRows /\ f \in DOMAIN u.flows
        /\ u.flows[f].project = s.flows[f].project
        /\ u.flows[f].position = s.flows[f].position
    BY DEF Alike, Stores
  <2> QED
    BY <1>4, <1>5, <2>1 DEF Assigned, FlowRows
<1> HIDE DEF t, v
<1>8. Alike(t, v)
  BY <1>2, <1>3, <1>4, <1>5, <1>6, <1>7 DEF Alike, SameBlocks
<1> QED
  BY <1>8 DEF t, v

LEMMA AlikeAfterPositions ==
  ASSUME NEW s, NEW u, Alike(s, u)
  PROVE  Alike(EnsureFlowPositions(s), EnsureFlowPositions(u))
<1>1. CASE HasPositions(s)
  BY <1>1, AlikeDecide DEF EnsureFlowPositions, HasPositions
<1>2. CASE ~HasPositions(s)
  <2> DEFINE t == EnsureFlowPositions(s)
             v == EnsureFlowPositions(u)
  <2>1. s \in Stores /\ u \in Stores /\ ~HasPositions(u)
    BY <1>2, AlikeDecide DEF Alike, HasPositions
  <2>2. /\ t \in Stores /\ t.tables = s.tables /\ t.columns = s.columns \cup {"position"}
        /\ SameBlocks(s, t) /\ t.projects = s.projects /\ t.flows = Numbered(s)
    BY <1>2, <2>1, EnsureFlowPositionsFields
  <2>3. /\ v \in Stores /\ v.tables = u.tables /\ v.columns = u.columns \cup {"position"}
        /\ SameBlocks(u, v) /\ v.projects = u.projects /\ v.flows = Numbered(u)
    BY <2>1, EnsureFlowPositionsFields
  <2>4. DOMAIN Numbered(u) = DOMAIN Numbered(s) /\ DOMAIN Numbered(s) = DOMAIN s.flows
    BY DEF Alike, Numbered
  <2>5. ASSUME NEW f \in DOMAIN s.flows
        PROVE  /\ Numbered(u)[f].project = Numbered(s)[f].project
               /\ Numbered(u)[f].position = Numbered(s)[f].position
    <3>1. f \in DOMAIN u.flows /\ u.flows[f].project = s.flows[f].project
      BY DEF Alike
    <3>2. Siblings(u, f) = Siblings(s, f) /\ Siblings(s, f) \subseteq DOMAIN s.flows
          /\ \A g \in DOMAIN s.flows : Before(u, g, f) <=> Before(s, g, f)
      BY AlikeDecide DEF Siblings
    <3>3. {g \in Siblings(u, f) : Before(u, g, f)} = {g \in Siblings(s, f) : Before(s, g, f)}
      BY <3>2
    <3> QED
      BY <2>1, <3>1, <3>3, NumberedRows
  <2> HIDE DEF t, v
  <2>6. Alike(t, v)
    BY <2>2, <2>3, <2>4, <2>5 DEF Alike, SameBlocks
  <2> QED
    BY <2>6 DEF t, v
<1> QED
  BY <1>1, <1>2

LEMMA AlikeAfterSeed ==
  ASSUME NEW s, NEW u, Alike(s, u)
  PROVE  Alike(Seed(s), Seed(u))
<1>1. CASE s.flows # << >>
  BY <1>1, AlikeDecide DEF Seed
<1>2. CASE s.flows = << >>
  <2> DEFINE t == Seed(s)
             v == Seed(u)
  <2>1. s \in Stores /\ u \in Stores /\ u.flows = << >>
    BY <1>2, AlikeDecide DEF Alike
  <2>2. /\ t \in Stores /\ t.tables = s.tables /\ t.columns = s.columns
        /\ t.projects = WithExample(s) /\ t.flows = <<Example(s)>>
        /\ t.amplitude = "json" /\ t.signs = <<"+", "+">> /\ t.wires = <<0, 1>>
    BY <1>2, <2>1, SeedFields
  <2>3. /\ v \in Stores /\ v.tables = u.tables /\ v.columns = u.columns
        /\ v.projects = WithExample(u) /\ v.flows = <<Example(u)>>
        /\ v.amplitude = "json" /\ v.signs = <<"+", "+">> /\ v.wires = <<0, 1>>
    BY <2>1, SeedFields
  <2>4. WithExample(u) = WithExample(s) /\ Example(u) = Example(s)
    BY DEF Alike, WithExample, Example
  <2> HIDE DEF t, v
  <2>5. Alike(t, v)
    BY <2>2, <2>3, <2>4 DEF Alike
  <2> QED
    BY <2>5 DEF t, v
<1> QED
  BY <1>1, <1>2

LEMMA AlikeUnstamped ==
  ASSUME NEW s, NEW u, Alike(s, u)
  PROVE  Unstamped(s) = Unstamped(u)
<1> DEFINE t == Stamping(s, TRUE)
           v == Stamping(u, TRUE)
<1>1. t = Unstamped(s) /\ v = Unstamped(u)
  BY DEF Stamping, Unstamped
<1>2. s \in Stores /\ u \in Stores
  BY DEF Alike
<1>3. /\ Alike(s, t) /\ \A f \in DOMAIN t.flows : t.flows[f].stamped = TRUE
      /\ Alike(u, v) /\ \A f \in DOMAIN v.flows : v.flows[f].stamped = TRUE
  BY <1>2, StampingFields
<1> HIDE DEF t, v
<1>4. Alike(t, v)
  BY <1>3 DEF Alike
<1>5. t.flows = v.flows
  <2>1. /\ t.flows \in Seq(FlowRows) /\ DOMAIN t.flows = 1..Len(t.flows)
        /\ v.flows \in Seq(FlowRows) /\ DOMAIN v.flows = 1..Len(v.flows)
        /\ Len(t.flows) \in Nat /\ Len(v.flows) \in Nat
        /\ DOMAIN v.flows = DOMAIN t.flows
    BY <1>4 DEF Alike, Stores
  <2>2. ASSUME NEW f \in DOMAIN t.flows PROVE t.flows[f] = v.flows[f]
    <3>1. t.flows[f] \in FlowRows /\ v.flows[f] \in FlowRows
      BY <2>1
    <3>2. /\ t.flows[f].project = v.flows[f].project /\ t.flows[f].position = v.flows[f].position
          /\ t.flows[f].stamped = v.flows[f].stamped
      BY <1>3, <1>4, <2>1 DEF Alike
    <3> QED
      BY <3>1, <3>2 DEF FlowRows
  <2>3. Len(t.flows) = Len(v.flows)
    BY <2>1
  <2> QED
    BY <2>1, <2>2, <2>3
<1>6. t = v
  <2>1. t \in Stores /\ v \in Stores
    BY <1>4 DEF Alike
  <2>2. /\ t.tables = v.tables /\ t.columns = v.columns /\ t.projects = v.projects
        /\ t.amplitude = v.amplitude /\ t.signs = v.signs /\ t.wires = v.wires
    BY <1>4 DEF Alike
  <2> QED
    BY <1>5, <2>1, <2>2, SameFields
<1> QED
  BY <1>1, <1>6

(***************************************************************************)
(* Revisions                                                               *)
(***************************************************************************)
StampedRows(s) == \A f \in DOMAIN s.flows : s.flows[f].stamped

LEMMA AddRevisionsStep ==
  ASSUME NEW s, IsStore(s), UpTo(1, s), NEW t, t = AddRevisions(s)
  PROVE  IsStore(t) /\ UpTo(2, t)
<1> DEFINE m == WithColumn(s, "model_updated_at")
<1>1. s \in Stores /\ "model_updated_at" \in Columns \ {"source_port"}
  BY DEF IsStore, Columns
<1>2. IsStore(m) /\ UpTo(1, m) /\ Has(m, "model_updated_at")
  BY <1>1, ColumnKeepsTheRules, ColumnKeepsTheEnds
<1>3. m.flows = s.flows
  BY <1>1, ColumnAdded DEF SameRows
<1>4. t = Stamping(m, FALSE)
  BY <1>3 DEF AddRevisions, Stamping
<1> HIDE DEF m
<1>5. UpTo(2, m) /\ m \in Stores
  BY <1>2 DEF UpTo, IsStore
<1>6. Alike(m, t)
  BY <1>4, <1>5, StampingFields
<1> QED
  BY <1>2, <1>5, <1>6, AlikeStores

LEMMA FillRevisionsStep ==
  ASSUME NEW s, IsStore(s), UpTo(2, s), NEW t, t = FillRevisions(s)
  PROVE  IsStore(t) /\ UpTo(2, t) /\ StampedRows(t) /\ Alike(s, t)
<1>1. s \in Stores /\ t = Stamping(s, TRUE)
  BY DEF IsStore, FillRevisions, Stamping
<1>2. Alike(s, t) /\ \A f \in DOMAIN t.flows : t.flows[f].stamped = TRUE
  BY <1>1, StampingFields
<1> QED
  BY <1>2, AlikeStores DEF StampedRows

LEMMA AllRevisionsStep ==
  ASSUME NEW s, IsStore(s), UpTo(1, s), NEW t, t = AllRevisions(s)
  PROVE  /\ IsStore(t) /\ UpTo(2, t)
         /\ Has(s, "model_updated_at") => t = s
<1>1. CASE Has(s, "model_updated_at")
  BY <1>1 DEF AllRevisions, UpTo
<1>2. CASE ~Has(s, "model_updated_at")
  <2>1. IsStore(AddRevisions(s)) /\ UpTo(2, AddRevisions(s))
    BY AddRevisionsStep
  <2>2. t = FillRevisions(AddRevisions(s))
    BY <1>2 DEF AllRevisions
  <2> QED
    BY <1>2, <2>1, <2>2, FillRevisionsStep
<1> QED
  BY <1>1, <1>2

\* Whoever has a revision keeps one, and so do those that come.
LEMMA StepsKeepStamps ==
  ASSUME NEW s, IsStore(s), StampedRows(s)
  PROVE  /\ StampedRows(EnsureParametersJSON(s))
         /\ StampedRows(EnsureLegacyBlockParameters(s))
         /\ StampedRows(EnsureConnectionPorts(s))
         /\ StampedRows(EnsureDeclaredInputPorts(s))
         /\ StampedRows(EnsureProjects(s))
         /\ StampedRows(EnsureFlowPositions(s))
         /\ StampedRows(EnsureMirrored(s))
         /\ StampedRows(Seed(s))
<1>1. s \in Stores /\ \A f \in DOMAIN s.flows : s.flows[f] \in FlowRows
  BY DEF IsStore, Stores
<1>2. \A c \in Columns : WithColumn(s, c) \in Stores /\ WithColumn(s, c).flows = s.flows
  BY <1>1, ColumnAdded DEF SameRows
<1>3. StampedRows(EnsureParametersJSON(s)) /\ StampedRows(EnsureMirrored(s))
  BY <1>2 DEF EnsureParametersJSON, EnsureMirrored, StampedRows, Columns
<1>4. StampedRows(EnsureLegacyBlockParameters(s)) /\ StampedRows(EnsureDeclaredInputPorts(s))
  <2>1. EnsureLegacyBlockParameters(s).flows = s.flows
    BY <1>1 DEF EnsureLegacyBlockParameters, Stores
  <2>2. EnsureDeclaredInputPorts(s).flows = s.flows
    BY <1>1 DEF EnsureDeclaredInputPorts, Stores
  <2> QED
    BY <2>1, <2>2 DEF StampedRows
<1>5. StampedRows(EnsureConnectionPorts(s))
  <2> DEFINE m == WithColumn(s, "source_port")
  <2>1. m \in Stores /\ m.flows = s.flows
    BY <1>2 DEF Columns
  <2>2. \/ EnsureConnectionPorts(s) = s
        \/ EnsureConnectionPorts(s) = [m EXCEPT !.wires = [w \in DOMAIN @ |-> w - 1]]
    BY DEF EnsureConnectionPorts
  <2> HIDE DEF m
  <2>3. EnsureConnectionPorts(s).flows = s.flows
    BY <2>1, <2>2 DEF Stores
  <2> QED
    BY <2>3 DEF StampedRows
<1>6. StampedRows(EnsureProjects(s))
  <2>1. EnsureProjects(s).flows \in {s.flows, Assigned(s)}
    BY <1>1, EnsureProjectsFields
  <2>2. \A f \in DOMAIN s.flows : Assigned(s)[f].stamped
    BY <1>1 DEF Assigned, StampedRows, FlowRows
  <2>3. DOMAIN Assigned(s) = DOMAIN s.flows
    BY DEF Assigned
  <2> QED
    BY <2>1, <2>2, <2>3 DEF StampedRows
<1>7. StampedRows(EnsureFlowPositions(s))
  <2>1. CASE HasPositions(s)
    BY <2>1 DEF HasPositions, EnsureFlowPositions
  <2>2. CASE ~HasPositions(s)
    <3>1. EnsureFlowPositions(s).flows = Numbered(s)
      BY <1>1, <2>2, EnsureFlowPositionsFields
    <3>2. \A f \in DOMAIN s.flows : Numbered(s)[f].stamped
      BY <1>1 DEF Numbered, StampedRows, FlowRows
    <3>3. DOMAIN Numbered(s) = DOMAIN s.flows
      BY DEF Numbered
    <3> QED
      BY <3>1, <3>2, <3>3 DEF StampedRows
  <2> QED
    BY <2>1, <2>2
<1>8. StampedRows(Seed(s))
  <2>1. CASE s.flows = << >>
    <3>1. Seed(s).flows = <<Example(s)>>
      BY <1>1, <2>1, SeedFields
    <3>2. DOMAIN <<Example(s)>> = {1} /\ <<Example(s)>>[1] = Example(s) /\ Example(s).stamped
      BY DEF Example
    <3> QED
      BY <3>1, <3>2 DEF StampedRows
  <2>2. CASE s.flows # << >>
    BY <2>2 DEF Seed
  <2> QED
    BY <2>1, <2>2
<1> QED
  BY <1>3, <1>4, <1>5, <1>6, <1>7, <1>8

(***************************************************************************)
(* What is left to do                                                      *)
(***************************************************************************)
RestFrom8(s) == Seed(EnsureMirrored(s))
RestFrom7(s) == RestFrom8(EnsureFlowPositions(s))
RestFrom6(s) == RestFrom7(EnsureProjects(s))
RestFrom5(s) == RestFrom6(EnsureDeclaredInputPorts(s))
RestFrom4(s) == RestFrom5(EnsureConnectionPorts(s))
RestFrom3(s) == RestFrom4(EnsureLegacyBlockParameters(s))
RestFrom2(s) == RestFrom3(EnsureParametersJSON(s))

LEMMA CompletedInParts ==
  ASSUME NEW s
  PROVE  Completed(s) = RestFrom2(AllRevisions(AllTables(s)))
  BY DEF Completed, AllTabs, AllPorts, AllParameters, RestFrom2, RestFrom3, RestFrom4,
         RestFrom5, RestFrom6, RestFrom7, RestFrom8

\* The parts of Open that are done find nothing to do.
LEMMA WhatIsLeft ==
  ASSUME NEW s, IsStore(s)
  PROVE  /\ UpTo(1, s) => Completed(s) = RestFrom2(AllRevisions(s))
         /\ UpTo(2, s) => Completed(s) = RestFrom2(s)
         /\ UpTo(3, s) => Completed(s) = RestFrom3(s)
         /\ UpTo(4, s) => Completed(s) = RestFrom4(s)
         /\ UpTo(5, s) => Completed(s) = RestFrom5(s)
         /\ UpTo(6, s) => Completed(s) = RestFrom6(s)
         /\ UpTo(7, s) => Completed(s) = RestFrom7(s)
         /\ UpTo(8, s) => Completed(s) = RestFrom8(s)
         /\ UpTo(9, s) => Completed(s) = Seed(s)
         /\ UpTo(10, s) => Completed(s) = s
<1>1. UpTo(1, s) => Completed(s) = RestFrom2(AllRevisions(s))
  BY CompletedInParts, AllTablesStep DEF UpTo
<1>2. UpTo(2, s) => Completed(s) = RestFrom2(s)
  BY <1>1, AllRevisionsStep DEF UpTo
<1>3. UpTo(3, s) => Completed(s) = RestFrom3(s)
  BY <1>2, EnsureParametersJSONStep DEF UpTo, RestFrom2
<1>4. UpTo(4, s) => Completed(s) = RestFrom4(s)
  BY <1>3, EnsureLegacyBlockParametersStep DEF UpTo, RestFrom3
<1>5. UpTo(5, s) => Completed(s) = RestFrom5(s)
  BY <1>4, EnsureConnectionPortsStep DEF UpTo, RestFrom4
<1>6. UpTo(6, s) => Completed(s) = RestFrom6(s)
  BY <1>5, EnsureDeclaredInputPortsStep DEF UpTo, RestFrom5
<1>7. UpTo(7, s) => Completed(s) = RestFrom7(s)
  BY <1>6, EnsureProjectsStep DEF UpTo, RestFrom6
<1>8. UpTo(8, s) => Completed(s) = RestFrom8(s)
  BY <1>7, EnsureFlowPositionsStep DEF UpTo, RestFrom7
<1>9. UpTo(9, s) => Completed(s) = Seed(s)
  BY <1>8, EnsureMirroredStep DEF UpTo, RestFrom8
<1>10. UpTo(10, s) => Completed(s) = s
  BY <1>9, SeedStep DEF UpTo
<1> QED
  BY <1>1, <1>2, <1>3, <1>4, <1>5, <1>6, <1>7, <1>8, <1>9, <1>10

\* Stores that differ in revisions only end as such.
LEMMA RestsAreAlike ==
  ASSUME NEW s, NEW u, IsStore(s), UpTo(2, s), Alike(s, u)
  PROVE  Unstamped(RestFrom2(s)) = Unstamped(RestFrom2(u))
<1> DEFINE s3 == EnsureParametersJSON(s)
           s4 == EnsureLegacyBlockParameters(s3)
           s5 == EnsureConnectionPorts(s4)
           s6 == EnsureDeclaredInputPorts(s5)
           u3 == EnsureParametersJSON(u)
           u4 == EnsureLegacyBlockParameters(u3)
           u5 == EnsureConnectionPorts(u4)
           u6 == EnsureDeclaredInputPorts(u5)
<1>1. IsStore(s3) /\ UpTo(3, s3) /\ Alike(s3, u3)
  BY EnsureParametersJSONStep, AlikeAfterColumn DEF EnsureParametersJSON, Columns
<1>2. IsStore(s4) /\ UpTo(4, s4) /\ Alike(s4, u4)
  <2> HIDE DEF s3, u3
  <2> QED
    BY <1>1, EnsureLegacyBlockParametersStep, AlikeAfterParameters
<1>3. IsStore(s5) /\ UpTo(5, s5) /\ Alike(s5, u5)
  <2> HIDE DEF s4, u4
  <2> QED
    BY <1>2, EnsureConnectionPortsStep, AlikeAfterPorts
<1>4. Alike(s6, u6)
  <2> HIDE DEF s5, u5
  <2> QED
    BY <1>3, AlikeAfterDeclared
<1>5. RestFrom2(s) = RestFrom6(s6) /\ RestFrom2(u) = RestFrom6(u6)
  BY DEF RestFrom2, RestFrom3, RestFrom4, RestFrom5
<1> HIDE DEF s6, u6
<1>6. Alike(RestFrom6(s6), RestFrom6(u6))
  <2> DEFINE s8 == EnsureFlowPositions(EnsureProjects(s6))
             u8 == EnsureFlowPositions(EnsureProjects(u6))
  <2>1. Alike(s8, u8)
    BY <1>4, AlikeAfterProjects, AlikeAfterPositions
  <2>2. RestFrom6(s6) = Seed(EnsureMirrored(s8)) /\ RestFrom6(u6) = Seed(EnsureMirrored(u8))
    BY DEF RestFrom6, RestFrom7, RestFrom8
  <2> HIDE DEF s8, u8
  <2>3. Alike(EnsureMirrored(s8), EnsureMirrored(u8))
    BY <2>1, AlikeAfterColumn DEF EnsureMirrored, Columns
  <2> QED
    BY <2>2, <2>3, AlikeAfterSeed
<1> QED
  BY <1>5, <1>6, AlikeUnstamped

\* A fresh database is opened to the end in one go.
LEMMA FreshIsOpened == UpTo(10, FreshStore)
<1> DEFINE s1 == AllTables(EmptyStore)
           s2 == AllRevisions(s1)
           s3 == EnsureParametersJSON(s2)
           s4 == EnsureLegacyBlockParameters(s3)
           s5 == EnsureConnectionPorts(s4)
           s6 == EnsureDeclaredInputPorts(s5)
           s7 == EnsureProjects(s6)
           s8 == EnsureFlowPositions(s7)
           s9 == EnsureMirrored(s8)
<1>1. IsStore(EmptyStore)
  <2>1. EmptyStore \in Stores
    <3>1. \A T : << >> \in Seq(T)
      OBVIOUS
    <3> QED
      BY <3>1 DEF EmptyStore, Stores
  <2>2. Ports(EmptyStore) = {}
    BY DEF Ports, EmptyStore, Has
  <2>3. ~Has(EmptyStore, "source_port")
    BY DEF EmptyStore, Has
  <2> QED
    BY <2>1, <2>2, <2>3 DEF IsStore, EmptyStore
<1>2. IsStore(s1) /\ UpTo(1, s1)
  BY <1>1, AllTablesStep
<1>3. IsStore(s2) /\ UpTo(2, s2)
  <2> HIDE DEF s1
  <2> QED
    BY <1>2, AllRevisionsStep
<1>4. IsStore(s3) /\ UpTo(3, s3)
  <2> HIDE DEF s2
  <2> QED
    BY <1>3, EnsureParametersJSONStep
<1>5. IsStore(s4) /\ UpTo(4, s4)
  <2> HIDE DEF s3
  <2> QED
    BY <1>4, EnsureLegacyBlockParametersStep
<1>6. IsStore(s5) /\ UpTo(5, s5)
  <2> HIDE DEF s4
  <2> QED
    BY <1>5, EnsureConnectionPortsStep
<1>7. IsStore(s6) /\ UpTo(6, s6)
  <2> HIDE DEF s5
  <2> QED
    BY <1>6, EnsureDeclaredInputPortsStep
<1>8. IsStore(s7) /\ UpTo(7, s7)
  <2> HIDE DEF s6
  <2> QED
    BY <1>7, EnsureProjectsStep
<1>9. IsStore(s8) /\ UpTo(8, s8)
  <2> HIDE DEF s7
  <2> QED
    BY <1>8, EnsureFlowPositionsStep
<1>10. IsStore(s9) /\ UpTo(9, s9)
  <2> HIDE DEF s8
  <2> QED
    BY <1>9, EnsureMirroredStep
<1>11. FreshStore = Seed(s9)
  BY DEF FreshStore, Completed, AllTabs, AllPorts, AllParameters
<1> HIDE DEF s9
<1> QED
  BY <1>10, <1>11, SeedStep

(***************************************************************************)
(* The invariant of opening                                                *)
(***************************************************************************)
\* How many parts of Open have been brought about where it stands.
Reached ==
    [schema |-> 0, ensureModelUpdatedAt |-> 1, fillModelUpdatedAt |-> 2,
     ensureParametersJSON |-> 2, ensureLegacyBlockParameters |-> 3, ensureConnectionPorts |-> 4,
     ensureDeclaredInputPorts |-> 5, ensureProjects |-> 6, ensureFlowPositions |-> 7,
     mirrored |-> 8, seed |-> 9, serving |-> 10, down |-> 0]

StoreInv ==
    /\ at \in DOMAIN Reached
    /\ IsStore(store)
    /\ UpTo(Reached[at], store)
    /\ crashes \in Nat
    /\ crashes = 0 /\ at # "fillModelUpdatedAt" => IsStamped(store)

SameEnd(s, t) == Unstamped(Completed(t)) = Unstamped(Completed(s))

LEMMA StoreInvInit == StoreInit => StoreInv
<1> SUFFICES ASSUME StoreInit PROVE StoreInv
  OBVIOUS
<1>1. at = "schema" /\ crashes = 0 /\ IsStore(store) /\ IsStamped(store)
  BY LegacyAssumption DEF StoreInit
<1>2. at \in DOMAIN Reached /\ Reached[at] = 0
  BY <1>1 DEF Reached
<1>3. UpTo(0, store)
  BY DEF UpTo
<1> QED
  BY <1>1, <1>2, <1>3 DEF StoreInv

\* A step that brings about part n of Open.
LEMMA PartBroughtAbout ==
  ASSUME NEW here \in DOMAIN Reached, NEW next \in DOMAIN Reached, NEW t,
         StoreInv, Step(here, next, t),
         here # "fillModelUpdatedAt",
         IsStore(t), UpTo(Reached[next], t),
         IsStamped(store) => IsStamped(t) \/ next = "fillModelUpdatedAt"
  PROVE  StoreInv'
<1>1. at = here /\ at' = next /\ store' = t /\ crashes' = crashes
  BY DEF Step
<1>2. crashes = 0 => IsStamped(store)
  BY <1>1 DEF StoreInv
<1>3. crashes' = 0 /\ at' # "fillModelUpdatedAt" => IsStamped(store')
  BY <1>1, <1>2
<1>4. UpTo(Reached[at'], store') /\ IsStore(store')
  BY <1>1
<1> QED
  BY <1>1, <1>3, <1>4 DEF StoreInv

LEMMA UpToLess ==
  ASSUME NEW s, NEW m \in 0..10, NEW n \in 0..10, m <= n, UpTo(n, s)
  PROVE  UpTo(m, s)
  BY DEF UpTo

\* The rows of a store that has the revisions are stamped if they are in order.
LEMMA StampedIsStamped ==
  ASSUME NEW s
  PROVE  /\ StampedRows(s) => IsStamped(s)
         /\ IsStamped(s) /\ UpTo(2, s) => StampedRows(s)
  BY DEF StampedRows, IsStamped, UpTo

LEMMA CreateTableOpens ==
  ASSUME StoreInv, CreateTable
  PROVE  StoreInv' /\ SameEnd(store, store')
<1>1. PICK i \in MissingTables(store) : Step("schema", "schema", WithTable(store, Tables[i]))
  BY DEF CreateTable
<1> DEFINE t == WithTable(store, Tables[i])
<1>2. IsStore(store)
  BY DEF StoreInv
<1>3. IsStore(t) /\ (IsStamped(store) => IsStamped(t)) /\ AllTables(t) = AllTables(store)
  BY <1>2, CreateTableStep
<1>4. Step("schema", "schema", t)
  BY <1>1
<1> HIDE DEF t
<1>5. "schema" \in DOMAIN Reached /\ Reached["schema"] = 0 /\ UpTo(0, t)
  BY DEF Reached, UpTo
<1>6. StoreInv'
  BY <1>3, <1>4, <1>5, PartBroughtAbout
<1>7. Completed(t) = Completed(store)
  BY <1>3, CompletedInParts
<1> QED
  BY <1>4, <1>6, <1>7 DEF Step, SameEnd

LEMMA CreateIndexesOpens ==
  ASSUME StoreInv, CreateIndexes
  PROVE  StoreInv' /\ SameEnd(store, store')
<1> DEFINE next == IF store = FreshStore THEN "serving" ELSE "ensureModelUpdatedAt"
<1>1. MissingTables(store) = {} /\ Step("schema", next, store) /\ IsStore(store)
  BY DEF CreateIndexes, StoreInv
<1>2. "schema" \in DOMAIN Reached /\ next \in DOMAIN Reached
  BY DEF Reached
<1>3. UpTo(Reached[next], store)
  <2>1. Reached["serving"] = 10 /\ Reached["ensureModelUpdatedAt"] = 1
    BY DEF Reached
  <2>2. UpTo(1, store)
    BY <1>1 DEF UpTo
  <2> QED
    BY <2>1, <2>2, FreshIsOpened
<1> HIDE DEF next
<1>4. StoreInv'
  BY <1>1, <1>2, <1>3, PartBroughtAbout
<1> QED
  BY <1>1, <1>4 DEF Step, SameEnd

LEMMA EnsureModelUpdatedAtOpens ==
  ASSUME StoreInv, EnsureModelUpdatedAt
  PROVE  StoreInv' /\ SameEnd(store, store')
<1>1. /\ at = "ensureModelUpdatedAt" /\ IsStore(store) /\ UpTo(1, store)
  BY DEF EnsureModelUpdatedAt, Step, StoreInv, Reached
<1>2. /\ "ensureModelUpdatedAt" \in DOMAIN Reached
      /\ "fillModelUpdatedAt" \in DOMAIN Reached /\ Reached["fillModelUpdatedAt"] = 2
      /\ "ensureParametersJSON" \in DOMAIN Reached /\ Reached["ensureParametersJSON"] = 2
  BY DEF Reached
<1>3. CASE Has(store, "model_updated_at")
  <2>1. Step("ensureModelUpdatedAt", "ensureParametersJSON", store)
    BY <1>3 DEF EnsureModelUpdatedAt
  <2>2. UpTo(2, store)
    BY <1>1, <1>3 DEF UpTo
  <2>3. StoreInv'
    BY <1>1, <1>2, <2>1, <2>2, PartBroughtAbout
  <2> QED
    BY <2>1, <2>3 DEF Step, SameEnd
<1>4. CASE ~Has(store, "model_updated_at")
  <2> DEFINE t == AddRevisions(store)
  <2>1. Step("ensureModelUpdatedAt", "fillModelUpdatedAt", t)
    BY <1>4 DEF EnsureModelUpdatedAt
  <2>2. IsStore(t) /\ UpTo(2, t)
    BY <1>1, AddRevisionsStep
  <2>3. Completed(store) = RestFrom2(FillRevisions(t))
    BY <1>1, <1>4, WhatIsLeft DEF AllRevisions
  <2> HIDE DEF t
  <2>4. StoreInv'
    BY <1>2, <2>1, <2>2, PartBroughtAbout
  <2>5. Completed(t) = RestFrom2(t)
    BY <2>2, WhatIsLeft
  <2>6. Alike(t, FillRevisions(t))
    BY <2>2, FillRevisionsStep
  <2>7. SameEnd(store, t)
    BY <2>2, <2>3, <2>5, <2>6, RestsAreAlike DEF SameEnd
  <2> QED
    BY <2>1, <2>4, <2>7 DEF Step
<1> QED
  BY <1>3, <1>4

LEMMA FillModelUpdatedAtOpens ==
  ASSUME StoreInv, FillModelUpdatedAt
  PROVE  StoreInv' /\ SameEnd(store, store')
<1> DEFINE t == FillRevisions(store)
<1>1. /\ at = "fillModelUpdatedAt" /\ IsStore(store) /\ UpTo(2, store) /\ crashes \in Nat
      /\ at' = "ensureParametersJSON" /\ store' = t /\ crashes' = crashes
  BY DEF FillModelUpdatedAt, Step, StoreInv, Reached
<1>2. IsStore(t) /\ UpTo(2, t) /\ StampedRows(t) /\ Alike(store, t)
  BY <1>1, FillRevisionsStep
<1> HIDE DEF t
<1>3. at' \in DOMAIN Reached /\ Reached[at'] = 2
  BY <1>1 DEF Reached
<1>4. IsStamped(t)
  BY <1>2, StampedIsStamped
<1>5. StoreInv'
  <2>1. UpTo(Reached[at'], store') /\ IsStore(store') /\ IsStamped(store')
    BY <1>1, <1>2, <1>3, <1>4
  <2> QED
    BY <1>1, <1>3, <2>1 DEF StoreInv
<1>6. Completed(store) = RestFrom2(store) /\ Completed(t) = RestFrom2(t)
  BY <1>1, <1>2, WhatIsLeft
<1> QED
  BY <1>1, <1>2, <1>5, <1>6, RestsAreAlike DEF SameEnd

\* A part that is one commit: it brings about its end, keeps the revisions and is what
\* was first of all that was left.
LEMMA PartOpens ==
  ASSUME NEW here \in DOMAIN Reached, NEW next \in DOMAIN Reached, NEW t,
         StoreInv, Step(here, next, t), here # "fillModelUpdatedAt", Reached[here] \in 2..10,
         IsStore(t), UpTo(Reached[next], t),
         StampedRows(store) => StampedRows(t),
         Completed(t) = Completed(store)
  PROVE  StoreInv' /\ SameEnd(store, store')
<1>1. UpTo(Reached[here], store)
  BY DEF StoreInv, Step
<1>2. UpTo(2, store)
  BY <1>1, UpToLess
<1>3. IsStamped(store) => IsStamped(t)
  BY <1>2, StampedIsStamped
<1>4. StoreInv'
  BY <1>3, PartBroughtAbout
<1> QED
  BY <1>4 DEF Step, SameEnd

LEMMA MigrateParametersOpens ==
  ASSUME StoreInv, MigrateParameters
  PROVE  StoreInv' /\ SameEnd(store, store')
<1>1. IsStore(store)
  BY DEF StoreInv
<1>2. /\ "ensureParametersJSON" \in DOMAIN Reached /\ Reached["ensureParametersJSON"] = 2
      /\ "ensureLegacyBlockParameters" \in DOMAIN Reached
      /\ Reached["ensureLegacyBlockParameters"] = 3
      /\ "ensureConnectionPorts" \in DOMAIN Reached /\ Reached["ensureConnectionPorts"] = 4
  BY DEF Reached
<1>3. CASE Step("ensureParametersJSON", "ensureLegacyBlockParameters",
                EnsureParametersJSON(store))
  <2> DEFINE t == EnsureParametersJSON(store)
  <2>1. UpTo(2, store)
    BY <1>2, <1>3 DEF StoreInv, Step
  <2>2. IsStore(t) /\ UpTo(3, t) /\ (StampedRows(store) => StampedRows(t))
    BY <1>1, <2>1, EnsureParametersJSONStep, StepsKeepStamps
  <2>3. Completed(t) = Completed(store)
    BY <1>1, <2>1, <2>2, WhatIsLeft DEF RestFrom2
  <2>4. Step("ensureParametersJSON", "ensureLegacyBlockParameters", t)
    BY <1>3
  <2> HIDE DEF t
  <2> QED
    BY <1>2, <2>2, <2>3, <2>4, PartOpens
<1>4. CASE Step("ensureLegacyBlockParameters", "ensureConnectionPorts",
                EnsureLegacyBlockParameters(store))
  <2> DEFINE t == EnsureLegacyBlockParameters(store)
  <2>1. UpTo(3, store)
    BY <1>2, <1>4 DEF StoreInv, Step
  <2>2. IsStore(t) /\ UpTo(4, t) /\ (StampedRows(store) => StampedRows(t))
    BY <1>1, <2>1, EnsureLegacyBlockParametersStep, StepsKeepStamps
  <2>3. Completed(t) = Completed(store)
    BY <1>1, <2>1, <2>2, WhatIsLeft DEF RestFrom3
  <2>4. Step("ensureLegacyBlockParameters", "ensureConnectionPorts", t)
    BY <1>4
  <2> HIDE DEF t
  <2> QED
    BY <1>2, <2>2, <2>3, <2>4, PartOpens
<1> QED
  BY <1>3, <1>4 DEF MigrateParameters

LEMMA MigratePortsOpens ==
  ASSUME StoreInv, MigratePorts
  PROVE  StoreInv' /\ SameEnd(store, store')
<1>1. IsStore(store)
  BY DEF StoreInv
<1>2. /\ "ensureConnectionPorts" \in DOMAIN Reached /\ Reached["ensureConnectionPorts"] = 4
      /\ "ensureDeclaredInputPorts" \in DOMAIN Reached
      /\ Reached["ensureDeclaredInputPorts"] = 5
      /\ "ensureProjects" \in DOMAIN Reached /\ Reached["ensureProjects"] = 6
  BY DEF Reached
<1>3. CASE Step("ensureConnectionPorts", "ensureDeclaredInputPorts",
                EnsureConnectionPorts(store))
  <2> DEFINE t == EnsureConnectionPorts(store)
  <2>1. UpTo(4, store)
    BY <1>2, <1>3 DEF StoreInv, Step
  <2>2. IsStore(t) /\ UpTo(5, t) /\ (StampedRows(store) => StampedRows(t))
    BY <1>1, <2>1, EnsureConnectionPortsStep, StepsKeepStamps
  <2>3. Completed(t) = Completed(store)
    BY <1>1, <2>1, <2>2, WhatIsLeft DEF RestFrom4
  <2>4. Step("ensureConnectionPorts", "ensureDeclaredInputPorts", t)
    BY <1>3
  <2> HIDE DEF t
  <2> QED
    BY <1>2, <2>2, <2>3, <2>4, PartOpens
<1>4. CASE Step("ensureDeclaredInputPorts", "ensureProjects",
                EnsureDeclaredInputPorts(store))
  <2> DEFINE t == EnsureDeclaredInputPorts(store)
  <2>1. UpTo(5, store)
    BY <1>2, <1>4 DEF StoreInv, Step
  <2>2. IsStore(t) /\ UpTo(6, t) /\ (StampedRows(store) => StampedRows(t))
    BY <1>1, <2>1, EnsureDeclaredInputPortsStep, StepsKeepStamps
  <2>3. Completed(t) = Completed(store)
    BY <1>1, <2>1, <2>2, WhatIsLeft DEF RestFrom5
  <2>4. Step("ensureDeclaredInputPorts", "ensureProjects", t)
    BY <1>4
  <2> HIDE DEF t
  <2> QED
    BY <1>2, <2>2, <2>3, <2>4, PartOpens
<1> QED
  BY <1>3, <1>4 DEF MigratePorts

LEMMA MigrateTabsOpens ==
  ASSUME StoreInv, MigrateTabs
  PROVE  StoreInv' /\ SameEnd(store, store')
<1>1. IsStore(store)
  BY DEF StoreInv
<1>2. /\ "ensureProjects" \in DOMAIN Reached /\ Reached["ensureProjects"] = 6
      /\ "ensureFlowPositions" \in DOMAIN Reached /\ Reached["ensureFlowPositions"] = 7
      /\ "mirrored" \in DOMAIN Reached /\ Reached["mirrored"] = 8
  BY DEF Reached
<1>3. CASE Step("ensureProjects", "ensureFlowPositions", EnsureProjects(store))
  <2> DEFINE t == EnsureProjects(store)
  <2>1. UpTo(6, store)
    BY <1>2, <1>3 DEF StoreInv, Step
  <2>2. IsStore(t) /\ UpTo(7, t) /\ (StampedRows(store) => StampedRows(t))
    BY <1>1, <2>1, EnsureProjectsStep, StepsKeepStamps
  <2>3. Completed(t) = Completed(store)
    BY <1>1, <2>1, <2>2, WhatIsLeft DEF RestFrom6
  <2>4. Step("ensureProjects", "ensureFlowPositions", t)
    BY <1>3
  <2> HIDE DEF t
  <2> QED
    BY <1>2, <2>2, <2>3, <2>4, PartOpens
<1>4. CASE Step("ensureFlowPositions", "mirrored", EnsureFlowPositions(store))
  <2> DEFINE t == EnsureFlowPositions(store)
  <2>1. UpTo(7, store)
    BY <1>2, <1>4 DEF StoreInv, Step
  <2>2. IsStore(t) /\ UpTo(8, t) /\ (StampedRows(store) => StampedRows(t))
    BY <1>1, <2>1, EnsureFlowPositionsStep, StepsKeepStamps
  <2>3. Completed(t) = Completed(store)
    BY <1>1, <2>1, <2>2, WhatIsLeft DEF RestFrom7
  <2>4. Step("ensureFlowPositions", "mirrored", t)
    BY <1>4
  <2> HIDE DEF t
  <2> QED
    BY <1>2, <2>2, <2>3, <2>4, PartOpens
<1> QED
  BY <1>3, <1>4 DEF MigrateTabs

LEMMA FinishOpeningOpens ==
  ASSUME StoreInv, FinishOpening
  PROVE  StoreInv' /\ SameEnd(store, store')
<1>1. IsStore(store)
  BY DEF StoreInv
<1>2. /\ "mirrored" \in DOMAIN Reached /\ Reached["mirrored"] = 8
      /\ "seed" \in DOMAIN Reached /\ Reached["seed"] = 9
      /\ "serving" \in DOMAIN Reached /\ Reached["serving"] = 10
  BY DEF Reached
<1>3. CASE Step("mirrored", "seed", EnsureMirrored(store))
  <2> DEFINE t == EnsureMirrored(store)
  <2>1. UpTo(8, store)
    BY <1>2, <1>3 DEF StoreInv, Step
  <2>2. IsStore(t) /\ UpTo(9, t) /\ (StampedRows(store) => StampedRows(t))
    BY <1>1, <2>1, EnsureMirroredStep, StepsKeepStamps
  <2>3. Completed(t) = Completed(store)
    BY <1>1, <2>1, <2>2, WhatIsLeft DEF RestFrom8
  <2>4. Step("mirrored", "seed", t)
    BY <1>3
  <2> HIDE DEF t
  <2> QED
    BY <1>2, <2>2, <2>3, <2>4, PartOpens
<1>4. CASE Step("seed", "serving", Seed(store))
  <2> DEFINE t == Seed(store)
  <2>1. UpTo(9, store)
    BY <1>2, <1>4 DEF StoreInv, Step
  <2>2. IsStore(t) /\ UpTo(10, t) /\ (StampedRows(store) => StampedRows(t))
    BY <1>1, <2>1, SeedStep, StepsKeepStamps
  <2>3. Completed(t) = Completed(store)
    BY <1>1, <2>1, <2>2, WhatIsLeft
  <2>4. Step("seed", "serving", t)
    BY <1>4
  <2> HIDE DEF t
  <2> QED
    BY <1>2, <2>2, <2>3, <2>4, PartOpens
<1> QED
  BY <1>3, <1>4 DEF FinishOpening

\* Dying and starting over forget what was reached, and lose none of it.
LEMMA CrashOpens ==
  ASSUME StoreInv, Crash \/ Start
  PROVE  StoreInv' /\ SameEnd(store, store')
<1>1. /\ store' = store /\ at' \in {"down", "schema"} /\ crashes' \in Nat
      /\ crashes' = 0 => crashes = 0 /\ at = "down"
  BY DEF StoreInv, Crash, Start, Step
<1>2. at' \in DOMAIN Reached /\ Reached[at'] = 0
  BY <1>1 DEF Reached
<1>3. UpTo(0, store)
  BY DEF UpTo
<1>4. StoreInv'
  <2>1. UpTo(Reached[at'], store') /\ IsStore(store')
    BY <1>1, <1>2, <1>3 DEF StoreInv
  <2>2. crashes' = 0 => IsStamped(store')
    BY <1>1 DEF StoreInv
  <2> QED
    BY <1>1, <1>2, <2>1, <2>2 DEF StoreInv
<1> QED
  BY <1>1, <1>4 DEF SameEnd

\* Every step of opening keeps the invariant and where opening ends.
LEMMA OpeningSteps ==
  ASSUME StoreInv, [Open \/ Crash \/ Start]_storeVars
  PROVE  StoreInv' /\ SameEnd(store, store')
<1>1. CASE Open
  BY <1>1, CreateTableOpens, CreateIndexesOpens, EnsureModelUpdatedAtOpens,
     FillModelUpdatedAtOpens, MigrateParametersOpens, MigratePortsOpens, MigrateTabsOpens,
     FinishOpeningOpens DEF Open
<1>2. CASE Crash \/ Start
  BY <1>2, CrashOpens
<1>3. CASE UNCHANGED storeVars
  BY <1>3 DEF storeVars, StoreInv, SameEnd
<1> QED
  BY <1>1, <1>2, <1>3

\* At the end of opening the ports are declared: one sign too few would have been repeated.
LEMMA OpenedPorts ==
  ASSUME NEW s, IsStore(s), UpTo(6, s)
  PROVE  /\ \A v, w \in DOMAIN s.wires : s.wires[v] = s.wires[w] => v = w
         /\ \A w \in DOMAIN s.wires : s.wires[w] < Len(s.signs)
<1>1. /\ s \in Stores /\ Has(s, "source_port") /\ HasParameters(s) /\ HasDeclaredPorts(s)
  BY DEF IsStore, UpTo
<1>2. \A w \in DOMAIN s.wires : s.wires[w] \in Nat /\ s.wires[w] < Declarable(s)
  BY <1>1 DEF IsStore, Ports, Stores
<1>3. ASSUME NEW w \in DOMAIN s.wires PROVE s.wires[w] < Len(s.signs)
  <2>1. s.signs # << >> /\ Len(s.signs) \in Nat
    <3>1. s.wires # << >>
      BY <1>3
    <3> QED
      BY <1>1, <3>1 DEF IsStore, HasParameters, Stores
  <2>2. Len(s.signs) # 0
    BY <1>1, <2>1 DEF Stores
  <2>3. CASE Len(s.signs) = 1
    <3>1. s.wires \in Seq(Nat)
      BY <1>1 DEF Stores
    <3>2. Wired(s) \in Nat /\ s.wires[w] < Wired(s)
      BY <1>3, <3>1, WiredIsGreatest
    <3>3. PICK v \in DOMAIN s.wires : Wired(s) = s.wires[v] + 1
      BY <1>2, <1>3, <3>1, <3>2, WiredIsGreatest
    <3>4. s.wires[v] \in Nat /\ s.wires[v] < 16 /\ s.wires[w] \in Nat
      BY <1>2, <1>3, <2>3 DEF Declarable, MaxInputSigns
    <3> QED
      BY <1>1, <2>3, <3>2, <3>3, <3>4 DEF HasDeclaredPorts, MaxInputSigns
  <2>4. CASE Len(s.signs) # 1
    <3>1. ~(Len(s.signs) <= 1)
      <4>1. \A n \in Nat : n # 0 /\ n # 1 => ~(n <= 1)
        OBVIOUS
      <4> QED
        BY <2>1, <2>2, <2>4, <4>1, Zenon
    <3>2. Declarable(s) = Len(s.signs)
      BY <3>1 DEF Declarable
    <3> QED
      BY <1>2, <1>3, <3>2
  <2> QED
    BY <2>3, <2>4
<1> QED
  BY <1>1, <1>3 DEF IsStore

\* What the invariant says of a store that is served.
LEMMA ServedIsWellFormed == StoreInv => OpenedStoresAreWellFormed
<1> SUFFICES ASSUME StoreInv, at = "serving" PROVE OpenedStoresAreWellFormed
  BY DEF OpenedStoresAreWellFormed
<1>1. IsStore(store) /\ UpTo(10, store) /\ store \in Stores
  BY DEF StoreInv, Reached, IsStore
<1>2. UpTo(6, store) /\ UpTo(2, store)
  BY <1>1, UpToLess
<1>3. Columns \subseteq store.columns
  BY <1>1 DEF UpTo, Columns, Has, HasPositions
<1>4. store.flows # << >> /\ ~InvalidPositions(store) /\ store.amplitude # "column"
  BY <1>1 DEF UpTo, HasPositions, HasParameters
<1>5. \A f \in DOMAIN store.flows : store.flows[f].project \in DOMAIN store.projects
  BY <1>1 DEF UpTo, IsStore, Unassigned
<1>6. crashes = 0 => store = Unstamped(store)
  <2> SUFFICES ASSUME crashes = 0 PROVE store = Unstamped(store)
    OBVIOUS
  <2>1. StampedRows(store)
    BY <1>2, StampedIsStamped DEF StoreInv
  <2>2. /\ store.flows \in Seq(FlowRows)
        /\ store.flows = [f \in DOMAIN store.flows |-> store.flows[f]]
    BY <1>1 DEF Stores
  <2>3. ASSUME NEW f \in DOMAIN store.flows
        PROVE  [store.flows[f] EXCEPT !.stamped = TRUE] = store.flows[f]
    <3>1. store.flows[f] \in FlowRows /\ store.flows[f].stamped
      BY <2>1, <2>2 DEF StampedRows
    <3>2. store.flows[f].stamped = TRUE
      BY <3>1 DEF FlowRows
    <3> QED
      BY <3>1, <3>2 DEF FlowRows
  <2>4. [f \in DOMAIN store.flows |-> [store.flows[f] EXCEPT !.stamped = TRUE]] = store.flows
    BY <2>2, <2>3
  <2> QED
    BY <1>1, <2>4 DEF Unstamped, Stores
<1> QED
  BY <1>1, <1>2, <1>3, <1>4, <1>5, <1>6, OpenedPorts DEF OpenedStoresAreWellFormed
=============================================================================
