--------------------------- MODULE WorkspaceProofs ---------------------------
(***************************************************************************)
(* Theorems about Workspace for any number of clients and any bounds on    *)
(* the ids.  The positions of a strip are dense, so each is held by one    *)
(* flowsheet; a strip is never empty, so a tab to land on always exists;   *)
(* an answer that is owed names a tab that exists until somebody deletes;  *)
(* and drawn by position and id the tables implement the tab strips.       *)
(***************************************************************************)
EXTENDS Workspace, Integers, FiniteSetTheorems, TLAPS

(***************************************************************************)
(* Least and greatest numbers                                              *)
(***************************************************************************)
Below == {p \in Nat \X Nat : p[1] < p[2]}

LEMMA BelowIsWellFounded == IsWellFoundedOn(Below, Nat)
  BY NatLessThanWellFounded DEF OpToRel, Below

LEMMA LeastExists ==
  ASSUME NEW S \in SUBSET Nat, S # {}
  PROVE  \E x \in S : \A y \in S : x <= y
<1>1. PICK x \in S : \A y \in S : ~ (<<y, x>> \in Below)
  BY WFMin, BelowIsWellFounded, Zenon
<1>2. ASSUME NEW y \in S PROVE x <= y
  <2>1. <<y, x>> \notin Below
    BY <1>1, Zenon
  <2>2. x \in Nat /\ y \in Nat
    OBVIOUS
  <2> QED
    BY <2>1, <2>2 DEF Below
<1> QED
  BY <1>2

LEMMA MinIsLeast ==
  ASSUME NEW S \in SUBSET Nat, S # {}
  PROVE  Min(S) \in S /\ \A y \in S : Min(S) <= y
  BY LeastExists DEF Min

\* The least of the bounds of a set belongs to it.
LEMMA MaxIsGreatest ==
  ASSUME NEW S \in SUBSET Nat, S # {}, NEW n \in Nat, \A s \in S : s <= n
  PROVE  Max(S) \in S /\ \A y \in S : y <= Max(S)
<1> DEFINE bounds == {u \in Nat : \A s \in S : s <= u}
<1>1. bounds \in SUBSET Nat /\ bounds # {}
  OBVIOUS
<1>2. PICK u \in bounds : \A v \in bounds : u <= v
  BY <1>1, LeastExists
<1>3. u \in S
  <2> SUFFICES ASSUME u \notin S PROVE FALSE
    OBVIOUS
  <2>1. \A s \in S : s <= u - 1
    BY <1>2
  <2>2. PICK s \in S : s <= u - 1
    BY <2>1
  <2>3. u - 1 \in bounds
    BY <1>2, <2>1, <2>2
  <2> QED
    BY <1>2, <2>3
<1>4. \E x \in S : \A y \in S : x >= y
  BY <1>2, <1>3
<1> QED
  BY <1>4 DEF Max

(***************************************************************************)
(* The tables                                                              *)
(***************************************************************************)
TablesOK ==
    /\ projects \subseteq 1..MaxProjectId
    /\ DOMAIN flows \subseteq 1..MaxFlowId
    /\ \A f \in DOMAIN flows : flows[f] \in [project : projects, position : Nat]

Dense(p) == {flows[f].position : f \in SheetsOf(p)} = 0..(Cardinality(SheetsOf(p)) - 1)

StripsOK == TablesOK /\ EveryProjectOpens /\ \A p \in projects : Dense(p)

LEMMA Bounds == MaxProjectId \in Nat /\ MaxFlowId \in Nat
  BY WorkspaceBounds

LEMMA SheetsAreFinite ==
  ASSUME TablesOK, NEW p
  PROVE  IsFiniteSet(SheetsOf(p)) /\ Cardinality(SheetsOf(p)) \in Nat
<1>1. SheetsOf(p) \in SUBSET (1..MaxFlowId)
  BY DEF TablesOK, SheetsOf
<1>2. IsFiniteSet(1..MaxFlowId)
  BY Bounds, FS_Interval
<1> QED
  BY <1>1, <1>2, FS_Subset, FS_CardinalityType

\* A position is held by one flowsheet only.
LEMMA PositionsDiffer ==
  ASSUME TablesOK, NEW p, Dense(p), NEW f \in SheetsOf(p), NEW g \in SheetsOf(p),
         flows[f].position = flows[g].position
  PROVE  f = g
<1> DEFINE S == SheetsOf(p)
           n == Cardinality(S)
           place == [h \in S |-> flows[h].position]
<1>1. IsFiniteSet(S) /\ n \in Nat
  BY SheetsAreFinite
<1>2. place \in Surjection(S, 0..(n - 1))
  <2>1. \A h \in S : flows[h].position \in 0..(n - 1)
    BY DEF Dense
  <2>2. \A k \in 0..(n - 1) : \E h \in S : flows[h].position = k
    BY DEF Dense
  <2> HIDE DEF S, n
  <2> QED
    BY <2>1, <2>2 DEF Surjection
<1>3. Cardinality(0..(n - 1)) = n
  <2> HIDE DEF n
  <2> QED
    BY <1>1, FS_Interval
<1>4. place \in Injection(S, 0..(n - 1))
  BY <1>1, <1>2, <1>3, FS_SurjSameCardinalityImpliesInj
<1>5. place[f] = place[g]
  OBVIOUS
<1> HIDE DEF place, n
<1> QED
  BY <1>4, <1>5 DEF Injection, IsInjective

\* The first and the last of some flowsheets of one project.
LEMMA LeftmostIsOne ==
  ASSUME TablesOK, NEW sheets \in SUBSET DOMAIN flows, sheets # {}
  PROVE  /\ Leftmost(sheets) \in sheets
         /\ \A g \in sheets \ {Leftmost(sheets)} : LeftOf(Leftmost(sheets), g)
<1> DEFINE positions == {flows[f].position : f \in sheets}
<1>1. positions \in SUBSET Nat /\ positions # {}
  BY DEF TablesOK
<1>2. PICK k \in positions : \A l \in positions : k <= l
  BY <1>1, LeastExists
<1> DEFINE front == {f \in sheets : flows[f].position = k}
<1>3. front \in SUBSET Nat /\ front # {}
  BY <1>2, Bounds DEF TablesOK
<1>4. PICK f \in front : \A g \in front : f <= g
  BY <1>3, LeastExists
<1>5. \A g \in sheets \ {f} : LeftOf(f, g)
  <2> TAKE g \in sheets \ {f}
  <2>1. f \in Nat /\ g \in Nat /\ flows[f].position \in Nat /\ flows[g].position \in Nat
    BY Bounds DEF TablesOK
  <2>2. flows[f].position = k /\ k <= flows[g].position
    BY <1>2
  <2>3. flows[g].position = k => f < g
    BY <1>4, <2>1
  <2> QED
    BY <2>1, <2>2, <2>3 DEF LeftOf
<1> QED
  BY <1>5 DEF Leftmost

LEMMA RightmostIsOne ==
  ASSUME TablesOK, NEW sheets \in SUBSET DOMAIN flows, sheets # {},
         NEW n \in Nat, \A f \in sheets : flows[f].position <= n
  PROVE  /\ Rightmost(sheets) \in sheets
         /\ \A g \in sheets \ {Rightmost(sheets)} : LeftOf(g, Rightmost(sheets))
<1> DEFINE positions == {flows[f].position : f \in sheets}
<1>1. positions \in SUBSET Nat /\ positions # {} /\ \A k \in positions : k <= n
  BY DEF TablesOK
<1>2. PICK k \in positions : \A l \in positions : l <= k
  BY <1>1, MaxIsGreatest
<1> DEFINE back == {f \in sheets : flows[f].position = k}
<1>3. back \in SUBSET Nat /\ back # {} /\ \A f \in back : f <= MaxFlowId
  BY <1>2, Bounds DEF TablesOK
<1>4. PICK f \in back : \A g \in back : g <= f
  BY <1>3, Bounds, MaxIsGreatest
<1>5. \A g \in sheets \ {f} : LeftOf(g, f)
  <2> TAKE g \in sheets \ {f}
  <2>1. f \in Nat /\ g \in Nat /\ flows[f].position \in Nat /\ flows[g].position \in Nat
    BY Bounds DEF TablesOK
  <2>2. flows[f].position = k /\ flows[g].position <= k
    BY <1>2
  <2>3. flows[g].position = k => g < f
    BY <1>4, <2>1
  <2> QED
    BY <2>1, <2>2, <2>3 DEF LeftOf
<1> QED
  BY <1>5 DEF Rightmost

LEMMA LandingExists ==
  ASSUME TablesOK, NEW f \in DOMAIN flows, SheetsOf(flows[f].project) # {f}
  PROVE  Landing(flows[f].project, f) \in SheetsOf(flows[f].project) \ {f}
<1> DEFINE p == flows[f].project
           left == {g \in SheetsOf(p) : LeftOf(g, f)}
<1>1. f \in SheetsOf(p) /\ SheetsOf(p) \subseteq DOMAIN flows
  BY DEF SheetsOf
<1>2. f \notin left
  <2>1. f \in Nat /\ flows[f].position \in Nat
    BY Bounds DEF TablesOK
  <2> QED
    BY <2>1 DEF LeftOf
<1>3. CASE left # {}
  <2>1. flows[f].position \in Nat /\ \A g \in left : flows[g].position <= flows[f].position
    BY DEF TablesOK, LeftOf, SheetsOf
  <2>2. left \in SUBSET DOMAIN flows
    BY <1>1
  <2>3. Rightmost(left) \in left
    BY <1>3, <2>1, <2>2, RightmostIsOne
  <2> QED
    BY <1>2, <1>3, <2>3 DEF Landing
<1>4. CASE left = {}
  <2>1. SheetsOf(p) \ {f} # {} /\ SheetsOf(p) \ {f} \in SUBSET DOMAIN flows
    BY <1>1
  <2>2. Leftmost(SheetsOf(p) \ {f}) \in SheetsOf(p) \ {f}
    BY <2>1, LeftmostIsOne
  <2> QED
    BY <1>4, <2>2 DEF Landing
<1> QED
  BY <1>3, <1>4

\* The next row of a table is a new one.
LEMMA RowidIsNew ==
  ASSUME NEW n \in Nat, NEW ids \in SUBSET (1..n)
  PROVE  NextRowid(ids) \in Nat \ {0} /\ NextRowid(ids) \notin ids
<1>1. CASE ids = {}
  BY <1>1 DEF NextRowid
<1>2. CASE ids # {}
  <2>1. ids \in SUBSET Nat /\ \A i \in ids : i <= n
    OBVIOUS
  <2>2. Max(ids) \in ids /\ \A i \in ids : i <= Max(ids)
    BY <1>2, <2>1, MaxIsGreatest
  <2>3. \A m \in ids : (\A i \in ids : i <= m) => m + 1 \in Nat \ {0} /\ m + 1 \notin ids
    <3> TAKE m \in ids
    <3> HAVE \A i \in ids : i <= m
    <3>1. m \in Nat
      BY <2>1
    <3>2. ~(m + 1 <= m)
      BY <3>1
    <3> QED
      BY <3>1, <3>2
  <2>4. NextRowid(ids) = Max(ids) + 1
    BY <1>2 DEF NextRowid
  <2> QED
    BY <2>2, <2>3, <2>4
<1> QED
  BY <1>1, <1>2

\* A sheet put at the end of a strip gets the number of sheets before it.
LEMMA EndIsNext ==
  ASSUME TablesOK, NEW p, Dense(p)
  PROVE  EndPosition(p) = Cardinality(SheetsOf(p))
<1> DEFINE n == Cardinality(SheetsOf(p))
<1>1. n \in Nat
  BY SheetsAreFinite
<1>2. CASE SheetsOf(p) = {}
  BY <1>2, FS_EmptySet DEF EndPosition
<1>3. CASE SheetsOf(p) # {}
  <2>1. n # 0
    BY <1>3, SheetsAreFinite, FS_EmptySet
  <2> HIDE DEF n
  <2>2. 0..(n - 1) \in SUBSET Nat /\ 0..(n - 1) # {} /\ \A k \in 0..(n - 1) : k <= n
    BY <1>1, <2>1
  <2>3. Max(0..(n - 1)) \in 0..(n - 1) /\ \A k \in 0..(n - 1) : k <= Max(0..(n - 1))
    BY <1>1, <2>2, MaxIsGreatest
  <2>4. Max(0..(n - 1)) = n - 1
    BY <1>1, <2>1, <2>3
  <2>5. EndPosition(p) = Max(0..(n - 1)) + 1
    BY <1>3 DEF EndPosition, Dense, n
  <2> QED
    BY <1>1, <2>4, <2>5 DEF n
<1> QED
  BY <1>2, <1>3

(***************************************************************************)
(* What the transactions do to the strips                                  *)
(***************************************************************************)
LEMMA UntouchedStrip ==
  ASSUME NEW q, Dense(q), SheetsOf(q)' = SheetsOf(q),
         \A f \in SheetsOf(q) : flows'[f].position = flows[f].position
  PROVE  Dense(q)'
<1>1. {flows'[f].position : f \in SheetsOf(q)} = {flows[f].position : f \in SheetsOf(q)}
  OBVIOUS
<1> QED
  BY <1>1 DEF Dense

\* One sheet more, at a position such that all are 0..n.
LEMMA LongerStrip ==
  ASSUME TablesOK, NEW p, NEW f, f \notin DOMAIN flows, SheetsOf(p)' = SheetsOf(p) \cup {f},
         {flows'[g].position : g \in SheetsOf(p) \cup {f}} = 0..Cardinality(SheetsOf(p))
  PROVE  Dense(p)'
<1> DEFINE n == Cardinality(SheetsOf(p))
<1>1. n \in Nat /\ IsFiniteSet(SheetsOf(p)) /\ f \notin SheetsOf(p)
  BY SheetsAreFinite DEF SheetsOf
<1>2. Cardinality(SheetsOf(p) \cup {f}) = n + 1
  BY <1>1, FS_AddElement
<1> HIDE DEF n
<1>3. Cardinality(SheetsOf(p)') - 1 = n
  BY <1>1, <1>2
<1>4. {flows'[g].position : g \in SheetsOf(p)'} = 0..n
  BY DEF n
<1> QED
  BY <1>3, <1>4 DEF Dense

LEMMA AppendedSheet ==
  ASSUME StripsOK, NEW p \in 1..MaxProjectId, NEW f \in 1..MaxFlowId, f \notin DOMAIN flows,
         p \in projects \/ SheetsOf(p) = {}, projects' = projects \cup {p},
         flows' = WithFlow(flows, f, [project |-> p, position |-> EndPosition(p)])
  PROVE  StripsOK'
<1>0. TablesOK
  BY DEF StripsOK
<1>1. Dense(p)
  BY FS_EmptySet DEF StripsOK, Dense
<1>2. EndPosition(p) = Cardinality(SheetsOf(p)) /\ EndPosition(p) \in Nat
  BY <1>0, <1>1, EndIsNext, SheetsAreFinite
<1>3. /\ DOMAIN flows' = DOMAIN flows \cup {f}
      /\ flows'[f] = [project |-> p, position |-> EndPosition(p)]
      /\ \A g \in DOMAIN flows : flows'[g] = flows[g]
  BY DEF WithFlow
<1>4. TablesOK'
  BY <1>0, <1>2, <1>3 DEF TablesOK
<1>5. SheetsOf(p)' = SheetsOf(p) \cup {f} /\ \A q : q # p => SheetsOf(q)' = SheetsOf(q)
  BY <1>3 DEF SheetsOf
<1>6. \A q : \A g \in SheetsOf(q) : flows'[g] = flows[g]
  BY <1>3 DEF SheetsOf
<1>7. EveryProjectOpens'
  BY <1>5 DEF StripsOK, EveryProjectOpens
<1>8. Dense(p)'
  <2> DEFINE n == Cardinality(SheetsOf(p))
  <2>1. {flows'[g].position : g \in SheetsOf(p)} = 0..(n - 1)
    BY <1>1, <1>6 DEF Dense
  <2>2. {flows'[g].position : g \in SheetsOf(p) \cup {f}} = 0..(n - 1) \cup {n}
    BY <1>2, <1>3, <2>1
  <2>3. n \in Nat
    BY <1>2
  <2> HIDE DEF n
  <2>4. 0..(n - 1) \cup {n} = 0..n
    BY <2>3
  <2> QED
    BY <1>0, <1>5, <2>2, <2>4, LongerStrip DEF n
<1>9. ASSUME NEW q \in projects', q # p
      PROVE  Dense(q)'
  BY <1>5, <1>6, <1>9, UntouchedStrip DEF StripsOK
<1> QED
  BY <1>4, <1>7, <1>8, <1>9 DEF StripsOK

LEMMA CreationsKeepStrips ==
  ASSUME StripsOK, NEW c \in Clients, NEW p \in projects, CreateProject(c) \/ CreateFlow(c, p)
  PROVE  StripsOK'
<1>0. TablesOK
  BY DEF StripsOK
<1>1. NextRowid(DOMAIN flows) \in Nat \ {0} /\ NextRowid(DOMAIN flows) \notin DOMAIN flows
  BY <1>0, Bounds, RowidIsNew DEF TablesOK
<1>2. CASE CreateProject(c)
  <2>1. NextRowid(projects) \in Nat \ {0} /\ NextRowid(projects) \notin projects
    BY <1>0, Bounds, RowidIsNew DEF TablesOK
  <2>2. SheetsOf(NextRowid(projects)) = {}
    BY <1>0, <2>1 DEF TablesOK, SheetsOf
  <2>3. NextRowid(projects) \in 1..MaxProjectId /\ NextRowid(DOMAIN flows) \in 1..MaxFlowId
    BY <1>1, <1>2, <2>1, Bounds DEF CreateProject
  <2> QED
    BY <1>1, <1>2, <2>2, <2>3, AppendedSheet DEF CreateProject
<1>3. CASE CreateFlow(c, p)
  <2>1. NextRowid(DOMAIN flows) \in 1..MaxFlowId
    BY <1>1, <1>3, Bounds DEF CreateFlow
  <2>2. projects' = projects \cup {p} /\ p \in 1..MaxProjectId
    BY <1>0, <1>3 DEF CreateFlow, TablesOK
  <2> QED
    BY <1>1, <1>3, <2>1, <2>2, AppendedSheet DEF CreateFlow
<1> QED
  BY <1>2, <1>3

LEMMA MovedRow ==
  ASSUME NEW row \in [project : projects, position : Nat], NEW k \in Nat
  PROVE  LET moved == [row EXCEPT !.position = k]
         IN  /\ moved \in [project : projects, position : Nat]
             /\ moved.project = row.project
             /\ moved.position = k
  OBVIOUS

\* The rows after a duplication: those right of the original move on, the copy comes between.
DuplicatedRows(p, here, copy) ==
    /\ DOMAIN flows' = DOMAIN flows \cup {copy}
    /\ flows'[copy] = [project |-> p, position |-> here + 1]
    /\ \A g \in DOMAIN flows :
         /\ flows'[g] \in [project : projects, position : Nat]
         /\ flows'[g].project = flows[g].project
         /\ g \in SheetsOf(p) /\ flows[g].position > here
              => flows'[g].position = flows[g].position + 1
         /\ ~(g \in SheetsOf(p) /\ flows[g].position > here) => flows'[g] = flows[g]
    /\ SheetsOf(p)' = SheetsOf(p) \cup {copy}
    /\ \A q : q # p => SheetsOf(q)' = SheetsOf(q)

LEMMA DuplicateRows ==
  ASSUME TablesOK, NEW c \in Clients, NEW f \in DOMAIN flows, DuplicateFlow(c, f),
         NEW p, p = flows[f].project, NEW here, here = flows[f].position,
         NEW copy, copy = NextRowid(DOMAIN flows)
  PROVE  /\ p \in projects /\ here \in Nat /\ projects' = projects
         /\ copy \in 1..MaxFlowId /\ copy \notin DOMAIN flows
         /\ DuplicatedRows(p, here, copy)
<1>0. TablesOK /\ p \in projects /\ here \in Nat /\ projects' = projects
  BY DEF TablesOK, DuplicateFlow
<1>1. copy \in 1..MaxFlowId /\ copy \notin DOMAIN flows
  <2>1. copy \in Nat \ {0} /\ copy \notin DOMAIN flows
    BY <1>0, Bounds, RowidIsNew DEF TablesOK
  <2>2. copy <= MaxFlowId
    BY DEF DuplicateFlow
  <2> QED
    BY <2>1, <2>2, Bounds
<1>2. flows' = WithFlow(ShiftedRight(p, here), copy, [project |-> p, position |-> here + 1])
  BY DEF DuplicateFlow
<1>3. DOMAIN flows' = DOMAIN flows \cup {copy} /\ flows'[copy] = [project |-> p, position |-> here + 1]
  BY <1>2 DEF WithFlow, ShiftedRight
<1>4. \A g \in DOMAIN flows :
         /\ flows'[g] \in [project : projects, position : Nat]
         /\ flows'[g].project = flows[g].project
         /\ g \in SheetsOf(p) /\ flows[g].position > here
              => flows'[g].position = flows[g].position + 1
         /\ ~(g \in SheetsOf(p) /\ flows[g].position > here) => flows'[g] = flows[g]
  <2> TAKE g \in DOMAIN flows
  <2>1. flows[g] \in [project : projects, position : Nat] /\ flows[g].position + 1 \in Nat
    BY <1>0 DEF TablesOK
  <2>2. flows'[g] = IF g \in SheetsOf(p) /\ flows[g].position > here
                    THEN [flows[g] EXCEPT !.position = flows[g].position + 1] ELSE flows[g]
    BY <1>1, <1>2 DEF WithFlow, ShiftedRight
  <2>3. CASE g \in SheetsOf(p) /\ flows[g].position > here
    <3>1. flows'[g] = [flows[g] EXCEPT !.position = flows[g].position + 1]
      BY <2>2, <2>3
    <3> QED
      BY <2>1, <2>3, <3>1, MovedRow
  <2>4. CASE ~(g \in SheetsOf(p) /\ flows[g].position > here)
    BY <2>1, <2>2, <2>4
  <2> QED
    BY <2>3, <2>4
<1>5. SheetsOf(p)' = SheetsOf(p) \cup {copy} /\ \A q : q # p => SheetsOf(q)' = SheetsOf(q)
  BY <1>3, <1>4 DEF SheetsOf
<1> QED
  BY <1>0, <1>1, <1>3, <1>4, <1>5 DEF DuplicatedRows

LEMMA DuplicateKeepsStrips ==
  ASSUME StripsOK, NEW c \in Clients, NEW f \in DOMAIN flows, DuplicateFlow(c, f),
         NEW p, p = flows[f].project, NEW here, here = flows[f].position,
         NEW copy, copy = NextRowid(DOMAIN flows)
  PROVE  StripsOK'
<1> DEFINE n == Cardinality(SheetsOf(p))
<1>0. TablesOK /\ p \in projects /\ here \in Nat /\ projects' = projects
  BY DuplicateRows DEF StripsOK
<1>1. copy \in 1..MaxFlowId /\ copy \notin DOMAIN flows /\ DuplicatedRows(p, here, copy)
  BY <1>0, DuplicateRows
<1>3. DOMAIN flows' = DOMAIN flows \cup {copy} /\ flows'[copy] = [project |-> p, position |-> here + 1]
  BY <1>1 DEF DuplicatedRows
<1>4. \A g \in DOMAIN flows :
         /\ flows'[g] \in [project : projects, position : Nat]
         /\ flows'[g].project = flows[g].project
         /\ g \in SheetsOf(p) /\ flows[g].position > here
              => flows'[g].position = flows[g].position + 1
         /\ ~(g \in SheetsOf(p) /\ flows[g].position > here) => flows'[g] = flows[g]
  BY <1>1 DEF DuplicatedRows
<1>5. SheetsOf(p) \subseteq DOMAIN flows
  BY DEF SheetsOf
<1>6. TablesOK'
  BY <1>0, <1>1, <1>3, <1>4 DEF TablesOK
<1>7. SheetsOf(p)' = SheetsOf(p) \cup {copy} /\ \A q : q # p => SheetsOf(q)' = SheetsOf(q)
  BY <1>1 DEF DuplicatedRows
<1>8. EveryProjectOpens'
  BY <1>0, <1>7 DEF StripsOK, EveryProjectOpens
<1>9. Dense(p)'
  <2>1. n \in Nat /\ f \in SheetsOf(p)
    BY <1>0, SheetsAreFinite DEF SheetsOf
  <2>2. {flows[g].position : g \in SheetsOf(p)} = 0..(n - 1)
    BY <1>0 DEF StripsOK, Dense
  <2>3. here \in 0..(n - 1)
    BY <2>1, <2>2
  <2>4. \A g \in SheetsOf(p) : /\ flows[g].position \in 0..(n - 1)
                               /\ flows'[g].position = IF flows[g].position > here
                                                       THEN flows[g].position + 1
                                                       ELSE flows[g].position
    BY <1>4, <1>5, <2>2
  <2> HIDE DEF n
  <2>5. {flows'[g].position : g \in SheetsOf(p) \cup {copy}} \subseteq 0..n
    BY <1>3, <2>1, <2>3, <2>4
  <2>6. ASSUME NEW k \in 0..n
        PROVE  \E g \in SheetsOf(p) \cup {copy} : flows'[g].position = k
    <3>1. CASE k <= here
      <4>1. k \in 0..(n - 1)
        BY <2>1, <2>3, <3>1
      <4>2. PICK g \in SheetsOf(p) : flows[g].position = k
        BY <2>2, <4>1
      <4> QED
        BY <2>3, <2>4, <3>1, <4>2
    <3>2. CASE k = here + 1
      BY <1>3, <3>2
    <3>3. CASE k > here + 1
      <4>1. k - 1 \in 0..(n - 1)
        BY <2>1, <2>3, <3>3
      <4>2. PICK g \in SheetsOf(p) : flows[g].position = k - 1
        BY <2>2, <4>1
      <4> QED
        BY <2>3, <2>4, <3>3, <4>2
    <3> QED
      BY <2>1, <2>3, <3>1, <3>2, <3>3
  <2>7. {flows'[g].position : g \in SheetsOf(p) \cup {copy}} = 0..n
    BY <2>5, <2>6
  <2> QED
    BY <1>0, <1>1, <1>7, <2>7, LongerStrip DEF n
<1>10. ASSUME NEW q \in projects', q # p
       PROVE  Dense(q)'
  <2>1. \A g \in SheetsOf(q) : flows'[g].position = flows[g].position
    BY <1>4, <1>10 DEF SheetsOf
  <2> QED
    BY <1>0, <1>7, <1>10, <2>1, UntouchedStrip DEF StripsOK
<1> QED
  BY <1>6, <1>8, <1>9, <1>10 DEF StripsOK

\* The rows after a deletion: those right of the deleted one move up.
RemainingRows(p, here, f) ==
    /\ DOMAIN flows' = DOMAIN flows \ {f}
    /\ \A g \in DOMAIN flows \ {f} :
         /\ flows'[g] \in [project : projects, position : Nat]
         /\ flows'[g].project = flows[g].project
         /\ flows[g].project = p /\ flows[g].position > here
              => flows'[g].position = flows[g].position - 1
         /\ ~(flows[g].project = p /\ flows[g].position > here) => flows'[g] = flows[g]
    /\ SheetsOf(p)' = SheetsOf(p) \ {f}
    /\ \A q : q # p => SheetsOf(q)' = SheetsOf(q)

LEMMA DeletionRows ==
  ASSUME TablesOK, NEW c \in Clients, NEW f \in DOMAIN flows, DeleteFlow(c, f),
         NEW p, p = flows[f].project, NEW here, here = flows[f].position
  PROVE  /\ p \in projects /\ here \in Nat /\ projects' = projects /\ SheetsOf(p) # {f}
         /\ RemainingRows(p, here, f)
<1>0. TablesOK /\ p \in projects /\ here \in Nat /\ projects' = projects /\ SheetsOf(p) # {f}
  BY DEF TablesOK, DeleteFlow
<1>1. DOMAIN flows' = DOMAIN flows \ {f}
  BY DEF DeleteFlow, ClosedUp
<1>2. \A g \in DOMAIN flows \ {f} :
         /\ flows'[g] \in [project : projects, position : Nat]
         /\ flows'[g].project = flows[g].project
         /\ flows[g].project = p /\ flows[g].position > here
              => flows'[g].position = flows[g].position - 1
         /\ ~(flows[g].project = p /\ flows[g].position > here) => flows'[g] = flows[g]
  <2> TAKE g \in DOMAIN flows \ {f}
  <2>1. flows[g] \in [project : projects, position : Nat]
    BY <1>0 DEF TablesOK
  <2>2. flows'[g] = IF flows[g].project = p /\ flows[g].position > here
                    THEN [flows[g] EXCEPT !.position = flows[g].position - 1] ELSE flows[g]
    BY DEF DeleteFlow, ClosedUp
  <2>3. CASE flows[g].project = p /\ flows[g].position > here
    <3>1. flows'[g] = [flows[g] EXCEPT !.position = flows[g].position - 1]
      BY <2>2, <2>3
    <3>2. flows[g].position - 1 \in Nat
      BY <1>0, <2>1, <2>3
    <3> QED
      BY <2>1, <2>3, <3>1, <3>2, MovedRow
  <2>4. CASE ~(flows[g].project = p /\ flows[g].position > here)
    BY <2>1, <2>2, <2>4
  <2> QED
    BY <2>3, <2>4
<1>3. SheetsOf(p)' = SheetsOf(p) \ {f} /\ \A q : q # p => SheetsOf(q)' = SheetsOf(q)
  BY <1>1, <1>2 DEF SheetsOf
<1> QED
  BY <1>0, <1>1, <1>2, <1>3 DEF RemainingRows

LEMMA DeleteFlowKeepsStrips ==
  ASSUME StripsOK, NEW c \in Clients, NEW f \in DOMAIN flows, DeleteFlow(c, f),
         NEW p, p = flows[f].project, NEW here, here = flows[f].position
  PROVE  StripsOK'
<1> DEFINE n == Cardinality(SheetsOf(p))
<1>0. /\ TablesOK /\ p \in projects /\ here \in Nat /\ projects' = projects /\ SheetsOf(p) # {f}
      /\ RemainingRows(p, here, f)
  BY DeletionRows DEF StripsOK
<1>1. DOMAIN flows' = DOMAIN flows \ {f}
  BY <1>0 DEF RemainingRows
<1>2. \A g \in DOMAIN flows \ {f} :
         /\ flows'[g] \in [project : projects, position : Nat]
         /\ flows'[g].project = flows[g].project
         /\ flows[g].project = p /\ flows[g].position > here
              => flows'[g].position = flows[g].position - 1
         /\ ~(flows[g].project = p /\ flows[g].position > here) => flows'[g] = flows[g]
  BY <1>0 DEF RemainingRows
<1>3. \A g \in SheetsOf(p) : g \in DOMAIN flows /\ flows[g].project = p
  BY DEF SheetsOf
<1>4. TablesOK'
  BY <1>0, <1>1, <1>2 DEF TablesOK
<1>5. SheetsOf(p)' = SheetsOf(p) \ {f} /\ \A q : q # p => SheetsOf(q)' = SheetsOf(q)
  BY <1>0 DEF RemainingRows
<1>6. f \in SheetsOf(p)
  BY DEF SheetsOf
<1>7. EveryProjectOpens'
  BY <1>0, <1>5, <1>6 DEF StripsOK, EveryProjectOpens
<1>8. Dense(p)'
  <2>1. n \in Nat /\ Cardinality(SheetsOf(p) \ {f}) = n - 1
    BY <1>0, <1>6, SheetsAreFinite, FS_RemoveElement
  <2>2. {flows[g].position : g \in SheetsOf(p)} = 0..(n - 1)
    BY <1>0 DEF StripsOK, Dense
  <2>3. here \in 0..(n - 1)
    BY <1>6, <2>2
  <2>4. \A g \in SheetsOf(p) \ {f} : flows[g].position # here
    BY <1>0, <1>6, PositionsDiffer DEF StripsOK
  <2>5. \A g \in SheetsOf(p) \ {f} : /\ flows[g].position \in 0..(n - 1)
                                     /\ flows'[g].position = IF flows[g].position > here
                                                             THEN flows[g].position - 1
                                                             ELSE flows[g].position
    BY <1>2, <1>3, <2>2
  <2>6. flows[f].position = here
    OBVIOUS
  <2> HIDE DEF n
  <2>7. {flows'[g].position : g \in SheetsOf(p) \ {f}} \subseteq 0..(n - 2)
    <3> SUFFICES ASSUME NEW g \in SheetsOf(p) \ {f} PROVE flows'[g].position \in 0..(n - 2)
      OBVIOUS
    <3> QED
      BY <2>1, <2>3, <2>4, <2>5
  <2>8. ASSUME NEW k \in 0..(n - 2)
        PROVE  \E g \in SheetsOf(p) \ {f} : flows'[g].position = k
    <3>1. CASE k < here
      <4>1. k \in 0..(n - 1)
        BY <2>1
      <4>2. PICK g \in SheetsOf(p) : flows[g].position = k
        BY <2>2, <4>1
      <4>3. g # f
        BY <2>3, <2>6, <3>1, <4>2
      <4> QED
        BY <2>3, <2>5, <3>1, <4>2, <4>3
    <3>2. CASE k >= here
      <4>1. k + 1 \in 0..(n - 1)
        BY <2>1
      <4>2. PICK g \in SheetsOf(p) : flows[g].position = k + 1
        BY <2>2, <4>1
      <4>3. g # f
        BY <2>3, <2>6, <3>2, <4>2
      <4> QED
        BY <2>3, <2>5, <3>2, <4>2, <4>3
    <3> QED
      BY <2>3, <3>1, <3>2
  <2>9. {flows'[g].position : g \in SheetsOf(p) \ {f}} = 0..(n - 2)
    BY <2>7, <2>8
  <2>10. {flows'[g].position : g \in SheetsOf(p)'} = 0..(n - 2)
    BY <1>5, <2>9
  <2>11. Cardinality(SheetsOf(p)') - 1 = n - 2
    BY <1>5, <2>1
  <2> QED
    BY <2>10, <2>11 DEF Dense
<1>9. ASSUME NEW q \in projects', q # p
      PROVE  Dense(q)'
  <2>1. \A g \in SheetsOf(q) : flows'[g].position = flows[g].position
    BY <1>2, <1>9 DEF SheetsOf
  <2> QED
    BY <1>0, <1>5, <1>9, <2>1, UntouchedStrip DEF StripsOK
<1> QED
  BY <1>4, <1>7, <1>8, <1>9 DEF StripsOK

LEMMA DeleteProjectKeepsStrips ==
  ASSUME StripsOK, NEW c \in Clients, NEW p \in projects, DeleteProject(c, p)
  PROVE  StripsOK'
<1>1. /\ projects' = projects \ {p} /\ projects' # {}
      /\ DOMAIN flows' = DOMAIN flows \ SheetsOf(p)
      /\ \A f \in DOMAIN flows' : flows'[f] = flows[f]
  BY DEF DeleteProject
<1>2. \A q \in projects' : SheetsOf(q)' = SheetsOf(q)
  BY <1>1 DEF SheetsOf
<1>3. TablesOK'
  BY <1>1 DEF StripsOK, TablesOK, SheetsOf
<1>4. EveryProjectOpens'
  BY <1>1, <1>2 DEF StripsOK, EveryProjectOpens
<1>5. ASSUME NEW q \in projects' PROVE Dense(q)'
  <2>1. \A f \in SheetsOf(q) : flows'[f].position = flows[f].position
    BY <1>1, <1>2, <1>5 DEF SheetsOf
  <2> QED
    BY <1>1, <1>2, <1>5, <2>1, UntouchedStrip DEF StripsOK
<1> QED
  BY <1>3, <1>4, <1>5 DEF StripsOK

\* A list of all sheets of a project that is no longer than their number names none twice.
LEMMA NewOrderIsInjective ==
  ASSUME TablesOK, NEW p, NEW order, NEW m \in Nat, order \in [1..m -> DOMAIN flows],
         IsNewOrder(p, order)
  PROVE  /\ m = Cardinality(SheetsOf(p))
         /\ \A i \in 1..m : order[i] \in SheetsOf(p)
         /\ \A f \in SheetsOf(p) : \E i \in 1..m : order[i] = f
         /\ \A i \in 1..m, j \in 1..m : order[i] = order[j] => i = j
<1> DEFINE S == SheetsOf(p)
<1>1. Len(order) = m /\ order \in Seq(DOMAIN flows) /\ DOMAIN order = 1..m
  OBVIOUS
<1>2. m = Cardinality(S) /\ {order[i] : i \in 1..m} = S
  BY <1>1 DEF IsNewOrder, ToSet
<1>3. order \in Surjection(1..m, S)
  BY <1>1, <1>2 DEF Surjection
<1>4. IsFiniteSet(1..m) /\ Cardinality(1..m) = m
  BY FS_Interval
<1>5. order \in Injection(1..m, S)
  BY <1>2, <1>3, <1>4, FS_SurjSameCardinalityImpliesInj
<1> QED
  BY <1>2, <1>5 DEF Injection, IsInjective

\* The rows after a reordering: the positions are the places in the list.
LEMMA ReorderRows ==
  ASSUME TablesOK, NEW c \in Clients, NEW p \in projects, NEW order \in Orders(p),
         ReorderFlows(c, p, order), NEW m, m = Cardinality(SheetsOf(p))
  PROVE  /\ m \in Nat /\ order \in [1..m -> SheetsOf(p)]
         /\ \A f \in SheetsOf(p) : \E i \in 1..m : order[i] = f
         /\ \A i \in 1..m, j \in 1..m : order[i] = order[j] => i = j
         /\ projects' = projects /\ DOMAIN flows' = DOMAIN flows
         /\ \A i \in 1..m : /\ flows'[order[i]] \in [project : projects, position : Nat]
                             /\ flows'[order[i]].project = p
                             /\ flows'[order[i]].position = i - 1
         /\ \A f \in DOMAIN flows \ SheetsOf(p) : flows'[f] = flows[f]
<1>0. TablesOK /\ projects' = projects /\ IsNewOrder(p, order)
  BY DEF ReorderFlows
<1>1. PICK k \in Nat : order \in [1..k -> DOMAIN flows]
  BY <1>0, SheetsAreFinite DEF Orders
<1>2. /\ m = k /\ m \in Nat
      /\ \A i \in 1..m : order[i] \in SheetsOf(p)
      /\ \A f \in SheetsOf(p) : \E i \in 1..m : order[i] = f
      /\ \A i \in 1..m, j \in 1..m : order[i] = order[j] => i = j
  BY <1>0, <1>1, NewOrderIsInjective
<1>3. ToSet(order) = SheetsOf(p) /\ DOMAIN order = 1..m
  BY <1>0, <1>1 DEF IsNewOrder
<1>4. DOMAIN flows' = DOMAIN flows /\ SheetsOf(p) \subseteq DOMAIN flows
  BY DEF ReorderFlows, SheetsOf
<1>5. ASSUME NEW i \in 1..m
      PROVE  /\ flows'[order[i]] \in [project : projects, position : Nat]
             /\ flows'[order[i]].project = p
             /\ flows'[order[i]].position = i - 1
  <2>1. {j \in 1..m : order[j] = order[i]} = {i}
    BY <1>2
  <2>2. Max({i}) = i
    BY DEF Max
  <2>3. flows'[order[i]] = [flows[order[i]] EXCEPT !.position = i - 1]
    <3>1. flows'[order[i]] = [flows[order[i]] EXCEPT !.position =
                                Max({j \in DOMAIN order : order[j] = order[i]}) - 1]
      BY <1>2, <1>3, <1>4 DEF ReorderFlows
    <3> QED
      BY <1>3, <2>1, <2>2, <3>1
  <2>4. /\ flows[order[i]] \in [project : projects, position : Nat] /\ i - 1 \in Nat
        /\ flows[order[i]].project = p
    <3>1. order[i] \in DOMAIN flows /\ flows[order[i]].project = p
      BY <1>2 DEF SheetsOf
    <3>2. i - 1 \in Nat
      BY <1>2
    <3> QED
      BY <1>0, <3>1, <3>2 DEF TablesOK
  <2> QED
    BY <2>3, <2>4, MovedRow
<1>6. \A f \in DOMAIN flows \ SheetsOf(p) : flows'[f] = flows[f]
  BY <1>3 DEF ReorderFlows
<1> QED
  BY <1>0, <1>1, <1>2, <1>4, <1>5, <1>6

LEMMA ReorderKeepsStrips ==
  ASSUME StripsOK, NEW c \in Clients, NEW p \in projects, NEW order \in Orders(p),
         ReorderFlows(c, p, order)
  PROVE  StripsOK'
<1> DEFINE m == Cardinality(SheetsOf(p))
<1>0. TablesOK /\ projects' = projects
  BY DEF StripsOK, ReorderFlows
<1>2. /\ m \in Nat
      /\ \A i \in 1..m : order[i] \in SheetsOf(p)
      /\ \A f \in SheetsOf(p) : \E i \in 1..m : order[i] = f
  BY <1>0, ReorderRows
<1>4. DOMAIN flows' = DOMAIN flows /\ SheetsOf(p) \subseteq DOMAIN flows
  BY <1>0, ReorderRows DEF SheetsOf
<1>5. \A i \in 1..m : /\ flows'[order[i]] \in [project : projects, position : Nat]
                      /\ flows'[order[i]].project = p
                      /\ flows'[order[i]].position = i - 1
  BY <1>0, ReorderRows
<1>6. \A f \in DOMAIN flows \ SheetsOf(p) : flows'[f] = flows[f]
  BY <1>0, ReorderRows
<1> HIDE DEF m
<1>7. \A f \in SheetsOf(p) : /\ flows'[f] \in [project : projects, position : Nat]
                             /\ flows'[f].project = p
  BY <1>2, <1>5
<1>8. TablesOK'
  <2>1. \A f \in DOMAIN flows : flows'[f] \in [project : projects, position : Nat]
    BY <1>0, <1>6, <1>7 DEF TablesOK
  <2> QED
    BY <1>0, <1>4, <2>1 DEF TablesOK
<1>9. \A q : SheetsOf(q)' = SheetsOf(q)
  BY <1>4, <1>6, <1>7 DEF SheetsOf
<1>10. EveryProjectOpens'
  BY <1>0, <1>9 DEF StripsOK, EveryProjectOpens
<1>11. Dense(p)'
  <2>1. {flows'[f].position : f \in SheetsOf(p)} = 0..(m - 1)
    <3>1. {flows'[f].position : f \in SheetsOf(p)} \subseteq 0..(m - 1)
      BY <1>2, <1>5
    <3>2. ASSUME NEW k \in 0..(m - 1) PROVE \E f \in SheetsOf(p) : flows'[f].position = k
      <4>1. k + 1 \in 1..m /\ k + 1 - 1 = k
        BY <1>2
      <4>2. /\ order[k + 1] \in SheetsOf(p)
            /\ flows'[order[k + 1]].position = k + 1 - 1
        BY <1>2, <1>5, <4>1
      <4> QED
        BY <4>1, <4>2
    <3> QED
      BY <3>1, <3>2
  <2> QED
    BY <1>9, <2>1 DEF Dense, m
<1>12. ASSUME NEW q \in projects', q # p PROVE Dense(q)'
  <2>1. \A f \in SheetsOf(q) : flows'[f].position = flows[f].position
    BY <1>6, <1>12 DEF SheetsOf
  <2> QED
    BY <1>0, <1>9, <1>12, <2>1, UntouchedStrip DEF StripsOK
<1> QED
  BY <1>8, <1>10, <1>11, <1>12 DEF StripsOK

(***************************************************************************)
(* The answers                                                             *)
(***************************************************************************)
Answers == [want : {"nothing", "lost", "tab", "project", "workspace"},
            project : 0..MaxProjectId, flow : 0..MaxFlowId, disturbed : BOOLEAN]

\* What the answer names is in the tables.
Exists(answer, table, ids) ==
    /\ answer.want = "tab" => /\ answer.flow \in DOMAIN table
                              /\ table[answer.flow].project = answer.project
    /\ answer.want = "project" => answer.project \in ids

AnswersOK ==
    /\ landing \in (1..MaxProjectId) \X (1..MaxFlowId)
    /\ due \in [Clients -> Answers]
    /\ \A c \in Clients : ~due[c].disturbed => Exists(due[c], flows, projects)

WorkspaceInv == StripsOK /\ AnswersOK

NobodyIsLost == \A c \in Clients : ~Ready(c) /\ due'[c] = Lost => due[c].disturbed

LEMMA TabsOfTheTables ==
  ASSUME TablesOK, NEW f \in DOMAIN flows
  PROVE  /\ flows[f].project \in projects /\ flows[f].project \in 1..MaxProjectId
         /\ f \in 1..MaxFlowId /\ f \in SheetsOf(flows[f].project)
  BY DEF TablesOK, SheetsOf

\* The answers a transaction may owe.
LEMMA OwedIsAnswer ==
  ASSUME NEW want \in {"tab", "project", "workspace"},
         NEW p \in 0..MaxProjectId, NEW f \in 0..MaxFlowId
  PROVE  /\ Owed(want, p, f) \in Answers
         /\ Owed(want, p, f).want = want /\ Owed(want, p, f).project = p
         /\ Owed(want, p, f).flow = f /\ Owed(want, p, f).disturbed = FALSE
  BY DEF Owed, Answers

\* A transaction that takes nothing away leaves every answer as good as it was.
LEMMA OwesKeepsAnswers ==
  ASSUME AnswersOK, NEW c \in Clients, Ready(c), NEW owed \in Answers, Owes(c, owed),
         Exists(owed, flows', projects'),
         landing' \in (1..MaxProjectId) \X (1..MaxFlowId),
         projects \subseteq projects', DOMAIN flows \subseteq DOMAIN flows',
         \A f \in DOMAIN flows : flows'[f].project = flows[f].project
  PROVE  AnswersOK' /\ NobodyIsLost
<1>1. due' = [due EXCEPT ![c] = owed] /\ due' \in [Clients -> Answers]
  BY DEF Owes, AnswersOK
<1>2. \A d \in Clients : ~due'[d].disturbed => Exists(due'[d], flows', projects')
  BY <1>1 DEF AnswersOK, Exists
<1>3. NobodyIsLost
  BY <1>1 DEF AnswersOK, NobodyIsLost, Ready
<1> QED
  BY <1>1, <1>2, <1>3 DEF AnswersOK

\* A deletion marks what the others are still owed.
LEMMA DeletionKeepsAnswers ==
  ASSUME AnswersOK, NEW c \in Clients, Ready(c), NEW owed \in Answers,
         OwesAfterDeleting(c, owed), Exists(owed, flows', projects'),
         landing' \in (1..MaxProjectId) \X (1..MaxFlowId)
  PROVE  AnswersOK' /\ NobodyIsLost
<1>1. \A d \in Clients :
         /\ due[d] \in Answers
         /\ d = c => due'[d] = owed
         /\ d # c /\ Ready(d) => due'[d] = due[d]
         /\ d # c /\ ~Ready(d) => due'[d] = [due[d] EXCEPT !.disturbed = TRUE]
  BY DEF OwesAfterDeleting, AnswersOK
<1>2. \A a \in Answers : /\ [a EXCEPT !.disturbed = TRUE] \in Answers
                         /\ [a EXCEPT !.disturbed = TRUE].disturbed
  BY DEF Answers
<1>3. due' \in [Clients -> Answers]
  <2>1. DOMAIN due' = Clients /\ due' = [d \in Clients |-> due'[d]]
    BY DEF OwesAfterDeleting
  <2> QED
    BY <1>1, <1>2, <2>1
<1>4. \A d \in Clients : Ready(d) => due[d].want \notin {"tab", "project"}
  BY DEF Ready, Answered, Lost, Owed
<1>5. \A d \in Clients : ~due'[d].disturbed => Exists(due'[d], flows', projects')
  <2> TAKE d \in Clients
  <2> HAVE ~due'[d].disturbed
  <2>1. CASE d = c
    BY <1>1, <2>1
  <2>2. CASE d # c /\ Ready(d)
    BY <1>1, <1>4, <2>2 DEF Exists
  <2>3. CASE d # c /\ ~Ready(d)
    BY <1>1, <1>2, <2>3
  <2> QED
    BY <2>1, <2>2, <2>3
<1>6. Lost.disturbed = FALSE
  BY DEF Lost, Owed
<1>7. NobodyIsLost
  <2>1. ASSUME NEW d \in Clients, ~Ready(d) PROVE due'[d] # Lost
    <3>1. due[d] \in Answers /\ due'[d] = [due[d] EXCEPT !.disturbed = TRUE]
      BY <1>1, <2>1
    <3>2. due'[d].disturbed
      BY <1>2, <3>1
    <3> QED
      BY <1>6, <3>2
  <2> QED
    BY <2>1 DEF NobodyIsLost
<1> QED
  BY <1>3, <1>5, <1>7 DEF AnswersOK

\* The first tab of the lowest-numbered project of some.
LEMMA FirstTabExists ==
  ASSUME StripsOK, NEW ids \in SUBSET projects, ids # {}
  PROVE  /\ Min(ids) \in ids
         /\ Leftmost(SheetsOf(Min(ids))) \in SheetsOf(Min(ids))
<1>1. TablesOK /\ ids \in SUBSET Nat
  BY Bounds DEF StripsOK, TablesOK
<1>2. Min(ids) \in ids
  BY <1>1, MinIsLeast
<1>3. SheetsOf(Min(ids)) # {} /\ SheetsOf(Min(ids)) \in SUBSET DOMAIN flows
  BY <1>2 DEF StripsOK, EveryProjectOpens, SheetsOf
<1> QED
  BY <1>1, <1>2, <1>3, LeftmostIsOne

LEMMA HoldingProjects ==
  ASSUME StripsOK
  PROVE  {flows[f].project : f \in DOMAIN flows} = projects
  BY DEF StripsOK, TablesOK, EveryProjectOpens, SheetsOf

\* Each transaction keeps the strips, lands on a tab and owes an answer that exists.
LEMMA GrowthKeepsInv ==
  ASSUME WorkspaceInv, NEW c \in Clients, Ready(c), NEW p, NEW f,
         StripsOK', p \in projects', f \in DOMAIN flows', flows'[f].project = p,
         landing' = <<p, f>>, NEW want \in {"tab", "project"}, NEW g \in {f, 0},
         want = "tab" => g = f, Owes(c, Owed(want, p, g)),
         projects \subseteq projects', DOMAIN flows \subseteq DOMAIN flows',
         \A h \in DOMAIN flows : flows'[h].project = flows[h].project
  PROVE  WorkspaceInv' /\ NobodyIsLost
<1>1. p \in 1..MaxProjectId /\ f \in 1..MaxFlowId
  BY DEF StripsOK, TablesOK
<1>2. p \in 0..MaxProjectId /\ g \in 0..MaxFlowId
  BY <1>1, Bounds
<1>3. Owed(want, p, g) \in Answers
  BY <1>2, OwedIsAnswer
<1>4. Exists(Owed(want, p, g), flows', projects')
  BY DEF Exists, Owed
<1> QED
  BY <1>1, <1>3, <1>4, OwesKeepsAnswers DEF WorkspaceInv

LEMMA CreationsKeepInv ==
  ASSUME WorkspaceInv, NEW c \in Clients, Ready(c), NEW p \in projects,
         CreateProject(c) \/ CreateFlow(c, p)
  PROVE  WorkspaceInv' /\ NobodyIsLost
<1>1. StripsOK /\ TablesOK /\ StripsOK'
  BY CreationsKeepStrips DEF WorkspaceInv, StripsOK
<1>2. ASSUME NEW q, NEW f, NEW k, f \notin DOMAIN flows, q \in projects',
             flows' = WithFlow(flows, f, [project |-> q, position |-> k]),
             landing' = <<q, f>>, Owes(c, Owed("tab", q, f)), projects \subseteq projects'
      PROVE  WorkspaceInv' /\ NobodyIsLost
  <2>1. /\ f \in DOMAIN flows' /\ flows'[f].project = q /\ DOMAIN flows \subseteq DOMAIN flows'
        /\ \A h \in DOMAIN flows : flows'[h].project = flows[h].project
    BY <1>2 DEF WithFlow
  <2> QED
    BY <1>1, <1>2, <2>1, GrowthKeepsInv
<1>3. NextRowid(DOMAIN flows) \notin DOMAIN flows
  BY <1>1, Bounds, RowidIsNew DEF TablesOK
<1> QED
  BY <1>2, <1>3 DEF CreateProject, CreateFlow

LEMMA DuplicateKeepsInv ==
  ASSUME WorkspaceInv, NEW c \in Clients, Ready(c), NEW f \in DOMAIN flows, DuplicateFlow(c, f)
  PROVE  WorkspaceInv' /\ NobodyIsLost
<1> DEFINE copy == NextRowid(DOMAIN flows)
<1>1. StripsOK /\ TablesOK /\ StripsOK'
  BY DuplicateKeepsStrips DEF WorkspaceInv, StripsOK
<1>2. /\ copy \notin DOMAIN flows /\ flows[f].project \in projects /\ projects' = projects
  BY <1>1, Bounds, RowidIsNew DEF TablesOK, DuplicateFlow
<1>3. /\ flows' = WithFlow(ShiftedRight(flows[f].project, flows[f].position), copy,
                           [project |-> flows[f].project, position |-> flows[f].position + 1])
      /\ landing' = <<flows[f].project, copy>> /\ Owes(c, Owed("tab", flows[f].project, copy))
  BY DEF DuplicateFlow
<1> HIDE DEF copy
<1>4. /\ copy \in DOMAIN flows' /\ flows'[copy].project = flows[f].project
      /\ DOMAIN flows \subseteq DOMAIN flows'
  BY <1>3 DEF WithFlow, ShiftedRight
<1>5. ASSUME NEW h \in DOMAIN flows PROVE flows'[h].project = flows[h].project
  <2>1. flows[h] \in [project : projects, position : Nat]
    BY <1>1 DEF TablesOK
  <2>2. flows'[h] \in {flows[h], [flows[h] EXCEPT !.position = @ + 1]}
    BY <1>2, <1>3 DEF WithFlow, ShiftedRight
  <2> QED
    BY <2>1, <2>2
<1> QED
  BY <1>1, <1>2, <1>3, <1>4, <1>5, GrowthKeepsInv

\* Steps that write no row of the flows table but its positions.
LEMMA InPlaceKeepsInv ==
  ASSUME WorkspaceInv, NEW c \in Clients, Ready(c), NEW p \in projects, NEW f \in SheetsOf(p),
         StripsOK', projects' = projects, DOMAIN flows' = DOMAIN flows,
         \A h \in DOMAIN flows : flows'[h].project = flows[h].project,
         landing' = <<p, f>>, Owes(c, Owed("project", p, 0)) \/ Owes(c, Owed("tab", p, f))
  PROVE  WorkspaceInv' /\ NobodyIsLost
<1>1. f \in DOMAIN flows' /\ flows'[f].project = p
  BY DEF SheetsOf
<1> QED
  BY <1>1, GrowthKeepsInv

LEMMA RenamesKeepInv ==
  ASSUME WorkspaceInv, NEW c \in Clients, Ready(c),
         \/ \E p \in projects : RenameProject(c, p)
         \/ \E f \in DOMAIN flows : RenameFlow(c, f)
  PROVE  WorkspaceInv' /\ NobodyIsLost
<1>1. StripsOK /\ TablesOK /\ UNCHANGED <<projects, flows>>
  BY DEF WorkspaceInv, StripsOK, RenameProject, RenameFlow
<1>2. StripsOK'
  BY <1>1 DEF StripsOK, TablesOK, EveryProjectOpens, Dense, SheetsOf
<1>3. ASSUME NEW p \in projects, RenameProject(c, p)
      PROVE  WorkspaceInv' /\ NobodyIsLost
  <2>1. SheetsOf(p) # {} /\ SheetsOf(p) \in SUBSET DOMAIN flows
    BY <1>1 DEF StripsOK, EveryProjectOpens, SheetsOf
  <2>2. Leftmost(SheetsOf(p)) \in SheetsOf(p)
    BY <1>1, <2>1, LeftmostIsOne
  <2> QED
    BY <1>1, <1>2, <1>3, <2>2, InPlaceKeepsInv DEF RenameProject
<1>4. ASSUME NEW f \in DOMAIN flows, RenameFlow(c, f)
      PROVE  WorkspaceInv' /\ NobodyIsLost
  <2>1. flows[f].project \in projects /\ f \in SheetsOf(flows[f].project)
    BY <1>1, TabsOfTheTables
  <2> QED
    BY <1>1, <1>2, <1>4, <2>1, InPlaceKeepsInv DEF RenameFlow
<1> QED
  BY <1>3, <1>4

LEMMA ReorderKeepsInv ==
  ASSUME WorkspaceInv, NEW c \in Clients, Ready(c), NEW p \in projects, NEW order \in Orders(p),
         ReorderFlows(c, p, order)
  PROVE  WorkspaceInv' /\ NobodyIsLost
<1>1. StripsOK /\ TablesOK /\ StripsOK' /\ projects' = projects /\ DOMAIN flows' = DOMAIN flows
  BY ReorderKeepsStrips DEF WorkspaceInv, StripsOK, ReorderFlows
<1>2. ASSUME NEW h \in DOMAIN flows PROVE flows'[h].project = flows[h].project
  <2>1. flows[h] \in [project : projects, position : Nat]
    BY <1>1 DEF TablesOK
  <2>2. \E k : flows'[h] \in {flows[h], [flows[h] EXCEPT !.position = k]}
    BY DEF ReorderFlows
  <2> QED
    BY <2>1, <2>2
<1>3. PICK m \in Nat : order \in [1..m -> DOMAIN flows]
  BY <1>1, SheetsAreFinite DEF Orders
<1>4. m = Cardinality(SheetsOf(p)) /\ \A i \in 1..m : order[i] \in SheetsOf(p)
  BY <1>1, <1>3, NewOrderIsInjective DEF ReorderFlows
<1>5. m # 0
  BY <1>1, <1>4, SheetsAreFinite, FS_EmptySet DEF StripsOK, EveryProjectOpens
<1>6. order[1] \in SheetsOf(p)
  BY <1>3, <1>4, <1>5
<1> QED
  BY <1>1, <1>2, <1>6, InPlaceKeepsInv DEF ReorderFlows

LEMMA DeletionsKeepInv ==
  ASSUME WorkspaceInv, NEW c \in Clients, Ready(c),
         \/ \E p \in projects : DeleteProject(c, p)
         \/ \E f \in DOMAIN flows : DeleteFlow(c, f)
  PROVE  WorkspaceInv' /\ NobodyIsLost
<1>1. StripsOK /\ TablesOK /\ AnswersOK
  BY DEF WorkspaceInv, StripsOK
<1>2. ASSUME NEW p \in projects, DeleteProject(c, p)
      PROVE  WorkspaceInv' /\ NobodyIsLost
  <2> DEFINE others == projects \ {p}
             q == Min(others)
  <2>1. StripsOK'
    BY <1>1, <1>2, DeleteProjectKeepsStrips
  <2>2. others # {} /\ others \in SUBSET projects
    BY <1>2 DEF DeleteProject
  <2>3. q \in others /\ Leftmost(SheetsOf(q)) \in SheetsOf(q)
    BY <1>1, <2>2, FirstTabExists
  <2>4. landing' = <<q, Leftmost(SheetsOf(q))>>
    BY <1>1, <1>2, HoldingProjects DEF DeleteProject
  <2> HIDE DEF q
  <2>5. landing' \in (1..MaxProjectId) \X (1..MaxFlowId)
    BY <1>1, <2>3, <2>4 DEF TablesOK, SheetsOf
  <2>6. Owed("workspace", 0, 0) \in Answers /\ Exists(Owed("workspace", 0, 0), flows', projects')
    <3>1. 0 \in 0..MaxProjectId /\ 0 \in 0..MaxFlowId
      BY Bounds
    <3> QED
      BY <3>1, OwedIsAnswer DEF Exists, Owed
  <2> QED
    BY <1>1, <1>2, <2>1, <2>5, <2>6, DeletionKeepsAnswers DEF DeleteProject, WorkspaceInv
<1>3. ASSUME NEW f \in DOMAIN flows, DeleteFlow(c, f)
      PROVE  WorkspaceInv' /\ NobodyIsLost
  <2>1. StripsOK'
    BY <1>1, <1>3, DeleteFlowKeepsStrips
  <2>2. PICK p, g : p = flows[f].project /\ g = Landing(p, f)
    OBVIOUS
  <2>3. g \in SheetsOf(p) \ {f} /\ landing' = <<p, g>> /\ OwesAfterDeleting(c, Owed("tab", p, g))
    BY <1>1, <1>3, <2>2, LandingExists DEF DeleteFlow
  <2>4. p \in 1..MaxProjectId /\ g \in 1..MaxFlowId /\ g \in DOMAIN flows /\ flows[g].project = p
    BY <1>1, <2>2, <2>3 DEF TablesOK, SheetsOf
  <2>5. g \in DOMAIN flows' /\ flows'[g].project = p
    <3>1. flows[g] \in [project : projects, position : Nat]
      BY <1>1, <2>4 DEF TablesOK
    <3>2. /\ g \in DOMAIN flows'
          /\ flows'[g] \in {flows[g], [flows[g] EXCEPT !.position = @ - 1]}
      BY <1>3, <2>3, <2>4 DEF DeleteFlow, ClosedUp
    <3> QED
      BY <2>4, <3>1, <3>2
  <2>6. p \in 0..MaxProjectId /\ g \in 0..MaxFlowId
    BY <2>4, Bounds
  <2>7. Owed("tab", p, g) \in Answers /\ Exists(Owed("tab", p, g), flows', projects')
    BY <2>5, <2>6, OwedIsAnswer DEF Exists, Owed
  <2>8. landing' \in (1..MaxProjectId) \X (1..MaxFlowId)
    BY <2>3, <2>4
  <2> QED
    BY <1>1, <2>1, <2>3, <2>7, <2>8, DeletionKeepsAnswers DEF WorkspaceInv
<1> QED
  BY <1>2, <1>3

(***************************************************************************)
(* The lookups after the commit                                            *)
(***************************************************************************)
LEMMA LookupsKeepInv ==
  ASSUME WorkspaceInv, NEW c \in Clients, FindCurrent(c) \/ FindProject(c) \/ ShowTab(c)
  PROVE  WorkspaceInv' /\ NobodyIsLost
<1>1. /\ StripsOK /\ TablesOK /\ AnswersOK /\ due[c] \in Answers
      /\ UNCHANGED <<projects, flows, landing>>
  BY DEF WorkspaceInv, StripsOK, AnswersOK, FindCurrent, FindProject, ShowTab
<1>2. StripsOK'
  BY <1>1 DEF StripsOK, TablesOK, EveryProjectOpens, Dense, SheetsOf
<1>3. ASSUME NEW next \in Answers, due' = [due EXCEPT ![c] = next],
             ~next.disturbed => Exists(next, flows, projects),
             next = Lost => due[c].disturbed
      PROVE  WorkspaceInv' /\ NobodyIsLost
  <2>1. /\ due' \in [Clients -> Answers]
        /\ \A d \in Clients : due'[d] = IF d = c THEN next ELSE due[d]
    BY <1>1, <1>3 DEF AnswersOK
  <2>2. AnswersOK'
    BY <1>1, <1>3, <2>1 DEF AnswersOK, Exists
  <2>3. NobodyIsLost
    BY <1>3, <2>1 DEF NobodyIsLost, Ready
  <2> QED
    BY <1>2, <2>2, <2>3 DEF WorkspaceInv
<1>4. Answered \in Answers /\ Lost \in Answers /\ ~Lost.disturbed /\ Answered # Lost
  BY Bounds DEF Answered, Lost, Owed, Answers
<1>5. Exists(Answered, flows, projects) /\ Exists(Lost, flows, projects)
  BY DEF Exists, Answered, Lost, Owed
<1>6. CASE ShowTab(c)
  <2>1. due[c].want = "tab"
    BY <1>6 DEF ShowTab
  <2>2. CASE due[c].flow \in SheetsOf(due[c].project)
    BY <1>3, <1>4, <1>5, <1>6, <2>2 DEF ShowTab
  <2>3. CASE due[c].flow \notin SheetsOf(due[c].project)
    <3>1. due[c].disturbed
      BY <1>1, <2>1, <2>3 DEF AnswersOK, Exists, SheetsOf
    <3> QED
      BY <1>3, <1>4, <1>5, <1>6, <2>3, <3>1 DEF ShowTab
  <2> QED
    BY <2>2, <2>3
<1>7. CASE FindProject(c)
  <2> DEFINE sheets == SheetsOf(due[c].project)
  <2>1. due[c].want = "project"
    BY <1>7 DEF FindProject
  <2>2. CASE sheets # {}
    <3>1. sheets \in SUBSET DOMAIN flows
      BY DEF SheetsOf
    <3>2. Leftmost(sheets) \in sheets
      BY <1>1, <2>2, <3>1, LeftmostIsOne
    <3>3. PICK f \in sheets : f = Leftmost(sheets)
      BY <3>2
    <3>4. f \in 0..MaxFlowId /\ f \in DOMAIN flows /\ flows[f].project = due[c].project
      BY <1>1, Bounds DEF TablesOK, SheetsOf
    <3> DEFINE next == [due[c] EXCEPT !.want = "tab", !.flow = f]
    <3>5. due' = [due EXCEPT ![c] = next]
      BY <1>7, <2>2, <3>3 DEF FindProject
    <3>6. /\ next \in Answers /\ next.want = "tab" /\ next.flow = f
          /\ next.project = due[c].project
      BY <1>1, <3>4 DEF Answers
    <3>7. next # Lost /\ Exists(next, flows, projects)
      BY <3>4, <3>6 DEF Exists, Lost, Owed
    <3> HIDE DEF next
    <3> QED
      BY <1>3, <3>5, <3>6, <3>7
  <2>3. CASE sheets = {}
    <3>1. due[c].disturbed
      BY <1>1, <2>1, <2>3 DEF AnswersOK, Exists, StripsOK, EveryProjectOpens
    <3> QED
      BY <1>3, <1>4, <1>5, <1>7, <2>3, <3>1 DEF FindProject
  <2> QED
    BY <2>2, <2>3
<1>8. CASE FindCurrent(c)
  <2>1. projects # {} /\ projects \in SUBSET projects
    BY <1>1 DEF StripsOK, EveryProjectOpens
  <2>2. Min(projects) \in projects /\ Leftmost(SheetsOf(Min(projects))) \in SheetsOf(Min(projects))
    BY <1>1, <2>1, FirstTabExists
  <2>3. PICK p, f : p = Min(projects) /\ f = Leftmost(SheetsOf(Min(projects)))
    OBVIOUS
  <2>4. /\ f \in 0..MaxFlowId /\ f \in DOMAIN flows /\ flows[f].project = p
        /\ p \in 0..MaxProjectId
    BY <1>1, <2>2, <2>3, Bounds DEF TablesOK, SheetsOf
  <2> DEFINE next == [due[c] EXCEPT !.want = "tab", !.project = p, !.flow = f]
  <2>5. due' = [due EXCEPT ![c] = next]
    BY <1>1, <1>8, <2>1, <2>3, HoldingProjects DEF FindCurrent
  <2>6. next \in Answers /\ next.want = "tab" /\ next.flow = f /\ next.project = p
    BY <1>1, <2>4 DEF Answers
  <2>7. next # Lost /\ Exists(next, flows, projects)
    BY <2>4, <2>6 DEF Exists, Lost, Owed
  <2> HIDE DEF next
  <2> QED
    BY <1>3, <2>5, <2>6, <2>7
<1> QED
  BY <1>6, <1>7, <1>8

(***************************************************************************)
(* The theorems                                                            *)
(***************************************************************************)
LEMMA InitHolds == Init => WorkspaceInv
<1> SUFFICES ASSUME Init PROVE WorkspaceInv
  OBVIOUS
<1>1. /\ projects = {1} /\ DOMAIN flows = {1} /\ flows[1] = [project |-> 1, position |-> 0]
      /\ 1 \in 1..MaxProjectId /\ 1 \in 1..MaxFlowId
  BY WorkspaceBounds DEF Init
<1>2. SheetsOf(1) = {1} /\ {flows[f].position : f \in {1}} = {0}
  BY <1>1 DEF SheetsOf
<1>3. Cardinality({1}) = 1
  BY FS_Singleton
<1>4. StripsOK
  BY <1>1, <1>2, <1>3 DEF StripsOK, TablesOK, EveryProjectOpens, Dense
<1>5. Answered \in Answers /\ Exists(Answered, flows, projects)
  BY Bounds DEF Answered, Owed, Answers, Exists
<1>6. AnswersOK
  BY <1>1, <1>5 DEF AnswersOK, Init
<1> QED
  BY <1>4, <1>6 DEF WorkspaceInv

LEMMA StepHolds ==
  ASSUME WorkspaceInv, [Next]_vars
  PROVE  WorkspaceInv' /\ NobodyIsLost
<1>1. CASE UNCHANGED vars
  <2>1. WorkspaceInv'
    BY <1>1 DEF vars, WorkspaceInv, StripsOK, TablesOK, EveryProjectOpens, Dense, SheetsOf,
                AnswersOK, Exists
  <2>2. NobodyIsLost
    BY <1>1 DEF vars, NobodyIsLost, Ready
  <2> QED
    BY <2>1, <2>2
<1>2. ASSUME NEW c \in Clients, Ready(c), Request(c)
      PROVE  WorkspaceInv' /\ NobodyIsLost
  <2>1. \E p \in projects : TRUE
    BY DEF WorkspaceInv, StripsOK, EveryProjectOpens
  <2> QED
    BY <1>2, <2>1, CreationsKeepInv, DeletionsKeepInv, RenamesKeepInv, ReorderKeepsInv,
       DuplicateKeepsInv DEF Request
<1> QED
  BY <1>1, <1>2, LookupsKeepInv DEF Next

\* The rows of the tables and what clients were answered keep their invariant at every step.
THEOREM StripsAndAnswers == Spec => []WorkspaceInv
  BY InitHolds, StepHolds, PTL DEF Spec

\* Rows and answers have their types, and a flowsheet's project exists.
THEOREM WorkspaceTypeCorrect == Spec => []TypeOK
<1>1. WorkspaceInv => TypeOK
  BY DEF WorkspaceInv, StripsOK, TablesOK, AnswersOK, Answers, TypeOK
<1> QED
  BY <1>1, StripsAndAnswers, PTL

\* The positions of a strip are 0, 1, 2, ... after any number of operations: appending at
\* MAX(position) + 1 and shifting by one never make two tabs share a place.
THEOREM PositionsStayDense == Spec => []PositionsAreDense
<1>1. WorkspaceInv => PositionsAreDense
  BY DEF WorkspaceInv, StripsOK, Dense, PositionsAreDense
<1> QED
  BY <1>1, StripsAndAnswers, PTL

\* There is always a project, and each has a flowsheet to open.
THEOREM ProjectsStayOpen == Spec => []EveryProjectOpens
<1>1. WorkspaceInv => EveryProjectOpens
  BY DEF WorkspaceInv, StripsOK
<1> QED
  BY <1>1, StripsAndAnswers, PTL

\* An operation that committed answers with a page unless somebody deleted something in
\* between, for any number of clients.
THEOREM AnswersAreFound == Spec => LostAnswersWereDisturbed
<1>1. WorkspaceInv /\ [Next]_vars => [NobodyIsLost]_vars
  BY StepHolds
<1>2. [NobodyIsLost]_vars =>
        [\A c \in Clients : ~Ready(c) /\ due'[c] = Lost => due[c].disturbed]_vars
  BY DEF NobodyIsLost
<1> QED
  BY <1>1, <1>2, StripsAndAnswers, PTL DEF Spec, LostAnswersWereDisturbed

(***************************************************************************)
(* The strips                                                              *)
(***************************************************************************)
\* A list of the sheets of a project by their positions.
IsStrip(s, sheets, table) ==
    /\ s \in [1..Cardinality(sheets) -> sheets]
    /\ \A i \in 1..Cardinality(sheets) : table[s[i]].position = i - 1

Apart(sheets, table) ==
    \A f, g \in sheets : table[f].position = table[g].position => f = g

\* Where positions are dense, as many sheets lie left of one as its position says.
LEMMA PlaceIsPosition ==
  ASSUME TablesOK, NEW p, Dense(p), NEW f \in SheetsOf(p)
  PROVE  Cardinality({g \in SheetsOf(p) : LeftOf(g, f)}) = flows[f].position
<1> DEFINE S == SheetsOf(p)
           n == Cardinality(S)
           k == flows[f].position
           left == {g \in S : LeftOf(g, f)}
           place == [h \in left |-> flows[h].position]
<1>1. IsFiniteSet(S) /\ n \in Nat /\ left \subseteq S
  BY SheetsAreFinite
<1>2. \A g \in S : /\ flows[g].position \in 0..(n - 1) /\ g \in Nat
                   /\ flows[g].position = k => g = f
  BY PositionsDiffer, Bounds DEF Dense, TablesOK, SheetsOf
<1>3. \A l \in 0..(n - 1) : \E g \in S : flows[g].position = l
  BY DEF Dense
<1>4. k \in 0..(n - 1) /\ f \in Nat
  BY <1>2
<1>5. \A g \in S : g \in left <=> flows[g].position < k
  <2> TAKE g \in S
  <2>1. flows[g].position \in Nat /\ k \in Nat /\ f \in Nat
    BY <1>1, <1>2, <1>4
  <2>2. flows[g].position = k => ~(g < f)
    BY <1>2, <1>4
  <2> QED
    BY <2>1, <2>2 DEF LeftOf
<1> HIDE DEF S, n, k, left
<1>6. place \in Bijection(left, 0..(k - 1))
  <2>1. \A h \in left : place[h] = flows[h].position /\ place[h] \in 0..(k - 1)
    BY <1>1, <1>2, <1>4, <1>5
  <2>2. \A l \in 0..(k - 1) : \E h \in left : place[h] = l
    BY <1>1, <1>3, <1>4, <1>5
  <2>3. \A g, h \in left : place[g] = place[h] => g = h
    BY <1>1, <2>1, PositionsDiffer DEF S
  <2>4. place \in [left -> 0..(k - 1)]
    BY <2>1
  <2> HIDE DEF place
  <2> QED
    BY <2>2, <2>3, <2>4 DEF Bijection, Injection, Surjection, IsInjective
<1>7. IsFiniteSet(left)
  BY <1>1, FS_Subset
<1>8. Cardinality(left) = Cardinality(0..(k - 1))
  BY <1>6, <1>7, FS_Bijection DEF ExistsBijection
<1>9. Cardinality(0..(k - 1)) = k
  <2>1. k \in Nat
    BY <1>1, <1>4
  <2> QED
    BY <2>1, FS_Interval
<1> QED
  BY <1>8, <1>9 DEF left, k, S

\* Two such lists of one table are the same.
LEMMA OneStrip ==
  ASSUME NEW sheets, NEW table, NEW s, NEW t, IsStrip(s, sheets, table), IsStrip(t, sheets, table),
         Apart(sheets, table), Cardinality(sheets) \in Nat
  PROVE  s = t
<1> DEFINE n == Cardinality(sheets)
<1>1. /\ s \in [1..n -> sheets] /\ t \in [1..n -> sheets]
      /\ \A i \in 1..n : table[s[i]].position = i - 1 /\ table[t[i]].position = i - 1
  BY DEF IsStrip
<1> HIDE DEF n
<1>2. \A i \in 1..n : s[i] = t[i]
  BY <1>1 DEF Apart
<1>3. s = [i \in 1..n |-> s[i]] /\ t = [i \in 1..n |-> t[i]]
  BY <1>1
<1> QED
  BY <1>2, <1>3, Zenon

\* What is known of the strip of a project.
StripOf(p) ==
    /\ IsFiniteSet(SheetsOf(p)) /\ Cardinality(SheetsOf(p)) \in Nat
    /\ IsStrip(Strip(p), SheetsOf(p), flows)
    /\ Apart(SheetsOf(p), flows)
    /\ \A f \in SheetsOf(p) : \E i \in 1..Cardinality(SheetsOf(p)) : Strip(p)[i] = f

LEMMA StripIs ==
  ASSUME TablesOK, NEW p, Dense(p)
  PROVE  StripOf(p)
<1> DEFINE S == SheetsOf(p)
           n == Cardinality(S)
<1>1. IsFiniteSet(S) /\ n \in Nat
  BY SheetsAreFinite
<1>2. Apart(S, flows)
  BY PositionsDiffer DEF Apart
<1>3. \A f \in S : flows[f].position \in 0..(n - 1)
  BY DEF Dense
<1>4. ASSUME NEW i \in 1..n
      PROVE  Strip(p)[i] \in S /\ flows[Strip(p)[i]].position = i - 1
  <2>1. i - 1 \in 0..(n - 1)
    BY <1>1
  <2>2. \E f \in S : flows[f].position = i - 1
    BY <2>1 DEF Dense
  <2>3. \E f \in S : Cardinality({g \in S : LeftOf(g, f)}) = i - 1
    BY <2>2, PlaceIsPosition
  <2>4. Strip(p)[i] = CHOOSE f \in S : Cardinality({g \in S : LeftOf(g, f)}) = i - 1
    BY DEF Strip
  <2>5. Strip(p)[i] \in S /\ Cardinality({g \in S : LeftOf(g, Strip(p)[i])}) = i - 1
    BY <2>3, <2>4
  <2> QED
    BY <2>5, PlaceIsPosition
<1>5. Strip(p) = [i \in 1..n |-> Strip(p)[i]]
  <2> DEFINE at(i) == CHOOSE f \in S : Cardinality({g \in S : LeftOf(g, f)}) = i - 1
  <2>1. Strip(p) = [i \in 1..n |-> at(i)]
    BY DEF Strip
  <2> HIDE DEF at, n
  <2> QED
    BY <2>1
<1>6. IsStrip(Strip(p), S, flows)
  BY <1>4, <1>5 DEF IsStrip
<1>7. ASSUME NEW f \in S PROVE \E i \in 1..n : Strip(p)[i] = f
  <2>1. PICK i \in 1..n : i - 1 = flows[f].position
    <3>1. \A k \in 0..(n - 1) : k + 1 \in 1..n /\ (k + 1) - 1 = k
      BY <1>1
    <3> QED
      BY <1>3, <3>1
  <2>2. Strip(p)[i] \in S /\ flows[Strip(p)[i]].position = flows[f].position
    BY <1>4, <2>1
  <2> QED
    BY <1>2, <2>2 DEF Apart
<1> QED
  BY <1>1, <1>2, <1>6, <1>7 DEF StripOf

StripsAre == \A p \in projects : StripOf(p)

LEMMA StripsAreLists == StripsOK => StripsAre
  BY StripIs DEF StripsOK, StripsAre

LEMMA StripsStayLists == StripsOK' => StripsAre'
  BY StripsAreLists, PTL

(***************************************************************************)
(* Lists with an entry more or less                                        *)
(***************************************************************************)
LEMMA ListOf ==
  ASSUME NEW S, NEW n \in Nat, NEW s \in [1..n -> S]
  PROVE  s \in Seq(S) /\ Len(s) = n /\ DOMAIN s = 1..n
  OBVIOUS

LEMMA PartOf ==
  ASSUME NEW S, NEW s \in Seq(S), NEW m \in 1..(Len(s) + 1), NEW n \in 0..Len(s), m <= n + 1
  PROVE  /\ SubSeq(s, m, n) \in Seq(S)
         /\ Len(SubSeq(s, m, n)) = n - m + 1
         /\ \A i \in 1..(n - m + 1) : SubSeq(s, m, n)[i] = s[m + i - 1]
  OBVIOUS

LEMMA Joined ==
  ASSUME NEW S, NEW s \in Seq(S), NEW t \in Seq(S)
  PROVE  /\ s \o t \in Seq(S) /\ Len(s \o t) = Len(s) + Len(t)
         /\ \A i \in 1..(Len(s) + Len(t)) :
               (s \o t)[i] = IF i <= Len(s) THEN s[i] ELSE t[i - Len(s)]
  OBVIOUS

Without(r, s, n, k, S) ==
    /\ r \in [1..(n - 1) -> S]
    /\ \A i \in 1..(n - 1) : r[i] = IF i < k THEN s[i] ELSE s[i + 1]

LEMMA Removed ==
  ASSUME NEW S, NEW n \in Nat, NEW s \in [1..n -> S], NEW k \in 1..n
  PROVE  Without(RemoveAt(s, k), s, n, k, S)
<1> DEFINE front == SubSeq(s, 1, k - 1)
           back == SubSeq(s, k + 1, n)
           rest == front \o back
<1>1. s \in Seq(S) /\ Len(s) = n /\ k - 1 \in Nat /\ n - k \in Nat
  BY ListOf
<1>2. front \in Seq(S) /\ Len(front) = k - 1 /\ \A i \in 1..(k - 1) : front[i] = s[i]
  BY <1>1, PartOf
<1>3. back \in Seq(S) /\ Len(back) = n - k /\ \A i \in 1..(n - k) : back[i] = s[k + i]
  <2>1. k + 1 \in 1..(n + 1) /\ n - (k + 1) + 1 = n - k /\ \A i \in Int : k + 1 + i - 1 = k + i
    OBVIOUS
  <2> QED
    BY <1>1, <2>1, PartOf
<1> HIDE DEF front, back
<1>4. /\ rest \in Seq(S) /\ Len(rest) = n - 1
      /\ \A i \in 1..(n - 1) : rest[i] = IF i <= k - 1 THEN front[i] ELSE back[i - (k - 1)]
  <2>1. Len(front) + Len(back) = n - 1
    BY <1>2, <1>3
  <2> QED
    BY <1>2, <1>3, <2>1, Joined
<1>5. RemoveAt(s, k) = rest
  BY <1>1 DEF RemoveAt, front, back
<1> HIDE DEF rest
<1>6. ASSUME NEW i \in 1..(n - 1)
      PROVE  rest[i] = IF i < k THEN s[i] ELSE s[i + 1]
  <2>1. CASE i < k
    BY <1>2, <1>4, <2>1
  <2>2. CASE ~(i < k)
    <3>1. i - (k - 1) \in 1..(n - k) /\ k + (i - (k - 1)) = i + 1 /\ ~(i <= k - 1)
      BY <2>2
    <3> QED
      BY <1>3, <1>4, <2>2, <3>1
  <2> QED
    BY <2>1, <2>2
<1>7. rest \in [1..(n - 1) -> S]
  BY <1>4
<1> QED
  BY <1>5, <1>6, <1>7 DEF Without

With(r, s, n, k, e, S) ==
    /\ r \in [1..(n + 1) -> S]
    /\ \A i \in 1..(n + 1) : r[i] = IF i < k THEN s[i] ELSE IF i = k THEN e ELSE s[i - 1]

LEMMA Inserted ==
  ASSUME NEW S, NEW n \in Nat, NEW s \in [1..n -> S], NEW k \in 1..(n + 1), NEW e \in S
  PROVE  With(InsertAt(s, k, e), s, n, k, e, S)
<1> DEFINE front == SubSeq(s, 1, k - 1)
           back == SubSeq(s, k, n)
           upto == front \o <<e>>
           rest == upto \o back
<1>1. s \in Seq(S) /\ Len(s) = n /\ k - 1 \in Nat /\ n - k + 1 \in Nat
  BY ListOf
<1>2. front \in Seq(S) /\ Len(front) = k - 1 /\ \A i \in 1..(k - 1) : front[i] = s[i]
  BY <1>1, PartOf
<1>3. /\ back \in Seq(S) /\ Len(back) = n - k + 1
      /\ \A i \in 1..(n - k + 1) : back[i] = s[k + i - 1]
  BY <1>1, PartOf
<1> HIDE DEF front, back
<1>4. <<e>> \in Seq(S) /\ Len(<<e>>) = 1 /\ <<e>>[1] = e
  OBVIOUS
<1>5. /\ upto \in Seq(S) /\ Len(upto) = k
      /\ \A i \in 1..k : upto[i] = IF i <= k - 1 THEN front[i] ELSE <<e>>[i - (k - 1)]
  BY <1>1, <1>2, <1>4, Joined
<1> HIDE DEF upto
<1>6. /\ rest \in Seq(S) /\ Len(rest) = n + 1
      /\ \A i \in 1..(n + 1) : rest[i] = IF i <= k THEN upto[i] ELSE back[i - k]
  BY <1>1, <1>3, <1>5, Joined
<1>7. InsertAt(s, k, e) = rest
  BY <1>1 DEF InsertAt, front, back, upto
<1> HIDE DEF rest
<1>8. ASSUME NEW i \in 1..(n + 1)
      PROVE  rest[i] = IF i < k THEN s[i] ELSE IF i = k THEN e ELSE s[i - 1]
  <2>1. CASE i < k
    BY <1>2, <1>5, <1>6, <2>1
  <2>2. CASE i = k
    <3>1. i - (k - 1) = 1 /\ ~(i <= k - 1) /\ i <= k /\ ~(i < k)
      BY <2>2
    <3> QED
      BY <1>4, <1>5, <1>6, <2>2, <3>1
  <2>3. CASE i > k
    <3>1. i - k \in 1..(n - k + 1) /\ k + (i - k) - 1 = i - 1 /\ ~(i <= k) /\ ~(i < k) /\ i # k
      BY <2>3
    <3> QED
      BY <1>3, <1>6, <3>1
  <2> QED
    BY <2>1, <2>2, <2>3
<1>9. rest \in [1..(n + 1) -> S]
  BY <1>6
<1> QED
  BY <1>7, <1>8, <1>9 DEF With

(***************************************************************************)
(* Every operation is one of the tab strips                                *)
(***************************************************************************)
\* The operators of the instance are those of this module.
LEMMA SameOperators ==
  /\ \A S : Abstract!Cardinality(S) = Cardinality(S)
  /\ \A s, i, e : Abstract!InsertAt(s, i, e) = InsertAt(s, i, e)
  /\ \A s, i : Abstract!RemoveAt(s, i) = RemoveAt(s, i)
<1>1. \A S : Abstract!Cardinality(S) = Cardinality(S)
  BY Zenon DEF Cardinality, Abstract!Cardinality
<1>2. \A s, i, e : Abstract!InsertAt(s, i, e) = InsertAt(s, i, e)
  BY DEF InsertAt, Abstract!InsertAt
<1>3. \A s, i : Abstract!RemoveAt(s, i) = RemoveAt(s, i)
  BY DEF RemoveAt, Abstract!RemoveAt
<1> QED
  BY <1>1, <1>2, <1>3

LEMMA TabsAreSheets ==
  ASSUME StripsOK
  PROVE  /\ DOMAIN Strips = projects
         /\ \A p \in projects : /\ Strips[p] = Strip(p) /\ StripOf(p)
                                /\ Abstract!Tabs(p) = SheetsOf(p)
                                /\ Len(Strip(p)) = Cardinality(SheetsOf(p))
                                /\ DOMAIN Strip(p) = 1..Cardinality(SheetsOf(p))
         /\ Abstract!Used \subseteq DOMAIN flows
<1>1. DOMAIN Strips = projects /\ \A p \in projects : Strips[p] = Strip(p) /\ StripOf(p)
  BY StripsAreLists DEF Strips, StripsAre
<1>2. ASSUME NEW p \in projects
      PROVE  /\ Abstract!Tabs(p) = SheetsOf(p) /\ Len(Strip(p)) = Cardinality(SheetsOf(p))
             /\ DOMAIN Strip(p) = 1..Cardinality(SheetsOf(p))
  <2>1. /\ Strip(p) \in [1..Cardinality(SheetsOf(p)) -> SheetsOf(p)]
        /\ Cardinality(SheetsOf(p)) \in Nat
        /\ \A f \in SheetsOf(p) : \E i \in 1..Cardinality(SheetsOf(p)) : Strip(p)[i] = f
    BY <1>1 DEF StripOf, IsStrip
  <2>2. Abstract!Tabs(p) = {Strip(p)[i] : i \in DOMAIN Strip(p)}
    BY <1>1 DEF Abstract!Tabs, Abstract!ToSet
  <2> QED
    BY <2>1, <2>2, ListOf
<1>3. Abstract!Used \subseteq DOMAIN flows
  <2>1. \A p \in DOMAIN Strips : Abstract!Tabs(p) \subseteq DOMAIN flows
    BY <1>1, <1>2 DEF SheetsOf
  <2> QED
    BY <2>1 DEF Abstract!Used
<1> QED
  BY <1>1, <1>2, <1>3

LEMMA NewStrip ==
  ASSUME StripsOK', NEW p \in projects', NEW s, IsStrip(s, SheetsOf(p)', flows')
  PROVE  Strip(p)' = s
<1>1. StripOf(p)'
  BY StripsStayLists DEF StripsAre
<1> QED
  BY <1>1, OneStrip DEF StripOf

LEMMA SameStrip ==
  ASSUME StripsOK, StripsOK', NEW q \in projects, q \in projects', SheetsOf(q)' = SheetsOf(q),
         \A f \in SheetsOf(q) : flows'[f].position = flows[f].position
  PROVE  Strip(q)' = Strip(q)
<1>1. StripOf(q)
  BY TabsAreSheets
<1>2. IsStrip(Strip(q), SheetsOf(q)', flows')
  BY <1>1 DEF StripOf, IsStrip
<1> QED
  BY <1>2, NewStrip

\* A transaction on the flowsheets of one project leaves every other strip alone.
LEMMA OneStripChanges ==
  ASSUME StripsOK, StripsOK', projects' = projects, NEW p \in projects,
         \A q \in projects \ {p} : /\ SheetsOf(q)' = SheetsOf(q)
                                   /\ \A f \in SheetsOf(q) : flows'[f].position = flows[f].position,
         NEW s, IsStrip(s, SheetsOf(p)', flows')
  PROVE  Strips' = [Strips EXCEPT ![p] = s]
<1>1. Strip(p)' = s
  BY NewStrip
<1>2. \A q \in projects \ {p} : Strip(q)' = Strip(q)
  BY SameStrip
<1> QED
  BY <1>1, <1>2 DEF Strips

\* The leftmost sheet is the first of the strip.
LEMMA LeftmostIsFirst ==
  ASSUME StripsOK, NEW p \in projects
  PROVE  Leftmost(SheetsOf(p)) = Strip(p)[1]
<1> DEFINE S == SheetsOf(p)
           n == Cardinality(S)
           l == Leftmost(S)
<1>1. TablesOK /\ S # {} /\ S \in SUBSET DOMAIN flows /\ StripOf(p)
  BY TabsAreSheets DEF StripsOK, EveryProjectOpens, SheetsOf
<1>2. l \in S /\ \A g \in S \ {l} : LeftOf(l, g)
  BY <1>1, LeftmostIsOne
<1>3. n \in Nat /\ n # 0
  BY <1>1, FS_EmptySet DEF StripOf
<1> HIDE DEF n
<1>4. 1 \in 1..n
  BY <1>3
<1>5. Strip(p)[1] \in S /\ flows[Strip(p)[1]].position = 0
  BY <1>1, <1>4 DEF StripOf, IsStrip, n
<1>6. flows[l].position \in Nat
  BY <1>1, <1>2 DEF TablesOK
<1>7. CASE Strip(p)[1] # l
  <2>1. LeftOf(l, Strip(p)[1])
    BY <1>2, <1>5, <1>7
  <2>2. flows[l].position = flows[Strip(p)[1]].position
    BY <1>5, <1>6, <2>1 DEF LeftOf
  <2> QED
    BY <1>1, <1>2, <1>5, <2>2 DEF StripOf, Apart
<1> QED
  BY <1>7

LEMMA ReorderImplements ==
  ASSUME StripsOK, StripsOK', NEW c \in Clients, NEW p \in projects, NEW order \in Orders(p),
         ReorderFlows(c, p, order)
  PROVE  Abstract!Reorder(p)
<1> DEFINE m == Cardinality(SheetsOf(p))
<1>1. TablesOK
  BY DEF StripsOK
<1>2. /\ m \in Nat /\ order \in [1..m -> SheetsOf(p)]
      /\ \A f \in SheetsOf(p) : \E i \in 1..m : order[i] = f
      /\ \A i \in 1..m, j \in 1..m : order[i] = order[j] => i = j
      /\ projects' = projects /\ DOMAIN flows' = DOMAIN flows
      /\ \A i \in 1..m : flows'[order[i]].project = p /\ flows'[order[i]].position = i - 1
      /\ \A f \in DOMAIN flows \ SheetsOf(p) : flows'[f] = flows[f]
  BY <1>1, ReorderRows
<1> HIDE DEF m
<1>3. \A f \in SheetsOf(p) : flows'[f].project = p
  BY <1>2
<1>4. \A q : SheetsOf(q)' = SheetsOf(q)
  BY <1>2, <1>3 DEF SheetsOf
<1>5. IsStrip(order, SheetsOf(p)', flows')
  BY <1>2, <1>4 DEF IsStrip, m
<1>6. \A q \in projects \ {p} : \A f \in SheetsOf(q) : flows'[f].position = flows[f].position
  BY <1>2 DEF SheetsOf
<1>7. Strips' = [Strips EXCEPT ![p] = order]
  BY <1>2, <1>4, <1>5, <1>6, OneStripChanges
<1>8. Abstract!Tabs(p) = SheetsOf(p)
  BY TabsAreSheets
<1>9. order \in Abstract!SetToSeqs(Abstract!Tabs(p))
  <2>1. \A i, j \in 1..m : i # j => order[i] # order[j]
    BY <1>2
  <2>2. m = Abstract!Cardinality(Abstract!Tabs(p))
    BY <1>8, SameOperators DEF m
  <2> QED
    BY <1>2, <1>8, <2>1, <2>2 DEF Abstract!SetToSeqs
<1>10. landing' = <<p, order[1]>>
  BY DEF ReorderFlows
<1> QED
  BY <1>7, <1>9, <1>10 DEF Abstract!Reorder

LEMMA UnchangedStrips ==
  ASSUME StripsOK, StripsOK', UNCHANGED <<projects, flows>>
  PROVE  UNCHANGED Strips
<1>1. \A q : SheetsOf(q)' = SheetsOf(q)
  BY DEF SheetsOf
<1>2. \A q \in projects : Strip(q)' = Strip(q)
  BY <1>1, SameStrip
<1> QED
  BY <1>2 DEF Strips

LEMMA VisitImplements ==
  ASSUME StripsOK, StripsOK', NEW c \in Clients,
         \/ \E p \in projects : RenameProject(c, p)
         \/ \E f \in DOMAIN flows : RenameFlow(c, f)
  PROVE  \E p \in projects : \E f \in Abstract!Tabs(p) : Abstract!Visit(p, f)
<1>1. TablesOK /\ UNCHANGED Strips
  BY UnchangedStrips DEF StripsOK, RenameProject, RenameFlow
<1>2. ASSUME NEW p \in projects, RenameProject(c, p)
      PROVE  Leftmost(SheetsOf(p)) \in Abstract!Tabs(p) /\ Abstract!Visit(p, Leftmost(SheetsOf(p)))
  <2>1. SheetsOf(p) # {} /\ SheetsOf(p) \in SUBSET DOMAIN flows
    BY DEF StripsOK, EveryProjectOpens, SheetsOf
  <2>2. Leftmost(SheetsOf(p)) \in Abstract!Tabs(p)
    BY <1>1, <2>1, LeftmostIsOne, TabsAreSheets
  <2> QED
    BY <1>1, <1>2, <2>2 DEF Abstract!Visit, RenameProject
<1>3. ASSUME NEW f \in DOMAIN flows, RenameFlow(c, f)
      PROVE  \E p \in projects : f \in Abstract!Tabs(p) /\ Abstract!Visit(p, f)
  <2>1. flows[f].project \in projects /\ f \in Abstract!Tabs(flows[f].project)
    BY <1>1, TabsOfTheTables, TabsAreSheets
  <2> QED
    BY <1>1, <1>3, <2>1 DEF Abstract!Visit, RenameFlow
<1> QED
  BY <1>2, <1>3

LEMMA DuplicateImplements ==
  ASSUME StripsOK, StripsOK', NEW c \in Clients, NEW f \in DOMAIN flows, DuplicateFlow(c, f)
  PROVE  \E p \in projects : \E i \in DOMAIN Strips[p] : Abstract!CopySheet(p, i, landing'[2])
<1>1. PICK p, here, copy : /\ p = flows[f].project /\ here = flows[f].position
                           /\ copy = NextRowid(DOMAIN flows)
  OBVIOUS
<1> DEFINE S == SheetsOf(p)
           n == Cardinality(S)
           s == Strip(p)
           longer == InsertAt(s, here + 2, copy)
<1>2. /\ p \in projects /\ here \in Nat /\ projects' = projects
      /\ copy \notin DOMAIN flows /\ DuplicatedRows(p, here, copy)
  BY <1>1, DuplicateRows DEF StripsOK
<1>3. /\ n \in Nat /\ IsFiniteSet(S) /\ s \in [1..n -> S] /\ copy \notin S
      /\ \A i \in 1..n : flows[s[i]].position = i - 1
      /\ DOMAIN Strips[p] = 1..n /\ Strips[p] = s
  BY <1>2, TabsAreSheets DEF StripOf, IsStrip, SheetsOf
<1>4. here \in 0..(n - 1)
  BY <1>1, <1>2 DEF SheetsOf, StripsOK, Dense
<1>5. Cardinality(SheetsOf(p)') = n + 1 /\ SheetsOf(p)' = S \cup {copy}
  <2>1. SheetsOf(p)' = S \cup {copy}
    BY <1>2 DEF DuplicatedRows
  <2>2. Cardinality(S \cup {copy}) = n + 1
    BY <1>3, FS_AddElement
  <2> QED
    BY <2>1, <2>2
<1>6. /\ flows'[copy].position = here + 1
      /\ \A i \in 1..n : flows'[s[i]].position = IF i - 1 > here THEN i ELSE i - 1
  <2>1. \A g \in S : flows'[g].position = IF flows[g].position > here THEN flows[g].position + 1
                                          ELSE flows[g].position
    BY <1>2 DEF DuplicatedRows, SheetsOf
  <2>2. \A i \in 1..n : s[i] \in S /\ i - 1 + 1 = i
    BY <1>3
  <2>3. flows'[copy].position = here + 1
    BY <1>2 DEF DuplicatedRows
  <2> HIDE DEF s, S, n
  <2> QED
    BY <1>3, <2>1, <2>2, <2>3
<1> HIDE DEF s, S, n
<1>7. /\ longer \in [1..(n + 1) -> S \cup {copy}]
      /\ \A i \in 1..(n + 1) : longer[i] = IF i < here + 2 THEN s[i]
                                           ELSE IF i = here + 2 THEN copy ELSE s[i - 1]
  <2>1. here + 2 \in 1..(n + 1) /\ s \in [1..n -> S \cup {copy}] /\ copy \in S \cup {copy}
    BY <1>3, <1>4
  <2>2. PICK k \in 1..(n + 1) : k = here + 2
    BY <2>1
  <2>3. PICK T : T = S \cup {copy}
    OBVIOUS
  <2>4. s \in [1..n -> T] /\ copy \in T
    BY <2>1, <2>3
  <2> HIDE DEF longer
  <2>5. With(InsertAt(s, k, copy), s, n, k, copy, T)
    BY <1>3, <2>4, Inserted
  <2> QED
    BY <2>2, <2>3, <2>5 DEF longer, With
<1> HIDE DEF longer
<1>8. \A i \in 1..(n + 1) : flows'[longer[i]].position = i - 1
  <2> TAKE i \in 1..(n + 1)
  <2>1. CASE i < here + 2
    BY <1>3, <1>4, <1>6, <1>7, <2>1
  <2>2. CASE i = here + 2
    BY <1>4, <1>6, <1>7, <2>2
  <2>3. CASE i > here + 2
    <3>1. i - 1 \in 1..n /\ i - 1 - 1 > here /\ ~(i < here + 2) /\ i # here + 2
      BY <1>3, <1>4, <2>3
    <3> QED
      BY <1>6, <1>7, <3>1
  <2> QED
    BY <1>3, <1>4, <2>1, <2>2, <2>3
<1>9. IsStrip(longer, SheetsOf(p)', flows')
  BY <1>5, <1>7, <1>8 DEF IsStrip
<1>10. \A q \in projects \ {p} : /\ SheetsOf(q)' = SheetsOf(q)
                                 /\ \A g \in SheetsOf(q) : flows'[g].position = flows[g].position
  BY <1>2 DEF DuplicatedRows, SheetsOf
<1>11. Strips' = [Strips EXCEPT ![p] = longer]
  BY <1>2, <1>9, <1>10, OneStripChanges
<1>12. copy \notin Abstract!Used
  BY <1>2, TabsAreSheets
<1>13. landing' = <<p, copy>>
  BY <1>1 DEF DuplicateFlow
<1>14. here + 1 \in DOMAIN Strips[p]
  BY <1>3, <1>4
<1>15. longer = Abstract!InsertAt(Strips[p], (here + 1) + 1, copy)
  BY <1>2, <1>3, SameOperators DEF longer
<1>16. Abstract!CopySheet(p, here + 1, landing'[2])
  BY <1>11, <1>12, <1>13, <1>15 DEF Abstract!CopySheet
<1> QED
  BY <1>2, <1>14, <1>16

LEMMA Appended ==
  ASSUME NEW S, NEW n \in Nat, NEW s \in [1..n -> S], NEW e \in S
  PROVE  With(Append(s, e), s, n, n + 1, e, S)
<1>1. s \in Seq(S) /\ Len(s) = n
  BY ListOf
<1>2. /\ Append(s, e) \in Seq(S) /\ Len(Append(s, e)) = n + 1
      /\ \A i \in 1..n : Append(s, e)[i] = s[i]
      /\ Append(s, e)[n + 1] = e
  BY <1>1
<1>3. Append(s, e) \in [1..(n + 1) -> S]
  <2>1. \A u \in Seq(S) : u \in [1..Len(u) -> S]
    OBVIOUS
  <2> QED
    BY <1>2, <2>1
<1>4. \A i \in 1..(n + 1) : i < n + 1 => i \in 1..n
  OBVIOUS
<1> QED
  BY <1>2, <1>3, <1>4 DEF With

\* A flowsheet at the end of its project is the last of the strip.
LEMMA AppendImplements ==
  ASSUME StripsOK, StripsOK', NEW p \in projects, NEW f, f \notin DOMAIN flows,
         projects' = projects, landing' = <<p, f>>,
         flows' = WithFlow(flows, f, [project |-> p, position |-> EndPosition(p)])
  PROVE  Abstract!NewSheet(p, landing'[2])
<1> DEFINE S == SheetsOf(p)
           n == Cardinality(S)
           s == Strip(p)
<1>1. /\ n \in Nat /\ IsFiniteSet(S) /\ s \in [1..n -> S] /\ f \notin S
      /\ \A i \in 1..n : flows[s[i]].position = i - 1
      /\ Strips[p] = s
  BY TabsAreSheets DEF StripOf, IsStrip, SheetsOf
<1>2. EndPosition(p) = n
  BY EndIsNext DEF StripsOK
<1>3. /\ DOMAIN flows' = DOMAIN flows \cup {f}
      /\ flows'[f] = [project |-> p, position |-> n]
      /\ \A g \in DOMAIN flows : flows'[g] = flows[g]
  BY <1>2 DEF WithFlow
<1>4. SheetsOf(p)' = S \cup {f} /\ \A q : q # p => SheetsOf(q)' = SheetsOf(q)
  BY <1>3 DEF SheetsOf
<1>5. Cardinality(S \cup {f}) = n + 1
  BY <1>1, FS_AddElement
<1>6. \A i \in 1..n : flows'[s[i]].position = i - 1
  BY <1>1, <1>3 DEF SheetsOf
<1>7. flows'[f].position = n
  BY <1>3
<1> HIDE DEF s, S, n
<1>8. s \in [1..n -> S \cup {f}] /\ f \in S \cup {f}
  BY <1>1
<1>9. With(Append(s, f), s, n, n + 1, f, S \cup {f})
  BY <1>1, <1>8, Appended
<1>10. \A i \in 1..(n + 1) : i < n + 1 => i \in 1..n
  BY <1>1
<1>11. IsStrip(Append(s, f), SheetsOf(p)', flows')
  <2>1. \A i \in 1..(n + 1) : flows'[Append(s, f)[i]].position = i - 1
    BY <1>1, <1>6, <1>7, <1>9, <1>10 DEF With
  <2>2. Append(s, f) \in [1..(n + 1) -> S \cup {f}]
    BY <1>9 DEF With
  <2> QED
    BY <1>4, <1>5, <2>1, <2>2 DEF IsStrip
<1>12. \A q \in projects \ {p} : /\ SheetsOf(q)' = SheetsOf(q)
                                 /\ \A g \in SheetsOf(q) : flows'[g].position = flows[g].position
  BY <1>3, <1>4 DEF SheetsOf
<1>13. Strips' = [Strips EXCEPT ![p] = Append(s, f)]
  BY <1>11, <1>12, OneStripChanges
<1>14. f \notin Abstract!Used
  BY TabsAreSheets
<1> QED
  BY <1>1, <1>13, <1>14 DEF Abstract!NewSheet

LEMMA CreateFlowImplements ==
  ASSUME StripsOK, StripsOK', NEW c \in Clients, NEW p \in projects, CreateFlow(c, p)
  PROVE  Abstract!NewSheet(p, landing'[2])
<1>1. NextRowid(DOMAIN flows) \notin DOMAIN flows
  BY Bounds, RowidIsNew DEF StripsOK, TablesOK
<1> QED
  BY <1>1, AppendImplements DEF CreateFlow

LEMMA CreateProjectImplements ==
  ASSUME StripsOK, StripsOK', NEW c \in Clients, CreateProject(c)
  PROVE  \E p \in DOMAIN Strips' \ DOMAIN Strips : Abstract!NewProject(p, landing'[2])
<1>1. PICK p, f, k : /\ p = NextRowid(projects) /\ f = NextRowid(DOMAIN flows)
                     /\ k = EndPosition(p)
  OBVIOUS
<1>2. /\ p \notin projects /\ f \notin DOMAIN flows
      /\ projects' = projects \cup {p} /\ landing' = <<p, f>>
      /\ flows' = WithFlow(flows, f, [project |-> p, position |-> k])
  BY <1>1, Bounds, RowidIsNew DEF StripsOK, TablesOK, CreateProject
<1>3. SheetsOf(p) = {}
  BY <1>2 DEF StripsOK, TablesOK, SheetsOf
<1>4. k = 0
  BY <1>1, <1>3 DEF EndPosition
<1>5. /\ DOMAIN flows' = DOMAIN flows \cup {f}
      /\ flows'[f] = [project |-> p, position |-> 0]
      /\ \A g \in DOMAIN flows : flows'[g] = flows[g]
  BY <1>2, <1>4 DEF WithFlow
<1>6. SheetsOf(p)' = {f} /\ \A q : q # p => SheetsOf(q)' = SheetsOf(q)
  BY <1>3, <1>5 DEF SheetsOf
<1>7. IsStrip(<<f>>, SheetsOf(p)', flows')
  <2>1. Cardinality({f}) = 1 /\ <<f>> \in [1..1 -> {f}] /\ <<f>>[1] = f
    BY FS_Singleton
  <2>2. \A i \in 1..1 : flows'[<<f>>[i]].position = i - 1
    BY <1>5, <2>1
  <2> QED
    BY <1>6, <2>1, <2>2 DEF IsStrip
<1>8. Strip(p)' = <<f>>
  BY <1>2, <1>7, NewStrip
<1>9. \A q \in projects : Strip(q)' = Strip(q)
  BY <1>2, <1>5, <1>6, SameStrip DEF SheetsOf
<1>10. Strips' = [q \in DOMAIN Strips \cup {p} |-> IF q = p THEN <<f>> ELSE Strips[q]]
  BY <1>2, <1>8, <1>9 DEF Strips
<1>11. p \notin DOMAIN Strips /\ p \in DOMAIN Strips' /\ f \notin Abstract!Used
  BY <1>2, <1>10, TabsAreSheets
<1> QED
  BY <1>2, <1>10, <1>11 DEF Abstract!NewProject

LEMMA DeleteProjectImplements ==
  ASSUME StripsOK, StripsOK', NEW c \in Clients, NEW p \in projects, DeleteProject(c, p)
  PROVE  Abstract!DropProject(p)
<1>1. PICK q : q = Min(projects \ {p})
  OBVIOUS
<1>2. q \in projects \ {p}
  <2>1. projects \ {p} # {} /\ projects \ {p} \in SUBSET projects
    BY DEF DeleteProject
  <2> QED
    BY <1>1, <2>1, FirstTabExists
<1>3. landing' = <<q, Leftmost(SheetsOf(q))>>
  BY <1>1, HoldingProjects DEF DeleteProject
<1>4. landing' = <<q, Strips[q][1]>>
  BY <1>2, <1>3, LeftmostIsFirst, TabsAreSheets
<1>5. /\ projects' = projects \ {p} /\ DOMAIN flows' = DOMAIN flows \ SheetsOf(p)
      /\ \A f \in DOMAIN flows' : flows'[f] = flows[f]
  BY DEF DeleteProject
<1>6. \A r \in projects' : SheetsOf(r)' = SheetsOf(r)
  BY <1>5 DEF SheetsOf
<1>7. ASSUME NEW r \in projects' PROVE Strip(r)' = Strip(r)
  <2>1. \A f \in SheetsOf(r) : flows'[f].position = flows[f].position
    BY <1>5, <1>6 DEF SheetsOf
  <2> QED
    BY <1>5, <1>6, <2>1, SameStrip
<1>8. Strips' = [r \in DOMAIN Strips \ {p} |-> Strips[r]]
  BY <1>5, <1>7 DEF Strips
<1> QED
  BY <1>2, <1>4, <1>8, TabsAreSheets DEF Abstract!DropProject

\* The tab a deletion lands on is the left neighbour, or the second of the strip.
LEMMA LandingIsNeighbour ==
  ASSUME StripsOK, NEW p \in projects, NEW f \in SheetsOf(p), SheetsOf(p) # {f},
         NEW here, here = flows[f].position, NEW n, n = Cardinality(SheetsOf(p))
  PROVE  /\ n \in Nat /\ n > 1 /\ here \in 0..(n - 1)
         /\ Landing(p, f) = Strip(p)[IF here = 0 THEN 2 ELSE here]
<1> DEFINE S == SheetsOf(p)
           s == Strip(p)
           left == {g \in S : LeftOf(g, f)}
<1>1. /\ TablesOK /\ n \in Nat /\ IsFiniteSet(S) /\ s \in [1..n -> S]
      /\ \A i \in 1..n : flows[s[i]].position = i - 1
      /\ S \in SUBSET DOMAIN flows
  BY TabsAreSheets DEF StripsOK, StripOf, IsStrip, SheetsOf
<1>2. Apart(S, flows)
  BY TabsAreSheets DEF StripOf
<1>3. n > 1
  <2>1. IsFiniteSet(S \ {f}) /\ Cardinality(S \ {f}) = n - 1
    BY <1>1, FS_RemoveElement
  <2>2. n - 1 # 0
    BY <2>1, FS_EmptySet
  <2>3. n - 1 \in Nat
    BY <2>1, FS_CardinalityType
  <2> QED
    BY <1>1, <2>2, <2>3
<1>4. \A g \in S : flows[g].position \in 0..(n - 1) /\ flows[g].position \in Nat
  BY DEF StripsOK, Dense
<1>5. here \in 0..(n - 1)
  BY <1>4
<1>6. \A g \in S : g \in left <=> flows[g].position < here
  <2> TAKE g \in S
  <2>1. CASE flows[g].position = here
    <3>1. g = f /\ f \in Nat
      BY <1>1, <1>2, <2>1, Bounds DEF Apart, TablesOK
    <3> QED
      BY <1>4, <2>1, <3>1 DEF LeftOf
  <2>2. CASE flows[g].position # here
    BY <1>4, <2>2 DEF LeftOf
  <2> QED
    BY <2>1, <2>2
<1>7. CASE here = 0
  <2> DEFINE rest == S \ {f}
  <2>1. left = {}
    BY <1>4, <1>6, <1>7
  <2>2. 2 \in 1..n /\ s[2] \in S /\ flows[s[2]].position = 1
    BY <1>1, <1>3
  <2>3. s[2] \in rest /\ rest \in SUBSET DOMAIN flows
    <3>1. s[2] # f
      <4>1. flows[f].position = 0 /\ flows[s[2]].position = 1
        BY <1>7, <2>2
      <4>2. flows[f].position # flows[s[2]].position
        BY <4>1
      <4> HIDE DEF s
      <4> QED
        BY <4>2
    <3> QED
      BY <1>1, <2>2, <3>1
  <2>4. PICK l : l = Leftmost(rest)
    OBVIOUS
  <2>5. l \in rest /\ \A g \in rest \ {l} : LeftOf(l, g)
    <3> HIDE DEF rest
    <3> QED
      BY <1>1, <2>3, <2>4, LeftmostIsOne
  <2>6. flows[l].position \in Nat /\ flows[l].position # 0
    BY <1>2, <1>4, <1>7, <2>5 DEF Apart
  <2>7. ASSUME l # s[2] PROVE FALSE
    <3>1. LeftOf(l, s[2])
      BY <2>3, <2>5, <2>7
    <3>2. flows[l].position = 1
      BY <2>2, <2>6, <3>1 DEF LeftOf
    <3> QED
      BY <1>2, <2>2, <2>5, <2>7, <3>2 DEF Apart
  <2>8. l = s[2]
    BY <2>7
  <2> QED
    BY <1>1, <1>3, <1>5, <1>7, <2>1, <2>4, <2>8 DEF Landing
<1>8. CASE here # 0
  <2>1. here \in 1..n /\ s[here] \in S /\ flows[s[here]].position = here - 1
    BY <1>1, <1>5, <1>8
  <2>2. s[here] \in left /\ left \in SUBSET DOMAIN flows
    BY <1>1, <1>6, <2>1
  <2>3. \A g \in left : flows[g].position <= n
    BY <1>1, <1>4
  <2>4. PICK r : r = Rightmost(left)
    OBVIOUS
  <2>5. r \in left /\ \A g \in left \ {r} : LeftOf(g, r)
    BY <1>1, <2>2, <2>3, <2>4, RightmostIsOne
  <2>6. r \in S /\ flows[r].position \in Nat /\ flows[r].position < here
    BY <1>4, <1>6, <2>5
  <2>7. ASSUME r # s[here] PROVE FALSE
    <3>1. LeftOf(s[here], r)
      BY <2>2, <2>5, <2>7
    <3>2. flows[r].position = here - 1
      BY <2>1, <2>6, <3>1 DEF LeftOf
    <3> QED
      BY <1>2, <2>1, <2>6, <2>7, <3>2 DEF Apart
  <2>8. r = s[here]
    BY <2>7
  <2> QED
    BY <1>1, <1>3, <1>5, <1>8, <2>2, <2>4, <2>8 DEF Landing
<1> QED
  BY <1>7, <1>8

LEMMA DeleteFlowImplements ==
  ASSUME StripsOK, StripsOK', NEW c \in Clients, NEW f \in DOMAIN flows, DeleteFlow(c, f)
  PROVE  \E p \in projects : \E i \in DOMAIN Strips[p] : Abstract!DropSheet(p, i)
<1>1. PICK p, here, n : /\ p = flows[f].project /\ here = flows[f].position
                        /\ n = Cardinality(SheetsOf(p))
  OBVIOUS
<1> DEFINE S == SheetsOf(p)
           s == Strip(p)
           shorter == RemoveAt(s, here + 1)
<1>2. /\ p \in projects /\ here \in Nat /\ projects' = projects /\ SheetsOf(p) # {f}
      /\ RemainingRows(p, here, f) /\ f \in S
  BY <1>1, DeletionRows DEF StripsOK, SheetsOf
<1>3. /\ n \in Nat /\ IsFiniteSet(S) /\ s \in [1..n -> S]
      /\ \A i \in 1..n : flows[s[i]].position = i - 1
      /\ DOMAIN Strips[p] = 1..n /\ Strips[p] = s /\ Len(s) = n
  BY <1>1, <1>2, TabsAreSheets DEF StripOf, IsStrip
<1>4. n > 1 /\ here \in 0..(n - 1) /\ Landing(p, f) = s[IF here = 0 THEN 2 ELSE here]
  BY <1>1, <1>2, LandingIsNeighbour
<1>5. Cardinality(SheetsOf(p)') = n - 1 /\ SheetsOf(p)' = S \ {f}
  <2>1. SheetsOf(p)' = S \ {f}
    BY <1>2 DEF RemainingRows
  <2>2. Cardinality(S \ {f}) = n - 1
    BY <1>1, <1>2, <1>3, FS_RemoveElement
  <2> QED
    BY <2>1, <2>2
<1>6. \A i \in 1..n : i # here + 1 =>
         /\ s[i] \in S \ {f}
         /\ flows'[s[i]].position = IF i - 1 > here THEN i - 2 ELSE i - 1
  <2> TAKE i \in 1..n
  <2> HAVE i # here + 1
  <2>1. s[i] \in S /\ flows[s[i]].position = i - 1 /\ i - 1 # here
    BY <1>3, <1>4
  <2>2. s[i] # f
    BY <1>1, <2>1
  <2>3. s[i] \in DOMAIN flows \ {f} /\ flows[s[i]].project = p
    BY <2>1, <2>2 DEF SheetsOf
  <2>4. CASE i - 1 > here
    BY <1>2, <2>1, <2>2, <2>3, <2>4 DEF RemainingRows
  <2>5. CASE ~(i - 1 > here)
    BY <1>2, <2>1, <2>2, <2>3, <2>5 DEF RemainingRows
  <2> QED
    BY <2>4, <2>5
<1> HIDE DEF s, S
<1>7. PICK k \in 1..n : k = here + 1
  BY <1>3, <1>4
<1>8. Without(RemoveAt(s, k), s, n, k, S)
  BY <1>3, Removed
<1>9. Without(shorter, s, n, here + 1, S)
  BY <1>7, <1>8
<1> HIDE DEF shorter
<1>10. \A i \in 1..(n - 1) : shorter[i] \in S \ {f} /\ flows'[shorter[i]].position = i - 1
  <2> TAKE i \in 1..(n - 1)
  <2>1. CASE i < here + 1
    <3>1. i \in 1..n /\ i # here + 1 /\ ~(i - 1 > here)
      BY <1>3, <1>4, <2>1
    <3> QED
      BY <1>6, <1>9, <2>1, <3>1 DEF Without
  <2>2. CASE ~(i < here + 1)
    <3>1. i + 1 \in 1..n /\ i + 1 # here + 1 /\ i + 1 - 1 > here /\ i + 1 - 2 = i - 1
      BY <1>3, <1>4, <2>2
    <3>2. shorter[i] = s[i + 1]
      BY <1>9, <2>2 DEF Without
    <3> QED
      BY <1>6, <3>1, <3>2
  <2> QED
    BY <2>1, <2>2
<1>11. IsStrip(shorter, SheetsOf(p)', flows')
  <2>1. shorter = [i \in 1..(n - 1) |-> shorter[i]]
    BY <1>9 DEF Without
  <2>2. shorter \in [1..(n - 1) -> S \ {f}]
    BY <1>10, <2>1
  <2> QED
    BY <1>5, <1>10, <2>2 DEF IsStrip
<1>12. \A q \in projects \ {p} : /\ SheetsOf(q)' = SheetsOf(q)
                                 /\ \A g \in SheetsOf(q) : flows'[g].position = flows[g].position
  <2>1. \A g \in DOMAIN flows \ {f} : flows[g].project # p => flows'[g] = flows[g]
    BY <1>2 DEF RemainingRows
  <2>2. \A q \in projects \ {p} : SheetsOf(q)' = SheetsOf(q)
    BY <1>2 DEF RemainingRows
  <2> QED
    BY <1>1, <2>1, <2>2 DEF SheetsOf
<1>13. Strips' = [Strips EXCEPT ![p] = shorter]
  BY <1>2, <1>11, <1>12, OneStripChanges
<1>14. landing' = <<p, Strips[p][IF here + 1 = 1 THEN 2 ELSE (here + 1) - 1]>>
  <2>1. landing' = <<p, Landing(p, f)>>
    BY <1>1 DEF DeleteFlow
  <2>2. (here + 1 = 1) = (here = 0) /\ (here + 1) - 1 = here
    BY <1>2
  <2> QED
    BY <1>3, <1>4, <2>1, <2>2
<1>15. here + 1 \in DOMAIN Strips[p]
  BY <1>3, <1>7
<1>16. shorter = Abstract!RemoveAt(Strips[p], here + 1)
  BY <1>3, SameOperators DEF shorter
<1>17. Abstract!DropSheet(p, here + 1)
  BY <1>3, <1>4, <1>13, <1>14, <1>16 DEF Abstract!DropSheet
<1> QED
  BY <1>2, <1>15, <1>17

LEMMA LookupsImplement ==
  ASSUME StripsOK, StripsOK', NEW c \in Clients, FindCurrent(c) \/ FindProject(c) \/ ShowTab(c)
  PROVE  UNCHANGED Abstract!vars
<1>1. UNCHANGED <<projects, flows, landing>>
  BY DEF FindCurrent, FindProject, ShowTab
<1> QED
  BY <1>1, UnchangedStrips DEF Abstract!vars

LEMMA StepImplements ==
  ASSUME WorkspaceInv, WorkspaceInv', [Next]_vars
  PROVE  [Abstract!Next]_(Abstract!vars)
<1>0. StripsOK /\ StripsOK' /\ DOMAIN Strips = projects
  BY TabsAreSheets DEF WorkspaceInv
<1>1. ASSUME NEW c \in Clients, CreateProject(c)
      PROVE  Abstract!Next
  BY <1>0, <1>1, CreateProjectImplements DEF Abstract!Next
<1>2. ASSUME NEW c \in Clients, NEW p \in projects, DeleteProject(c, p)
      PROVE  Abstract!Next
  BY <1>0, <1>2, DeleteProjectImplements DEF Abstract!Next
<1>3. ASSUME NEW c \in Clients, NEW p \in projects, CreateFlow(c, p)
      PROVE  Abstract!Next
  BY <1>0, <1>3, CreateFlowImplements DEF Abstract!Next
<1>4. ASSUME NEW c \in Clients, NEW p \in projects, NEW order \in Orders(p),
             ReorderFlows(c, p, order)
      PROVE  Abstract!Next
  BY <1>0, <1>4, ReorderImplements DEF Abstract!Next
<1>5. ASSUME NEW c \in Clients, NEW f \in DOMAIN flows, DuplicateFlow(c, f)
      PROVE  Abstract!Next
  BY <1>0, <1>5, DuplicateImplements DEF Abstract!Next
<1>6. ASSUME NEW c \in Clients, NEW f \in DOMAIN flows, DeleteFlow(c, f)
      PROVE  Abstract!Next
  BY <1>0, <1>6, DeleteFlowImplements DEF Abstract!Next
<1>7. ASSUME NEW c \in Clients,
             \/ \E p \in projects : RenameProject(c, p)
             \/ \E f \in DOMAIN flows : RenameFlow(c, f)
      PROVE  Abstract!Next
  BY <1>0, <1>7, VisitImplements DEF Abstract!Next
<1>8. ASSUME NEW c \in Clients, FindCurrent(c) \/ FindProject(c) \/ ShowTab(c)
      PROVE  UNCHANGED Abstract!vars
  BY <1>0, <1>8, LookupsImplement
<1>9. CASE UNCHANGED vars
  BY <1>0, <1>9, UnchangedStrips DEF vars, Abstract!vars
<1> QED
  BY <1>1, <1>2, <1>3, <1>4, <1>5, <1>6, <1>7, <1>8, <1>9 DEF Next, Request

LEMMA InitImplements == Init => Abstract!Init
<1> SUFFICES ASSUME Init PROVE Abstract!Init
  OBVIOUS
<1>1. /\ projects = {1} /\ DOMAIN flows = {1} /\ flows[1] = [project |-> 1, position |-> 0]
      /\ landing = <<1, 1>> /\ 1 \in 1..MaxProjectId /\ 1 \in 1..MaxFlowId
  BY WorkspaceBounds DEF Init
<1>2. StripOf(1) /\ SheetsOf(1) = {1} /\ Cardinality({1}) = 1
  <2>1. StripsOK /\ 1 \in projects
    BY <1>1, InitHolds DEF WorkspaceInv
  <2>2. SheetsOf(1) = {1}
    BY <1>1 DEF SheetsOf
  <2>3. Cardinality({1}) = 1
    BY FS_Singleton
  <2> QED
    BY <2>1, <2>2, <2>3, TabsAreSheets
<1>3. Strip(1) = <<1>>
  <2>1. Strip(1) \in [1..1 -> {1}]
    BY <1>2 DEF StripOf, IsStrip
  <2> QED
    BY <2>1
<1>4. Strips = [q \in {1} |-> <<1>>]
  BY <1>1, <1>3 DEF Strips
<1> QED
  BY <1>1, <1>4 DEF Abstract!Init

\* Ids, positions and the order a page reads them in do to the strips what their users
\* asked for: a copy lands right of its source, a deletion keeps the order of the rest and
\* opens a neighbour, and no operation reaches another project's strip.
THEOREM TabStripsAreImplemented == Spec => ImplementsTabStrips
<1>1. WorkspaceInv /\ WorkspaceInv' /\ [Next]_vars => [Abstract!Next]_(Abstract!vars)
  BY StepImplements
<1> QED
  BY <1>1, InitImplements, StripsAndAnswers, PTL DEF Spec, ImplementsTabStrips, Abstract!Spec
=============================================================================
