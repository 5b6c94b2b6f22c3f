-------------------------- MODULE SignalWidthsProofs --------------------------
(***************************************************************************)
(* Lemmas about SignalWidths for any graph: the loop that follows the      *)
(* wires ends in widths another sweep does not change, and a graph resolves *)
(* whatever its blocks are called and whatever unwired blocks lie beside   *)
(* it.  Inductions over the sweeps are by least counterexample.            *)
(***************************************************************************)
EXTENDS SignalWidths, Integers, FiniteSetTheorems, TLAPS

Below == {p \in Nat \X Nat : p[1] < p[2]}

LEMMA LeastExists ==
  ASSUME NEW S \in SUBSET Nat, S # {}
  PROVE  \E x \in S : \A y \in S : x <= y
<1>0. IsWellFoundedOn(Below, Nat)
  BY NatLessThanWellFounded DEF OpToRel, Below
<1>1. PICK x \in S : \A y \in S : ~ (<<y, x>> \in Below)
  BY WFMin, <1>0, Zenon
<1>2. ASSUME NEW y \in S PROVE x <= y
  <2>1. <<y, x>> \notin Below
    BY <1>1, Zenon
  <2>2. x \in Nat /\ y \in Nat
    OBVIOUS
  <2> QED
    BY <2>1, <2>2 DEF Below
<1> QED
  BY <1>2

\* A set of numbers that has 0 and with each number below n the next has all up to n.
LEMMA UpTo ==
  ASSUME NEW n \in Nat, NEW Good, 0 \in Good,
         \A k \in 0..n : k < n /\ k \in Good => k + 1 \in Good
  PROVE  \A k \in 0..n : k \in Good
<1> DEFINE Bad == {k \in 0..n : k \notin Good}
<1> SUFFICES ASSUME Bad # {} PROVE FALSE
  OBVIOUS
<1>1. PICK k \in Bad : \A j \in Bad : k <= j
  <2>1. Bad \in SUBSET Nat
    OBVIOUS
  <2> HIDE DEF Bad
  <2> QED
    BY <2>1, LeastExists
<1>2. k # 0 /\ k - 1 \in 0..n /\ k - 1 < n
  OBVIOUS
<1>3. k - 1 \in Good
  BY <1>1, <1>2
<1> QED
  BY <1>2, <1>3

\* The widths after each of the first n sweeps.
SweptWidths(graph, wires, n, after) ==
    after = [k \in 0..n |->
               IF k = 0 THEN SeedWidths(graph) ELSE Sweep(graph, wires, after[k - 1])]

LEMMA SweepsExist ==
  ASSUME NEW graph, NEW wires, NEW n \in Nat
  PROVE  \E after : SweptWidths(graph, wires, n, after)
<1> DEFINE Good == {k \in 0..n : \E after : SweptWidths(graph, wires, k, after)}
<1>1. 0 \in Good
  <2>1. SweptWidths(graph, wires, 0, [k \in 0..0 |-> SeedWidths(graph)])
    BY DEF SweptWidths
  <2> QED
    BY <2>1
<1>2. ASSUME NEW k \in 0..n, k < n, k \in Good PROVE k + 1 \in Good
  <2>1. PICK f : SweptWidths(graph, wires, k, f)
    BY <1>2
  <2> DEFINE g == [j \in 0..(k + 1) |-> IF j = k + 1 THEN Sweep(graph, wires, f[k]) ELSE f[j]]
  <2>2. \A j \in 0..k : f[j] = IF j = 0 THEN SeedWidths(graph) ELSE Sweep(graph, wires, f[j - 1])
    BY <2>1 DEF SweptWidths
  <2>3. \A j \in 0..(k + 1) :
          g[j] = IF j = 0 THEN SeedWidths(graph) ELSE Sweep(graph, wires, g[j - 1])
    BY <2>2
  <2>4. SweptWidths(graph, wires, k + 1, g)
    BY <2>3 DEF SweptWidths
  <2> QED
    BY <2>4, <1>2
<1> HIDE DEF Good
<1>3. n \in Good
  BY <1>1, <1>2, UpTo
<1> QED
  BY <1>3 DEF Good

LEMMA KnownWidthsAreSwept ==
  ASSUME NEW graph, NEW wires, IsFiniteSet(DOMAIN graph)
  PROVE  \E after : /\ SweptWidths(graph, wires, Cardinality(DOMAIN graph), after)
                    /\ KnownWidths(graph, wires) = after[Cardinality(DOMAIN graph)]
<1> DEFINE size == Cardinality(DOMAIN graph)
<1>1. size \in Nat
  BY FS_CardinalityType
<1>2. \E after : SweptWidths(graph, wires, size, after)
  BY <1>1, SweepsExist
<1> QED
  BY <1>2 DEF KnownWidths, SweptWidths

IsWidths(graph, known) ==
    DOMAIN known = DOMAIN graph /\ known = [b \in DOMAIN graph |-> known[b]]

KnownBlocks(graph, known) == {b \in DOMAIN graph : known[b] # Unknown}

\* A sweep only tells blocks that knew nothing, so when it tells none it
\* changes nothing.
LEMMA SweepsOnlyAdd ==
  ASSUME NEW graph, NEW wires, NEW known, IsWidths(graph, known),
         NEW next, next = Sweep(graph, wires, known)
  PROVE  /\ IsWidths(graph, next)
         /\ KnownBlocks(graph, known) \subseteq KnownBlocks(graph, next)
         /\ KnownBlocks(graph, known) = KnownBlocks(graph, next) => next = known
<1> DEFINE Offers(b) == {known[w.source] : w \in {x \in Informing(graph, wires) :
                                                     x.target = b}} \ {Unknown}
<1>1. next = [b \in DOMAIN graph |->
                IF known[b] = Unknown /\ Offers(b) # {}
                THEN CHOOSE width \in Offers(b) : TRUE ELSE known[b]]
  BY DEF Sweep
<1>2. \A b \in DOMAIN graph : Offers(b) # {} => (CHOOSE width \in Offers(b) : TRUE) # Unknown
  OBVIOUS
<1> HIDE DEF Offers
<1>3. IsWidths(graph, next)
  BY <1>1 DEF IsWidths
<1>4. \A b \in DOMAIN graph : known[b] # Unknown => next[b] = known[b]
  BY <1>1
<1>5. KnownBlocks(graph, known) \subseteq KnownBlocks(graph, next)
  BY <1>4 DEF KnownBlocks
<1>6. ASSUME KnownBlocks(graph, known) = KnownBlocks(graph, next) PROVE next = known
  <2>1. \A b \in DOMAIN graph : known[b] = Unknown => next[b] = Unknown
    BY <1>6 DEF KnownBlocks
  <2>2. \A b \in DOMAIN graph : next[b] = known[b]
    BY <1>4, <2>1
  <2> QED
    BY <2>2, <1>3 DEF IsWidths
<1> QED
  BY <1>3, <1>5, <1>6

LEMMA SweepsType ==
  ASSUME NEW graph, NEW wires, NEW n \in Nat, NEW after, SweptWidths(graph, wires, n, after)
  PROVE  /\ after[0] = SeedWidths(graph)
         /\ \A k \in 0..n : k < n => after[k + 1] = Sweep(graph, wires, after[k])
         /\ \A k \in 0..n : IsWidths(graph, after[k])
<1>1. \A k \in 0..n : after[k] = IF k = 0 THEN SeedWidths(graph)
                                          ELSE Sweep(graph, wires, after[k - 1])
  BY DEF SweptWidths
<1>2. after[0] = SeedWidths(graph)
  BY <1>1
<1>3. ASSUME NEW k \in 0..n, k < n PROVE after[k + 1] = Sweep(graph, wires, after[k])
  <2>1. k + 1 \in 0..n /\ k + 1 # 0 /\ (k + 1) - 1 = k
    BY <1>3
  <2> QED
    BY <2>1, <1>1
<1>4. ASSUME NEW k \in 0..n
      PROVE  IsWidths(graph, after[k])
  <2>1. CASE k = 0
    BY <2>1, <1>2 DEF SeedWidths, IsWidths
  <2>2. CASE k # 0
    BY <2>2, <1>1 DEF Sweep, IsWidths
  <2> QED
    BY <2>1, <2>2
<1> QED
  BY <1>2, <1>3, <1>4

\* After as many sweeps as there are blocks another sweep changes nothing.
LEMMA SweepsSettle ==
  ASSUME NEW graph, NEW wires, IsFiniteSet(DOMAIN graph), NEW after,
         SweptWidths(graph, wires, Cardinality(DOMAIN graph), after)
  PROVE  LET last == after[Cardinality(DOMAIN graph)]
         IN  Sweep(graph, wires, last) = last
<1> DEFINE size == Cardinality(DOMAIN graph)
           Known(k) == KnownBlocks(graph, after[k])
           Good == {k \in 0..size : \/ Cardinality(Known(k)) >= k
                                    \/ Sweep(graph, wires, after[k]) = after[k]}
<1>1. size \in Nat
  BY FS_CardinalityType
<1>2. \A k \in 0..size : Known(k) \in SUBSET DOMAIN graph
  BY DEF KnownBlocks
<1>3. \A k \in 0..size : IsFiniteSet(Known(k)) /\ Cardinality(Known(k)) \in Nat
  <2> HIDE DEF Known
  <2> QED
    BY <1>2, FS_Subset, FS_CardinalityType
<1>4. /\ \A k \in 0..size : k < size => after[k + 1] = Sweep(graph, wires, after[k])
      /\ \A k \in 0..size : IsWidths(graph, after[k])
  <2>1. SweptWidths(graph, wires, size, after)
    OBVIOUS
  <2> HIDE DEF size
  <2> QED
    BY <1>1, <2>1, SweepsType
<1>5. \A k \in 0..size : k < size =>
         /\ Known(k) \subseteq Known(k + 1)
         /\ Known(k) = Known(k + 1) => after[k + 1] = after[k]
  <2> HIDE DEF size
  <2> QED
    BY <1>4, SweepsOnlyAdd
<1> HIDE DEF Known, size
<1>6. 0 \in Good
  BY <1>1, <1>3
<1>7. ASSUME NEW k \in 0..size, k < size, k \in Good PROVE k + 1 \in Good
  <2>1. k + 1 \in 0..size
    BY <1>1, <1>7
  <2>2. CASE Sweep(graph, wires, after[k]) = after[k]
    <3>1. after[k + 1] = after[k]
      BY <1>4, <1>7, <2>2
    <3> QED
      BY <3>1, <2>1, <2>2
  <2>3. CASE Cardinality(Known(k)) >= k /\ Sweep(graph, wires, after[k]) # after[k]
    <3>1. Known(k) # Known(k + 1) /\ Known(k) \in SUBSET Known(k + 1)
      BY <1>4, <1>5, <1>7, <2>3
    <3>2. IsFiniteSet(Known(k + 1)) /\ Cardinality(Known(k + 1)) \in Nat /\ Cardinality(Known(k)) \in Nat
      BY <1>3, <2>1
    <3>3. /\ Cardinality(Known(k)) <= Cardinality(Known(k + 1))
          /\ Cardinality(Known(k + 1)) # Cardinality(Known(k))
      BY <3>1, <3>2, FS_Subset
    <3>4. Cardinality(Known(k + 1)) >= k + 1
      BY <2>3, <3>2, <3>3, <1>1
    <3> QED
      BY <3>4, <2>1
  <2> QED
    BY <1>7, <2>2, <2>3
<1> HIDE DEF Good
<1>8. size \in Good
  <2>1. size \in 0..size
    BY <1>1
  <2> QED
    BY <1>1, <1>6, <1>7, <2>1, UpTo
<1>9. CASE Cardinality(Known(size)) >= size
  <2>1. size \in 0..size
    BY <1>1
  <2>2. Known(size) = DOMAIN graph
    <3>1. Known(size) \in SUBSET DOMAIN graph
      BY <1>2, <2>1
    <3>2. Cardinality(Known(size)) <= size /\ (size = Cardinality(Known(size)) => DOMAIN graph = Known(size))
      BY <3>1, FS_Subset DEF size
    <3> QED
      BY <3>2, <1>9, <1>1, <1>3, <2>1
  <2> DEFINE next == Sweep(graph, wires, after[size])
  <2> HIDE DEF next
  <2>3. /\ KnownBlocks(graph, after[size]) \subseteq KnownBlocks(graph, next)
        /\ KnownBlocks(graph, after[size]) = KnownBlocks(graph, next) => next = after[size]
    BY <1>4, <2>1, SweepsOnlyAdd DEF next
  <2>4. KnownBlocks(graph, next) \subseteq DOMAIN graph
    BY DEF KnownBlocks
  <2> QED
    BY <2>2, <2>3, <2>4 DEF Known, size, next
<1> QED
  BY <1>8, <1>9 DEF Good, size

(***************************************************************************)
(* Widths depend on how the blocks are wired, not on what they are called  *)
(***************************************************************************)
\* The wires between the blocks of a graph.
WiresOver(graph, flows, outs, ins) ==
    [flow: flows, source: DOMAIN graph, sourcePort: outs, target: DOMAIN graph, targetPort: ins]

Moved(m, w) == [w EXCEPT !.source = m[@], !.target = m[@]]

\* `m` finds the blocks of a graph again among the blocks of another.
IsEmbedding(m, graph, more) ==
    /\ m \in [DOMAIN graph -> DOMAIN more]
    /\ \A b, c \in DOMAIN graph : m[b] = m[c] => b = c
    /\ \A b \in DOMAIN graph : more[m[b]] = graph[b]

Agree(m, graph, known, other) == \A b \in DOMAIN graph : other[m[b]] = known[b]

LEMMA MovedWires ==
  ASSUME NEW graph, NEW more, NEW m, IsEmbedding(m, graph, more),
         NEW flows, NEW outs, NEW ins, NEW w \in WiresOver(graph, flows, outs, ins)
  PROVE  /\ Moved(m, w).source = m[w.source] /\ Moved(m, w).target = m[w.target]
         /\ Moved(m, w).sourcePort = w.sourcePort /\ Moved(m, w).targetPort = w.targetPort
         /\ Moved(m, w).flow = w.flow
         /\ w.source \in DOMAIN graph /\ w.target \in DOMAIN graph
         /\ m[w.source] \in DOMAIN more /\ m[w.target] \in DOMAIN more
         /\ more[m[w.source]] = graph[w.source] /\ more[m[w.target]] = graph[w.target]
  BY DEF Moved, WiresOver, IsEmbedding

LEMMA MovedInforming ==
  ASSUME NEW graph, NEW more, NEW m, IsEmbedding(m, graph, more),
         NEW flows, NEW outs, NEW ins, NEW wires \in SUBSET WiresOver(graph, flows, outs, ins)
  PROVE  Informing(more, {Moved(m, w) : w \in wires})
            = {Moved(m, w) : w \in Informing(graph, wires)}
<1>1. ASSUME NEW w \in wires
      PROVE  Moved(m, w) \in Informing(more, {Moved(m, v) : v \in wires})
                <=> w \in Informing(graph, wires)
  BY MovedWires DEF Informing, HasOutputPort
<1>2. Informing(more, {Moved(m, w) : w \in wires}) \subseteq {Moved(m, w) : w \in wires}
  BY DEF Informing
<1>3. Informing(graph, wires) \subseteq wires
  BY DEF Informing
<1> QED
  BY <1>1, <1>2, <1>3

LEMMA SweepsAgree ==
  ASSUME NEW graph, NEW more, NEW m, IsEmbedding(m, graph, more),
         NEW flows, NEW outs, NEW ins, NEW wires \in SUBSET WiresOver(graph, flows, outs, ins),
         NEW known, NEW other, Agree(m, graph, known, other)
  PROVE  Agree(m, graph, Sweep(graph, wires, known),
                         Sweep(more, {Moved(m, w) : w \in wires}, other))
<1> DEFINE moved == {Moved(m, w) : w \in wires}
           Offers(b) == {known[w.source] : w \in {x \in Informing(graph, wires) :
                                                     x.target = b}} \ {Unknown}
           MoreOffers(c) == {other[w.source] : w \in {x \in Informing(more, moved) :
                                                         x.target = c}} \ {Unknown}
<1>1. ASSUME NEW b \in DOMAIN graph PROVE MoreOffers(m[b]) = Offers(b)
  <2>1. Informing(more, moved) = {Moved(m, w) : w \in Informing(graph, wires)}
    BY MovedInforming
  <2>2. \A w \in Informing(graph, wires) :
           /\ Moved(m, w).source = m[w.source] /\ Moved(m, w).target = m[w.target]
           /\ w.source \in DOMAIN graph /\ w.target \in DOMAIN graph
    BY MovedWires DEF Informing
  <2>3. \A w \in Informing(graph, wires) : m[w.target] = m[b] <=> w.target = b
    BY <2>2 DEF IsEmbedding
  <2>4. \A w \in Informing(graph, wires) : other[Moved(m, w).source] = known[w.source]
    BY <2>2 DEF Agree
  <2>5. \A x : x \in MoreOffers(m[b]) <=>
           x # Unknown /\ \E w \in Informing(graph, wires) :
                             Moved(m, w).target = m[b] /\ x = other[Moved(m, w).source]
    BY <2>1
  <2>6. \A x : x \in Offers(b) <=>
           x # Unknown /\ \E w \in Informing(graph, wires) : w.target = b /\ x = known[w.source]
    OBVIOUS
  <2> HIDE DEF Offers, MoreOffers, moved
  <2>7. \A x : x \in MoreOffers(m[b]) <=> x \in Offers(b)
    BY <2>2, <2>3, <2>4, <2>5, <2>6
  <2> QED
    BY <2>7
<1>2. ASSUME NEW b \in DOMAIN graph
      PROVE  Sweep(more, moved, other)[m[b]] = Sweep(graph, wires, known)[b]
  <2>1. m[b] \in DOMAIN more /\ other[m[b]] = known[b]
    BY DEF IsEmbedding, Agree
  <2>2. Sweep(more, moved, other)[m[b]] =
          IF other[m[b]] = Unknown /\ MoreOffers(m[b]) # {}
          THEN CHOOSE width \in MoreOffers(m[b]) : TRUE ELSE other[m[b]]
    BY <2>1 DEF Sweep
  <2>3. Sweep(graph, wires, known)[b] =
          IF known[b] = Unknown /\ Offers(b) # {}
          THEN CHOOSE width \in Offers(b) : TRUE ELSE known[b]
    BY DEF Sweep
  <2> HIDE DEF Offers, MoreOffers, moved
  <2> QED
    BY <1>1, <2>1, <2>2, <2>3
<1> QED
  BY <1>2 DEF Agree

LEMMA SeedsAgree ==
  ASSUME NEW graph, NEW more, NEW m, IsEmbedding(m, graph, more)
  PROVE  Agree(m, graph, SeedWidths(graph), SeedWidths(more))
  BY DEF Agree, SeedWidths, IsEmbedding

\* The larger graph may be swept more often: the sweeps beyond those the smaller
\* one needs tell its blocks nothing new.
LEMMA KnownWidthsAgree ==
  ASSUME NEW graph, NEW more, IsFiniteSet(DOMAIN more), NEW m, IsEmbedding(m, graph, more),
         NEW flows, NEW outs, NEW ins, NEW wires \in SUBSET WiresOver(graph, flows, outs, ins)
  PROVE  Agree(m, graph, KnownWidths(graph, wires),
                         KnownWidths(more, {Moved(m, w) : w \in wires}))
<1> DEFINE moved == {Moved(m, w) : w \in wires}
           few   == Cardinality(DOMAIN graph)
           many  == Cardinality(DOMAIN more)
<1>1. m \in Injection(DOMAIN graph, DOMAIN more)
  BY DEF IsEmbedding, Injection, IsInjective
<1>2. IsFiniteSet(DOMAIN graph) /\ few <= many
  BY <1>1, FS_Injection
<1>3. few \in Nat /\ many \in Nat
  BY <1>2, FS_CardinalityType
<1>4. PICK after : /\ SweptWidths(graph, wires, few, after)
                   /\ KnownWidths(graph, wires) = after[few]
  BY <1>2, KnownWidthsAreSwept
<1>5. PICK other : /\ SweptWidths(more, moved, many, other)
                   /\ KnownWidths(more, moved) = other[many]
  BY KnownWidthsAreSwept
<1>6. Sweep(graph, wires, after[few]) = after[few]
  BY <1>2, <1>4, SweepsSettle
<1> HIDE DEF moved, few, many
<1>7. /\ after[0] = SeedWidths(graph)
      /\ \A k \in 0..few : k < few => after[k + 1] = Sweep(graph, wires, after[k])
  <2>1. few \in Nat /\ SweptWidths(graph, wires, few, after)
    BY <1>3, <1>4
  <2> QED
    BY <2>1, SweepsType
<1>8. /\ other[0] = SeedWidths(more)
      /\ \A k \in 0..many : k < many => other[k + 1] = Sweep(more, moved, other[k])
  <2>1. many \in Nat /\ SweptWidths(more, moved, many, other)
    BY <1>3, <1>5
  <2> QED
    BY <2>1, SweepsType
<1> DEFINE Now(k) == IF k < few THEN after[k] ELSE after[few]
           Good == {k \in 0..many : Agree(m, graph, Now(k), other[k])}
<1>9. 0 \in Good
  <2>1. Now(0) = SeedWidths(graph)
    BY <1>3, <1>7
  <2> QED
    BY <1>3, <1>8, <2>1, SeedsAgree
<1>10. ASSUME NEW k \in 0..many, k < many, k \in Good PROVE k + 1 \in Good
  <2>1. Now(k + 1) = Sweep(graph, wires, Now(k))
    <3>1. CASE k < few
      <4>1. after[k + 1] = Sweep(graph, wires, after[k])
        BY <1>3, <1>7, <3>1
      <4>2. Now(k + 1) = after[k + 1]
        BY <1>3, <3>1
      <4> QED
        BY <3>1, <4>1, <4>2
    <3>2. CASE ~(k < few)
      BY <1>3, <1>6, <3>2
    <3> QED
      BY <3>1, <3>2
  <2>2. other[k + 1] = Sweep(more, moved, other[k])
    BY <1>8, <1>10
  <2>3. Agree(m, graph, Now(k), other[k])
    BY <1>10
  <2> HIDE DEF Now
  <2>4. Agree(m, graph, Sweep(graph, wires, Now(k)), Sweep(more, moved, other[k]))
    BY <2>3, SweepsAgree DEF moved
  <2>5. k + 1 \in 0..many
    BY <1>3, <1>10
  <2> QED
    BY <2>1, <2>2, <2>4, <2>5
<1>11. many \in Good
  <2>1. many \in 0..many
    BY <1>3
  <2> HIDE DEF Good
  <2> QED
    BY <1>3, <1>9, <1>10, <2>1, UpTo
<1>12. Now(many) = after[few]
  BY <1>2, <1>3 DEF few, many
<1> QED
  BY <1>4, <1>5, <1>11, <1>12 DEF moved

\* Conflict-free informing wires and fitting ports, the two parts of WidthsResolve.
SeedsFit(graph, wires, known) ==
    \A w \in Informing(graph, wires) :
        graph[w.target].initial > 1 /\ known[w.source] # Unknown
            => known[w.source] = graph[w.target].initial

PortsFit(graph, wires, known) ==
    LET widths == [b \in DOMAIN graph |-> IF known[b] = Unknown THEN 1 ELSE known[b]]
    IN  \A w \in wires :
           w.source \in DOMAIN graph /\ w.target \in DOMAIN graph
           => (/\ HasOutputPort(graph[w.source], w.sourcePort)
               /\ HasInputPort(graph[w.target], w.targetPort)
               => widths[w.source] = InWidth(graph, widths, w.target))

LEMMA ResolvingIsFitting ==
  ASSUME NEW graph, NEW wires
  PROVE  WidthsResolve(graph, wires)
            <=> /\ SeedsFit(graph, wires, KnownWidths(graph, wires))
                /\ PortsFit(graph, wires, KnownWidths(graph, wires))
  BY DEF WidthsResolve, ResolvedWidths, SeedsFit, PortsFit

LEMMA SeedsFitAlike ==
  ASSUME NEW graph, NEW more, NEW m, IsEmbedding(m, graph, more),
         NEW flows, NEW outs, NEW ins, NEW wires \in SUBSET WiresOver(graph, flows, outs, ins),
         NEW known, NEW other, Agree(m, graph, known, other)
  PROVE  SeedsFit(graph, wires, known) <=> SeedsFit(more, {Moved(m, w) : w \in wires}, other)
<1> DEFINE Fits(w) == graph[w.target].initial > 1 /\ known[w.source] # Unknown
                         => known[w.source] = graph[w.target].initial
           MoreFits(w) == more[w.target].initial > 1 /\ other[w.source] # Unknown
                             => other[w.source] = more[w.target].initial
<1>1. Informing(more, {Moved(m, w) : w \in wires}) = {Moved(m, w) : w \in Informing(graph, wires)}
  BY MovedInforming
<1>2. ASSUME NEW w \in Informing(graph, wires) PROVE MoreFits(Moved(m, w)) <=> Fits(w)
  <2>1. w \in wires
    BY DEF Informing
  <2>2. w \in WiresOver(graph, flows, outs, ins)
    BY <2>1
  <2>3. /\ Moved(m, w).source = m[w.source] /\ Moved(m, w).target = m[w.target]
        /\ w.source \in DOMAIN graph /\ more[m[w.target]] = graph[w.target]
    BY <2>2, MovedWires
  <2>4. other[m[w.source]] = known[w.source]
    BY <2>3 DEF Agree
  <2> QED
    BY <2>3, <2>4
<1>3. SeedsFit(graph, wires, known) <=> \A w \in Informing(graph, wires) : Fits(w)
  BY DEF SeedsFit
<1>4. SeedsFit(more, {Moved(m, w) : w \in wires}, other)
        <=> \A w \in Informing(graph, wires) : MoreFits(Moved(m, w))
  BY <1>1 DEF SeedsFit
<1> HIDE DEF Fits, MoreFits
<1> QED
  BY <1>2, <1>3, <1>4

LEMMA PortsFitAlike ==
  ASSUME NEW graph, NEW more, NEW m, IsEmbedding(m, graph, more),
         NEW flows, NEW outs, NEW ins, NEW wires \in SUBSET WiresOver(graph, flows, outs, ins),
         NEW known, NEW other, Agree(m, graph, known, other)
  PROVE  PortsFit(graph, wires, known) <=> PortsFit(more, {Moved(m, w) : w \in wires}, other)
<1> DEFINE Width(k, b) == IF k[b] = Unknown THEN 1 ELSE k[b]
           In(g, k, b) == IF g[b].inherits THEN Width(k, b) ELSE g[b].in
           Fits(g, k, w) ==
              w.source \in DOMAIN g /\ w.target \in DOMAIN g
              => (/\ w.sourcePort < g[w.source].outputs
                  /\ w.targetPort < g[w.target].inputs
                  => Width(k, w.source) = In(g, k, w.target))
<1>1. ASSUME NEW g, NEW drawn, NEW k
      PROVE  PortsFit(g, drawn, k) <=> \A w \in drawn : Fits(g, k, w)
  BY DEF PortsFit, InWidth, HasInputPort, HasOutputPort
<1>2. ASSUME NEW w \in wires PROVE Fits(more, other, Moved(m, w)) <=> Fits(graph, known, w)
  <2>1. /\ Moved(m, w).source = m[w.source] /\ Moved(m, w).target = m[w.target]
        /\ Moved(m, w).sourcePort = w.sourcePort /\ Moved(m, w).targetPort = w.targetPort
        /\ w.source \in DOMAIN graph /\ w.target \in DOMAIN graph
        /\ m[w.source] \in DOMAIN more /\ m[w.target] \in DOMAIN more
        /\ more[m[w.source]] = graph[w.source] /\ more[m[w.target]] = graph[w.target]
    BY MovedWires
  <2>2. other[m[w.source]] = known[w.source] /\ other[m[w.target]] = known[w.target]
    BY <2>1 DEF Agree
  <2> QED
    BY <2>1, <2>2
<1> HIDE DEF Fits
<1> QED
  BY <1>1, <1>2

\* A graph resolves as its image in another does, whatever its blocks are called
\* there and whatever other blocks lie beside it.
LEMMA ResolvesAlike ==
  ASSUME NEW graph, NEW more, IsFiniteSet(DOMAIN more), NEW m, IsEmbedding(m, graph, more),
         NEW flows, NEW outs, NEW ins, NEW wires \in SUBSET WiresOver(graph, flows, outs, ins)
  PROVE  WidthsResolve(graph, wires) <=> WidthsResolve(more, {Moved(m, w) : w \in wires})
<1>1. Agree(m, graph, KnownWidths(graph, wires), KnownWidths(more, {Moved(m, w) : w \in wires}))
  BY KnownWidthsAgree
<1> QED
  BY <1>1, SeedsFitAlike, PortsFitAlike, ResolvingIsFitting

\* Unwired blocks beside a graph make no difference.
LEMMA UnwiredBlocksDoNotMatter ==
  ASSUME NEW graph, NEW more, IsFiniteSet(DOMAIN more), DOMAIN graph \subseteq DOMAIN more,
         \A b \in DOMAIN graph : more[b] = graph[b],
         NEW flows, NEW outs, NEW ins, NEW wires \in SUBSET WiresOver(graph, flows, outs, ins)
  PROVE  WidthsResolve(graph, wires) <=> WidthsResolve(more, wires)
<1> DEFINE m == [b \in DOMAIN graph |-> b]
<1>1. IsEmbedding(m, graph, more)
  BY DEF IsEmbedding
<1>2. \A w \in wires : Moved(m, w) = w
  BY DEF Moved, WiresOver
<1>3. {Moved(m, w) : w \in wires} = wires
  BY <1>2
<1> HIDE DEF m
<1> QED
  BY <1>1, <1>3, ResolvesAlike

\* An empty diagram resolves.
LEMMA NoWiresResolve ==
  ASSUME NEW graph
  PROVE  WidthsResolve(graph, {})
  BY DEF WidthsResolve, Informing

\* Widths are numbers.
LEMMA WidthsAreNumbers ==
  ASSUME NEW graph, NEW wires, IsFiniteSet(DOMAIN graph),
         \A b \in DOMAIN graph : {graph[b].in, graph[b].out, graph[b].initial} \subseteq Nat
  PROVE  \A b \in DOMAIN graph : /\ ResolvedWidths(graph, wires)[b] \in Nat
                                 /\ InWidth(graph, ResolvedWidths(graph, wires), b) \in Nat
<1> DEFINE size == Cardinality(DOMAIN graph)
<1>1. size \in Nat
  BY FS_CardinalityType
<1>2. PICK after : SweptWidths(graph, wires, size, after) /\ KnownWidths(graph, wires) = after[size]
  BY KnownWidthsAreSwept
<1> DEFINE Good == {k \in 0..size : \A b \in DOMAIN graph : after[k][b] \in Nat}
<1>3. \A k \in 0..size : after[k] = IF k = 0 THEN SeedWidths(graph) ELSE Sweep(graph, wires, after[k - 1])
  BY <1>2 DEF SweptWidths
<1>4. 0 \in Good
  <2>1. \A b \in DOMAIN graph : SeedWidths(graph)[b] \in Nat
    BY DEF SeedWidths, Unknown
  <2> QED
    BY <1>1, <1>3, <2>1
<1>5. ASSUME NEW k \in 0..size, k < size, k \in Good PROVE k + 1 \in Good
  <2>1. k \in Nat /\ k + 1 \in 0..size /\ k + 1 # 0 /\ (k + 1) - 1 = k
    BY <1>1, <1>5
  <2>2. after[k + 1] = Sweep(graph, wires, after[k])
    BY <1>3, <2>1
  <2>3. \A b \in DOMAIN graph : after[k][b] \in Nat
    BY <1>5
  <2> DEFINE known == after[k]
             Offers(b) == {known[w.source] : w \in {x \in Informing(graph, wires) :
                                                      x.target = b}} \ {Unknown}
  <2>4. Sweep(graph, wires, known) = [b \in DOMAIN graph |->
                IF known[b] = Unknown /\ Offers(b) # {}
                THEN CHOOSE width \in Offers(b) : TRUE ELSE known[b]]
    BY DEF Sweep
  <2>5. \A b \in DOMAIN graph : Offers(b) # {} => (CHOOSE width \in Offers(b) : TRUE) \in Nat
    <3>1. \A b \in DOMAIN graph : Offers(b) \subseteq Nat
      BY <2>3 DEF Informing
    <3> HIDE DEF Offers
    <3> QED
      BY <3>1
  <2> HIDE DEF Offers
  <2>6. \A b \in DOMAIN graph : Sweep(graph, wires, known)[b] \in Nat
    BY <2>3, <2>4, <2>5
  <2> QED
    BY <2>1, <2>2, <2>6
<1> HIDE DEF Good, size
<1>6. size \in Good
  <2>1. \A k \in 0..size : k \in Good
    BY <1>1, <1>4, <1>5, UpTo
  <2> QED
    BY <1>1, <2>1
<1>7. \A b \in DOMAIN graph : KnownWidths(graph, wires)[b] \in Nat
  BY <1>2, <1>6 DEF Good, size
<1> QED
  BY <1>7 DEF ResolvedWidths, InWidth
===============================================================================
