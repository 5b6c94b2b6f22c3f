----------------------------- MODULE PlanProofs -----------------------------
(***************************************************************************)
(* Lemmas about ExecutionPlan for any diagram: the visits find its         *)
(* strongly connected components, the order of the components is found     *)
(* without getting stuck, and the plan that comes of it is a schedule.     *)
(***************************************************************************)
EXTENDS ExecutionPlan, SignalWidthsProofs

(***************************************************************************)
(* The visits                                                              *)
(***************************************************************************)
Met  == DOMAIN indices
On   == {stack[i] : i \in DOMAIN stack}
Open == {calls[i].node : i \in DOMAIN calls}
Done == UNION {components[c] : c \in DOMAIN components}

Leads(x, y) == x = y \/ y \in Downstream(x)
IsFollowed(x, y) ==
    /\ <<x, y>> \in net.edges
    /\ \A i \in DOMAIN calls : calls[i].node = x => y \notin calls[i].left

VisitTypeOK ==
    /\ IsNet(net)
    /\ calls \in Seq([node: net.blocks, left: SUBSET net.blocks])
    /\ stack \in Seq(net.blocks)
    /\ components \in Seq(SUBSET net.blocks)
    /\ Met \subseteq net.blocks /\ indices \in [Met -> Nat] /\ lowlink \in [Met -> Nat]

\* Nodes are numbered as they are met; the stack and the calls keep this order.
AreNumbered ==
    /\ \A x \in Met : indices[x] < Cardinality(Met)
    /\ \A i, j \in DOMAIN stack : i < j => indices[stack[i]] < indices[stack[j]]
    /\ \A i, j \in DOMAIN calls : i < j => indices[calls[i].node] < indices[calls[j].node]

\* A node that was met is on the stack or in a component; one being visited is on the
\* stack, and its call waits for the next one's node.
AreFiled ==
    /\ Met = On \cup Done /\ On \cap Done = {}
    /\ Open \subseteq On
    /\ \A x \in Met, y \in net.blocks : IsFollowed(x, y) => y \in Met
    /\ \A i \in DOMAIN calls :
          /\ calls[i].left \subseteq Targets(calls[i].node)
          /\ i < Len(calls) => calls[i + 1].node \in calls[i].left

ComponentsAreApart ==
    /\ \A c \in DOMAIN components : components[c] # {}
    /\ \A c, d \in DOMAIN components : c # d => components[c] \cap components[d] = {}
ComponentsAreStrong ==
    \A c \in DOMAIN components : \A x, y \in components[c] : Leads(x, y)
\* A component leads to itself and to earlier ones only.
ComponentsAreOrdered ==
    \A c \in DOMAIN components : \A x \in components[c], y \in net.blocks :
        <<x, y>> \in net.edges => \E d \in 1..c : y \in components[d]

\* A node being visited leads to all that is above it on the stack, and everything on
\* the stack leads to one below it.
OpenLeadUp   == \A x \in Open, y \in On : indices[x] <= indices[y] => Leads(x, y)
StackLeadsDown == \A x \in On : \E y \in Open : indices[y] <= indices[x] /\ Leads(x, y)

\* A lowlink is the number of a node on the stack that the visited one leads to, and not above
\* the number of any that was found from the part of the stack that is its own.
Owns(i, x) ==
    /\ indices[calls[i].node] <= indices[x]
    /\ i < Len(calls) => indices[x] < indices[calls[i + 1].node]
LowlinksAreReached ==
    \A x \in Open : \E y \in On :
        lowlink[x] = indices[y] /\ indices[y] <= indices[x] /\ Leads(x, y)
LowlinksAreLow ==
    \A i \in DOMAIN calls : \A x, y \in On :
        Owns(i, x) /\ IsFollowed(x, y) => lowlink[calls[i].node] <= indices[y]

PartsInv == ComponentsAreApart /\ ComponentsAreStrong /\ ComponentsAreOrdered
VisitInv ==
    /\ VisitTypeOK /\ AreNumbered /\ AreFiled /\ PartsInv
    /\ OpenLeadUp /\ StackLeadsDown /\ LowlinksAreReached /\ LowlinksAreLow

(***************************************************************************)
(* The order                                                               *)
(***************************************************************************)
IsCondensed ==
    /\ components \in Seq(SUBSET net.blocks) /\ PartsInv
    /\ \A b \in net.blocks : \E c \in DOMAIN components : b \in components[c]

Step(c) == IF IsStepped(c) THEN 1 ELSE 0
StepsStandAlone == \A c \in DOMAIN components : IsStepped(c) => ~IsLooped(c)

Awaited(c) == {e \in ComponentEdges : e[2] = c /\ e[1] \notin ordered}

OrderInv ==
    /\ depth \in [DOMAIN components -> Nat] /\ waiting \in [DOMAIN components -> Nat]
    /\ ordered \subseteq DOMAIN components
    /\ \A c \in DOMAIN components : waiting[c] = Cardinality(Awaited(c))
    /\ \A e \in ComponentEdges : e[2] \in ordered => e[1] \in ordered
    /\ \A e \in ComponentEdges : e[1] \in ordered => depth[e[1]] + Step(e[1]) <= depth[e[2]]
    /\ \A c \in DOMAIN components :
          depth[c] > 0 => \E a \in ordered : \E s \in net.steps \cap components[a] :
             depth[a] = depth[c] - 1 /\ \A b \in components[c] : b \in Downstream(s)

PlanInv ==
    /\ IsNet(net)
    /\ planning \in {"idle", "visiting", "ordering", "planned", "refused"}
    /\ planning = "visiting" => VisitInv
    /\ planning \in {"ordering", "planned", "refused"} => IsCondensed
    /\ planning = "refused" => \E c \in DOMAIN components : IsStepped(c) /\ IsLooped(c)
    /\ planning = "visiting" => ordered = {}
    /\ planning \in {"ordering", "planned"} => StepsStandAlone /\ OrderInv
    /\ planning = "planned" => ordered = DOMAIN components

(***************************************************************************)
(* What leads to what                                                      *)
(***************************************************************************)
LEMMA EdgesLead ==
  ASSUME IsNet(net), NEW b, NEW d, <<b, d>> \in net.edges
  PROVE  d \in Downstream(b) /\ Leads(b, d) /\ b \in net.blocks /\ d \in net.blocks
<1>1. d \in Targets(b) /\ d \in net.blocks /\ b \in net.blocks
  BY DEF IsNet, Targets
<1> QED
  BY <1>1 DEF Downstream, Leads

LEMMA DownstreamIsLeast ==
  ASSUME NEW b, NEW S \in SUBSET net.blocks, Targets(b) \subseteq S, IsClosed(S)
  PROVE  Downstream(b) \subseteq S
  BY DEF Downstream

LEMMA DownstreamIsClosed ==
  ASSUME IsNet(net), NEW b
  PROVE  IsClosed(Downstream(b)) /\ Targets(b) \subseteq Downstream(b) /\ Downstream(b) \subseteq net.blocks
<1>1. ASSUME NEW e \in net.edges, e[1] \in Downstream(b) PROVE e[2] \in Downstream(b)
  <2>1. e[2] \in net.blocks
    BY DEF IsNet
  <2> SUFFICES ASSUME NEW S \in SUBSET net.blocks, Targets(b) \subseteq S, IsClosed(S)
               PROVE  e[2] \in S
    BY <2>1 DEF Downstream
  <2>2. e[1] \in S
    BY <1>1 DEF Downstream
  <2> QED
    BY <2>2 DEF IsClosed
<1>2. Targets(b) \subseteq Downstream(b)
  BY DEF Downstream, Targets
<1> QED
  BY <1>1, <1>2 DEF IsClosed, Downstream

LEMMA DownstreamIsTransitive ==
  ASSUME IsNet(net), NEW x, NEW y \in Downstream(x)
  PROVE  Downstream(y) \subseteq Downstream(x)
<1>1. /\ IsClosed(Downstream(x)) /\ Downstream(x) \subseteq net.blocks
  BY DownstreamIsClosed
<1>2. Targets(y) \subseteq Downstream(x)
  <2> SUFFICES ASSUME NEW t \in Targets(y) PROVE t \in Downstream(x)
    OBVIOUS
  <2>1. PICK e \in net.edges : e[1] = y /\ e[2] = t
    BY DEF Targets
  <2> QED
    BY <1>1, <2>1 DEF IsClosed
<1> QED
  BY <1>1, <1>2, DownstreamIsLeast

LEMMA LeadsIsTransitive ==
  ASSUME IsNet(net), NEW x, NEW y, NEW z
  PROVE  /\ Leads(x, y) /\ Leads(y, z) => Leads(x, z)
         /\ y \in Downstream(x) /\ Leads(y, z) => z \in Downstream(x)
         /\ Leads(x, y) /\ z \in Downstream(y) => z \in Downstream(x)
  BY DownstreamIsTransitive DEF Leads

\* What is downstream is a target or downstream of one.
LEMMA FirstStep ==
  ASSUME IsNet(net), NEW x, NEW y \in Downstream(x)
  PROVE  \E t \in net.blocks : <<x, t>> \in net.edges /\ Leads(t, y)
<1> DEFINE S == {z \in net.blocks : \E t \in net.blocks : <<x, t>> \in net.edges /\ Leads(t, z)}
<1>1. Targets(x) \subseteq S
  BY DEF Targets, Leads
<1>2. ASSUME NEW e \in net.edges, e[1] \in S PROVE e[2] \in S
  <2>1. PICK t \in net.blocks : <<x, t>> \in net.edges /\ Leads(t, e[1])
    BY <1>2
  <2>2. e = <<e[1], e[2]>> /\ e[2] \in net.blocks
    BY DEF IsNet
  <2>3. Leads(e[1], e[2])
    BY <2>2, EdgesLead
  <2>4. Leads(t, e[2])
    BY <2>1, <2>3, LeadsIsTransitive
  <2> QED
    BY <2>1, <2>2, <2>4
<1> HIDE DEF S
<1>3. S \subseteq net.blocks
  BY DEF S
<1>4. Downstream(x) \subseteq S
  BY <1>1, <1>2, <1>3, DownstreamIsLeast DEF IsClosed
<1> QED
  BY <1>4 DEF S

(***************************************************************************)
(* A node is entered                                                       *)
(***************************************************************************)
LEMMA DownstreamKept ==
  ASSUME net' = net
  PROVE  /\ \A x : Downstream(x)' = Downstream(x) /\ Targets(x)' = Targets(x)
         /\ \A x, y : Leads(x, y)' = Leads(x, y)
  BY DEF Downstream, Targets, Leads, IsClosed

\* What is known of the nodes, with the sequences left aside.
LEMMA EnteredSets ==
  ASSUME VisitTypeOK, AreNumbered, AreFiled, NEW node \in net.blocks, node \notin Met, Enters(node),
         net' = net, components' = components
  PROVE  /\ VisitTypeOK'
         /\ Met' = Met \cup {node} /\ On' = On \cup {node} /\ Done' = Done
         /\ Open' = Open \cup {node}
         /\ Cardinality(Met) \in Nat /\ Cardinality(Met') = Cardinality(Met) + 1
         /\ indices'[node] = Cardinality(Met) /\ lowlink'[node] = Cardinality(Met)
         /\ \A x \in Met : indices'[x] = indices[x] /\ lowlink'[x] = lowlink[x]
         /\ Len(stack) \in Nat /\ Len(stack') = Len(stack) + 1 /\ stack'[Len(stack')] = node
         /\ \A i \in 1..Len(stack) : stack'[i] = stack[i]
         /\ Len(calls) \in Nat /\ Len(calls') = Len(calls) + 1
         /\ \A i \in 1..Len(calls) : calls'[i] = calls[i]
         /\ calls'[Len(calls')].node = node /\ calls'[Len(calls')].left = Targets(node)
<1> DEFINE new == [node |-> node, left |-> Targets(node)]
<1>1. /\ Met \subseteq net.blocks /\ IsFiniteSet(net.blocks) /\ IsFiniteSet(Met)
  BY FS_Subset DEF VisitTypeOK, IsNet
<1>2. Cardinality(Met) \in Nat /\ Cardinality(Met \cup {node}) = Cardinality(Met) + 1
  BY <1>1, FS_CardinalityType, FS_AddElement
<1>3. /\ indices' = [n \in Met \cup {node} |-> IF n = node THEN Cardinality(Met) ELSE indices[n]]
      /\ lowlink' = [n \in Met \cup {node} |-> IF n = node THEN Cardinality(Met) ELSE lowlink[n]]
  BY DEF Enters, VisitTypeOK
<1>4. stack' = Append(stack, node) /\ calls' = Append(calls, new)
  BY DEF Enters
<1>5. new \in [node: net.blocks, left: SUBSET net.blocks] /\ new.node = node /\ new.left = Targets(node)
  BY DEF Targets
<1>6. /\ calls \in Seq([node: net.blocks, left: SUBSET net.blocks]) /\ stack \in Seq(net.blocks)
      /\ indices \in [Met -> Nat] /\ lowlink \in [Met -> Nat]
  BY DEF VisitTypeOK
<1> HIDE DEF new
<1>7. /\ Len(stack) \in Nat /\ Len(stack') = Len(stack) + 1 /\ stack'[Len(stack')] = node
      /\ DOMAIN stack = 1..Len(stack) /\ DOMAIN stack' = 1..(Len(stack) + 1)
      /\ \A i \in 1..Len(stack) : stack'[i] = stack[i]
      /\ stack' \in Seq(net.blocks)
  BY <1>4, <1>6
<1>8. /\ Len(calls) \in Nat /\ Len(calls') = Len(calls) + 1 /\ calls'[Len(calls')] = new
      /\ DOMAIN calls = 1..Len(calls) /\ DOMAIN calls' = 1..(Len(calls) + 1)
      /\ \A i \in 1..Len(calls) : calls'[i] = calls[i]
      /\ calls' \in Seq([node: net.blocks, left: SUBSET net.blocks])
  BY <1>4, <1>5, <1>6
<1>9. On' = On \cup {node}
  BY <1>7 DEF On
<1>10. Open' = Open \cup {node}
  <2>1. \A i \in 1..(Len(calls) + 1) : i \in 1..Len(calls) \/ i = Len(calls) + 1
    BY <1>8
  <2> QED
    BY <1>5, <1>8, <2>1 DEF Open
<1>11. Done' = Done
  BY DEF Done
<1>12. Met' = Met \cup {node} /\ indices' \in [Met' -> Nat] /\ lowlink' \in [Met' -> Nat]
  BY <1>2, <1>3, <1>6 DEF Met
<1>13. VisitTypeOK'
  BY <1>1, <1>7, <1>8, <1>12 DEF VisitTypeOK, IsNet
<1>14. /\ indices'[node] = Cardinality(Met) /\ lowlink'[node] = Cardinality(Met)
       /\ \A x \in Met : indices'[x] = indices[x] /\ lowlink'[x] = lowlink[x]
  BY <1>3
<1> QED
  BY <1>2, <1>5, <1>7, <1>8, <1>9, <1>10, <1>11, <1>12, <1>13, <1>14

LEMMA PartsKept ==
  ASSUME PartsInv, net' = net, components' = components
  PROVE  PartsInv'
  BY DownstreamKept DEF PartsInv, ComponentsAreApart, ComponentsAreStrong, ComponentsAreOrdered

\* Who is on the stack, is being visited, owns what.
LEMMA StackFacts ==
  ASSUME VisitTypeOK, AreNumbered, AreFiled
  PROVE  /\ On \subseteq Met /\ Open \subseteq On /\ Met \subseteq net.blocks
         /\ \A x \in Met : indices[x] \in Nat /\ lowlink[x] \in Nat
         /\ \A x, y \in On : indices[x] = indices[y] => x = y
         /\ \A i \in DOMAIN calls : calls[i].node \in Open
         /\ \A i, j \in DOMAIN calls : calls[i].node = calls[j].node => i = j
         /\ DOMAIN calls = 1..Len(calls) /\ Len(calls) \in Nat
         /\ DOMAIN stack = 1..Len(stack) /\ Len(stack) \in Nat
<1>1. On \subseteq Met /\ Open \subseteq On /\ Met \subseteq net.blocks
  BY DEF AreFiled, VisitTypeOK
<1>2. \A x \in Met : indices[x] \in Nat /\ lowlink[x] \in Nat
  BY DEF VisitTypeOK
<1>3. /\ DOMAIN calls = 1..Len(calls) /\ Len(calls) \in Nat
      /\ DOMAIN stack = 1..Len(stack) /\ Len(stack) \in Nat
  BY DEF VisitTypeOK
<1>4. ASSUME NEW i \in DOMAIN stack, NEW j \in DOMAIN stack, indices[stack[i]] = indices[stack[j]]
      PROVE  i = j
  <2>1. indices[stack[i]] \in Nat /\ indices[stack[j]] \in Nat
    BY <1>1, <1>2 DEF On
  <2>2. ~(i < j) /\ ~(j < i)
    BY <1>4, <2>1 DEF AreNumbered
  <2> QED
    BY <1>3, <2>2
<1>5. \A i \in DOMAIN calls : calls[i].node \in Open
  BY DEF Open
<1>6. ASSUME NEW i \in DOMAIN calls, NEW j \in DOMAIN calls, calls[i].node = calls[j].node
      PROVE  i = j
  <2>1. indices[calls[i].node] \in Nat
    BY <1>1, <1>2, <1>5
  <2>2. ~(i < j) /\ ~(j < i)
    BY <1>6, <2>1 DEF AreNumbered
  <2> QED
    BY <1>3, <2>2
<1>7. \A x, y \in On : indices[x] = indices[y] => x = y
  BY <1>4 DEF On
<1> QED
  BY <1>1, <1>2, <1>3, <1>5, <1>6, <1>7

LEMMA EnterStep ==
  ASSUME VisitInv, NEW node \in net.blocks, node \notin Met, Enters(node),
         calls = << >> \/ node \in Visitor.left,
         net' = net, components' = components
  PROVE  VisitInv'
<1> DEFINE number == Cardinality(Met)
           k == Len(calls)
<1>1. VisitTypeOK /\ AreNumbered /\ AreFiled /\ PartsInv
      /\ OpenLeadUp /\ StackLeadsDown /\ LowlinksAreReached /\ LowlinksAreLow
  BY DEF VisitInv
<1>2. /\ VisitTypeOK'
      /\ Met' = Met \cup {node} /\ On' = On \cup {node} /\ Done' = Done
      /\ Open' = Open \cup {node}
      /\ number \in Nat /\ Cardinality(Met') = number + 1
      /\ indices'[node] = number /\ lowlink'[node] = number
      /\ \A x \in Met : indices'[x] = indices[x] /\ lowlink'[x] = lowlink[x]
      /\ Len(stack) \in Nat /\ Len(stack') = Len(stack) + 1 /\ stack'[Len(stack')] = node
      /\ \A i \in 1..Len(stack) : stack'[i] = stack[i]
      /\ k \in Nat /\ Len(calls') = k + 1
      /\ \A i \in 1..k : calls'[i] = calls[i]
      /\ calls'[Len(calls')].node = node /\ calls'[Len(calls')].left = Targets(node)
  BY <1>1, EnteredSets
<1>3. /\ On \subseteq Met /\ Open \subseteq On /\ Met \subseteq net.blocks
      /\ \A x \in Met : indices[x] \in Nat /\ lowlink[x] \in Nat
      /\ \A i \in DOMAIN calls : calls[i].node \in Open
      /\ DOMAIN calls = 1..k /\ DOMAIN stack = 1..Len(stack)
  BY <1>1, StackFacts
<1>4. DOMAIN calls' = 1..(k + 1) /\ DOMAIN stack' = 1..(Len(stack) + 1)
  BY <1>2 DEF VisitTypeOK
<1>5. \A x \in Met : indices'[x] < number
  BY <1>1, <1>2 DEF AreNumbered
<1>6. \A x : Targets(x)' = Targets(x) /\ \A y : Leads(x, y)' = Leads(x, y)
  BY DownstreamKept
<1> HIDE DEF number, k
<1>7. AreNumbered'
  <2>1. \A x \in Met' : indices'[x] < Cardinality(Met')
    BY <1>2, <1>5, <1>3
  <2>2. ASSUME NEW i \in DOMAIN stack', NEW j \in DOMAIN stack', i < j
        PROVE  indices'[stack'[i]] < indices'[stack'[j]]
    <3>1. i \in DOMAIN stack /\ stack'[i] = stack[i] /\ stack[i] \in Met
      BY <1>2, <1>3, <1>4, <2>2 DEF On
    <3>2. CASE j = Len(stack) + 1
      BY <1>2, <1>5, <3>1, <3>2
    <3>3. CASE j \in DOMAIN stack
      <4>1. stack'[j] = stack[j] /\ stack[j] \in Met
        BY <1>2, <1>3, <3>3 DEF On
      <4> QED
        BY <1>1, <1>2, <2>2, <3>1, <3>3, <4>1 DEF AreNumbered
    <3> QED
      BY <1>2, <1>3, <1>4, <3>2, <3>3
  <2>3. ASSUME NEW i \in DOMAIN calls', NEW j \in DOMAIN calls', i < j
        PROVE  indices'[calls'[i].node] < indices'[calls'[j].node]
    <3>1. i \in DOMAIN calls /\ calls'[i] = calls[i] /\ calls[i].node \in Met
      BY <1>2, <1>3, <1>4, <2>3
    <3>2. CASE j = k + 1
      BY <1>2, <1>5, <3>1, <3>2
    <3>3. CASE j \in DOMAIN calls
      <4>1. calls'[j] = calls[j] /\ calls[j].node \in Met
        BY <1>2, <1>3, <3>3
      <4> QED
        BY <1>1, <1>2, <2>3, <3>1, <3>3, <4>1 DEF AreNumbered
    <3> QED
      BY <1>2, <1>3, <1>4, <3>2, <3>3
  <2> QED
    BY <2>1, <2>2, <2>3 DEF AreNumbered
\* Nothing has been followed from the node yet, all else is as before.
<1>8. \A x, y : IsFollowed(x, y)' => x # node /\ IsFollowed(x, y)
  <2> SUFFICES ASSUME NEW x, NEW y, IsFollowed(x, y)'
               PROVE  x # node /\ IsFollowed(x, y)
    OBVIOUS
  <2>1. <<x, y>> \in net.edges /\ \A i \in 1..(k + 1) : calls'[i].node = x => y \notin calls'[i].left
    BY <1>4 DEF IsFollowed
  <2>2. y \in net.blocks
    BY <1>1, <2>1, EdgesLead DEF VisitTypeOK
  <2>3. x # node
    <3>1. calls'[k + 1].node = node /\ calls'[k + 1].left = Targets(node) /\ k + 1 \in 1..(k + 1)
      BY <1>2
    <3> QED
      BY <2>1, <2>2, <3>1 DEF Targets
  <2>4. \A i \in 1..k : i \in 1..(k + 1) /\ calls'[i] = calls[i]
    BY <1>2
  <2> QED
    BY <1>3, <2>1, <2>3, <2>4 DEF IsFollowed
<1>9. AreFiled'
  <2>1. Met' = On' \cup Done' /\ On' \cap Done' = {} /\ Open' \subseteq On'
    BY <1>1, <1>2 DEF AreFiled
  <2>2. \A x \in Met', y \in net'.blocks : IsFollowed(x, y)' => y \in Met'
    BY <1>1, <1>2, <1>8 DEF AreFiled
  <2>3. ASSUME NEW i \in DOMAIN calls'
        PROVE  /\ calls'[i].left \subseteq Targets(calls'[i].node)
               /\ i < Len(calls') => calls'[i + 1].node \in calls'[i].left
    <3>1. CASE i = k + 1
      BY <1>2, <3>1
    <3>2. CASE i \in 1..k /\ i < k
      <4>1. i + 1 \in 1..k /\ calls'[i + 1] = calls[i + 1] /\ calls'[i] = calls[i]
        BY <1>2, <3>2
      <4> QED
        BY <1>1, <1>2, <1>3, <3>2, <4>1 DEF AreFiled, k
    <3>3. CASE i = k /\ k # 0
      <4>1. calls'[i] = calls[i] /\ calls'[i + 1].node = node /\ i \in DOMAIN calls
        BY <1>2, <1>3, <3>3
      <4>2. node \in calls[i].left
        BY <1>2, <3>3 DEF Visitor, k
      <4> QED
        BY <1>1, <4>1, <4>2 DEF AreFiled
    <3> QED
      BY <1>2, <1>4, <3>1, <3>2, <3>3
  <2> QED
    BY <2>1, <2>2, <2>3 DEF AreFiled, Targets
<1>10. PartsInv'
  BY <1>1, PartsKept
\* The caller leads to the node, and what leads to the caller leads to the node.
<1>11. OpenLeadUp'
  <2> SUFFICES ASSUME NEW x \in Open', NEW y \in On', indices'[x] <= indices'[y] PROVE Leads(x, y)
    BY <1>6 DEF OpenLeadUp
  <2>1. CASE x = node
    <3>1. y = node
      BY <1>2, <1>3, <1>5, <2>1
    <3> QED
      BY <2>1, <3>1 DEF Leads
  <2>2. CASE x # node /\ y # node
    BY <1>1, <1>2, <1>3, <2>2 DEF OpenLeadUp
  <2>3. CASE x # node /\ y = node
    <3>1. x \in Open /\ k # 0
      BY <1>2, <1>3, <2>3 DEF Open
    <3> DEFINE caller == calls[k].node
    <3>2. k \in DOMAIN calls /\ caller \in Open /\ caller \in On
      BY <1>2, <1>3, <3>1
    <3>3. node \in Targets(caller)
      BY <1>1, <1>2, <3>1, <3>2 DEF AreFiled, Visitor, k
    <3>4. Leads(caller, node)
      BY <1>1, <3>3, EdgesLead DEF Targets, VisitTypeOK
    <3>5. indices[x] <= indices[caller]
      <4>1. PICK i \in DOMAIN calls : x = calls[i].node
        BY <3>1 DEF Open
      <4>2. i = k \/ i < k
        BY <1>2, <1>3
      <4> QED
        BY <1>1, <1>3, <3>2, <4>1, <4>2 DEF AreNumbered
    <3>6. Leads(x, caller)
      BY <1>1, <3>1, <3>2, <3>5 DEF OpenLeadUp
    <3> QED
      BY <1>1, <2>3, <3>4, <3>6, LeadsIsTransitive DEF VisitTypeOK
  <2> QED
    BY <2>1, <2>2, <2>3
<1>12. StackLeadsDown'
  <2> SUFFICES ASSUME NEW x \in On'
               PROVE  \E y \in Open' : indices'[y] <= indices'[x] /\ Leads(x, y)
    BY <1>6 DEF StackLeadsDown
  <2>1. CASE x = node
    BY <1>2, <2>1 DEF Leads
  <2>2. CASE x \in On
    <3>1. PICK y \in Open : indices[y] <= indices[x] /\ Leads(x, y)
      BY <1>1, <2>2 DEF StackLeadsDown
    <3> QED
      BY <1>2, <1>3, <2>2, <3>1
  <2> QED
    BY <1>2, <2>1, <2>2
<1>13. LowlinksAreReached'
  <2> SUFFICES ASSUME NEW x \in Open'
               PROVE  \E y \in On' : lowlink'[x] = indices'[y] /\ indices'[y] <= indices'[x] /\ Leads(x, y)
    BY <1>6 DEF LowlinksAreReached
  <2>1. CASE x = node
    BY <1>2, <2>1 DEF Leads
  <2>2. CASE x \in Open
    <3>1. PICK y \in On : lowlink[x] = indices[y] /\ indices[y] <= indices[x] /\ Leads(x, y)
      BY <1>1, <2>2 DEF LowlinksAreReached
    <3> QED
      BY <1>2, <1>3, <2>2, <3>1
  <2> QED
    BY <1>2, <2>1, <2>2
<1>14. LowlinksAreLow'
  <2> SUFFICES ASSUME NEW i \in DOMAIN calls', NEW x \in On', NEW y \in On',
                      Owns(i, x)', IsFollowed(x, y)'
               PROVE  lowlink'[calls'[i].node] <= indices'[y]
    BY DEF LowlinksAreLow
  <2>1. x # node /\ IsFollowed(x, y) /\ x \in On /\ x \in Met
    BY <1>2, <1>3, <1>8
  <2>2. y \in Met /\ y # node /\ y \in On
    <3>1. y \in net.blocks
      BY <1>2, <1>3
    <3> QED
      BY <1>1, <1>2, <2>1, <3>1 DEF AreFiled
  <2>3. indices'[calls'[i].node] <= indices[x]
    BY <1>2, <2>1 DEF Owns
  <2>4. i # k + 1
    BY <1>2, <1>3, <1>5, <2>1, <2>3
  <2>5. i \in DOMAIN calls /\ calls'[i] = calls[i] /\ calls[i].node \in Met
    BY <1>2, <1>3, <1>4, <2>4
  <2>6. Owns(i, x)
    <3>1. i < Len(calls) => indices[x] < indices[calls[i + 1].node]
      <4> SUFFICES ASSUME i < k PROVE indices[x] < indices[calls[i + 1].node]
        BY DEF k
      <4>1. i + 1 \in 1..k /\ calls'[i + 1] = calls[i + 1] /\ calls[i + 1].node \in Met /\ i < Len(calls')
        BY <1>2, <1>3, <2>5
      <4>2. indices'[x] < indices'[calls'[i + 1].node]
        BY <4>1 DEF Owns
      <4> QED
        BY <1>2, <2>1, <4>1, <4>2
    <3> QED
      BY <1>2, <2>3, <2>5, <3>1 DEF Owns
  <2> QED
    BY <1>1, <1>2, <2>1, <2>2, <2>5, <2>6 DEF LowlinksAreLow
<1> QED
  BY <1>2, <1>7, <1>9, <1>10, <1>11, <1>12, <1>13, <1>14 DEF VisitInv

LEMMA LastOfSeq ==
  ASSUME NEW R, NEW s \in Seq(R), s # << >>
  PROVE  /\ DOMAIN s = 1..Len(s) /\ Len(s) \in Nat \ {0} /\ Len(s) \in DOMAIN s
         /\ \A i \in DOMAIN s : s[i] \in R
  OBVIOUS

LEMMA ReplacedInSeq ==
  ASSUME NEW R, NEW s \in Seq(R), NEW i \in DOMAIN s, NEW x \in R, NEW t, t = [s EXCEPT ![i] = x]
  PROVE  /\ t \in Seq(R) /\ Len(t) = Len(s) /\ DOMAIN t = DOMAIN s
         /\ t[i] = x /\ \A j \in DOMAIN s : j # i => t[j] = s[j]
  OBVIOUS

LEMMA LeastIsOne ==
  ASSUME NEW S \in SUBSET Nat, S # {}
  PROVE  Least(S) \in S
  BY LeastExists DEF Least

LEMMA VisitRootStep == VisitInv /\ VisitRoot => VisitInv'
<1> SUFFICES ASSUME VisitInv, VisitRoot PROVE VisitInv'
  OBVIOUS
<1> DEFINE new == {n \in net.blocks : ~Visited(n)}
<1>1. new \in SUBSET Nat /\ new # {}
  BY DEF VisitRoot, VisitInv, VisitTypeOK, IsNet
<1>2. Least(new) \in new
  <2> HIDE DEF new
  <2> QED
    BY <1>1, LeastIsOne
<1>3. Least(new) \in net.blocks /\ Least(new) \notin Met
  BY <1>2 DEF Visited, Met
<1>4. Enters(Least(new)) /\ calls = << >> /\ net' = net /\ components' = components
  BY DEF VisitRoot
<1> HIDE DEF new
<1> QED
  BY <1>3, <1>4, EnterStep

LEMMA FollowingIsLeft ==
  ASSUME VisitInv, calls # << >>, Visitor.left # {}
  PROVE  /\ Following \in Visitor.left /\ Following \in net.blocks
         /\ <<Visitor.node, Following>> \in net.edges
<1>1. Len(calls) \in DOMAIN calls /\ Visitor.left \subseteq net.blocks /\ net.blocks \subseteq Nat
  <2>1. calls \in Seq([node: net.blocks, left: SUBSET net.blocks]) /\ net.blocks \subseteq Nat
    BY DEF VisitInv, VisitTypeOK, IsNet
  <2>2. Len(calls) \in DOMAIN calls /\ calls[Len(calls)] \in [node: net.blocks, left: SUBSET net.blocks]
    BY <2>1, LastOfSeq
  <2> QED
    BY <2>1, <2>2 DEF Visitor
<1>2. Following \in Visitor.left
  BY <1>1, LeastIsOne DEF Following
<1>3. Visitor.left \subseteq Targets(Visitor.node)
  BY <1>1 DEF VisitInv, AreFiled, Visitor
<1> QED
  BY <1>1, <1>2, <1>3 DEF Targets

LEMMA VisitNextStep == VisitInv /\ VisitNext => VisitInv'
<1> SUFFICES ASSUME VisitInv, VisitNext PROVE VisitInv'
  OBVIOUS
<1>1. Following \in Visitor.left /\ Following \in net.blocks /\ Following \notin Met
  BY FollowingIsLeft DEF VisitNext, Visited, Met
<1>2. Enters(Following) /\ net' = net /\ components' = components
  BY DEF VisitNext
<1> QED
  BY <1>1, <1>2, EnterStep

LEMMA PassVisitedStep == VisitInv /\ PassVisited => VisitInv'
<1> SUFFICES ASSUME VisitInv, PassVisited PROVE VisitInv'
  OBVIOUS
<1> DEFINE k    == Len(calls)
           node == calls[k].node
           to   == Following
<1>1. VisitTypeOK /\ AreNumbered /\ AreFiled /\ PartsInv
      /\ OpenLeadUp /\ StackLeadsDown /\ LowlinksAreReached /\ LowlinksAreLow
  BY DEF VisitInv
<1>2. /\ On \subseteq Met /\ Open \subseteq On /\ Met \subseteq net.blocks
      /\ \A x \in Met : indices[x] \in Nat /\ lowlink[x] \in Nat
      /\ \A i \in DOMAIN calls : calls[i].node \in Open
      /\ \A i, j \in DOMAIN calls : calls[i].node = calls[j].node => i = j
      /\ DOMAIN calls = 1..k /\ k \in Nat /\ DOMAIN stack = 1..Len(stack)
  BY <1>1, StackFacts
<1>3. /\ calls # << >> /\ to \in Met /\ to \in calls[k].left
      /\ <<node, to>> \in net.edges
      /\ calls' = [calls EXCEPT ![k].left = @ \ {to}]
      /\ lowlink' = IF to \in On THEN [lowlink EXCEPT ![node] = SmallerOf(@, indices[to])] ELSE lowlink
      /\ UNCHANGED <<net, indices, stack, components>>
  BY FollowingIsLeft DEF PassVisited, Visited, Met, OnStack, On, Visitor
<1>4. k \in DOMAIN calls /\ node \in Open /\ k \in 1..k
  BY <1>2, <1>3 DEF VisitTypeOK
<1> HIDE DEF to
<1>5. /\ Len(calls') = k /\ DOMAIN calls' = 1..k
      /\ \A i \in 1..k : calls'[i].node = calls[i].node
      /\ \A i \in 1..k : calls'[i].left = IF i = k THEN calls[i].left \ {to} ELSE calls[i].left
      /\ calls' \in Seq([node: net.blocks, left: SUBSET net.blocks])
  <2>1. calls \in Seq([node: net.blocks, left: SUBSET net.blocks])
    BY <1>1 DEF VisitTypeOK
  <2> DEFINE call == [calls[k] EXCEPT !.left = calls[k].left \ {to}]
  <2>2. calls[k] \in [node: net.blocks, left: SUBSET net.blocks]
    BY <1>3, <1>4, <2>1, LastOfSeq
  <2>3. /\ call \in [node: net.blocks, left: SUBSET net.blocks]
        /\ call.node = calls[k].node /\ call.left = calls[k].left \ {to}
    BY <2>2
  <2>4. calls' = [calls EXCEPT ![k] = call]
    BY <1>3
  <2> HIDE DEF call
  <2>5. /\ calls' \in Seq([node: net.blocks, left: SUBSET net.blocks])
        /\ Len(calls') = Len(calls) /\ DOMAIN calls' = DOMAIN calls
        /\ calls'[k] = call /\ \A j \in DOMAIN calls : j # k => calls'[j] = calls[j]
    BY <1>4, <2>1, <2>3, <2>4, ReplacedInSeq
  <2> QED
    BY <1>2, <2>3, <2>5
<1>6. /\ Met' = Met /\ On' = On /\ Done' = Done /\ Open' = Open
  BY <1>2, <1>3, <1>5 DEF Met, On, Done, Open
<1>7. /\ lowlink' \in [Met -> Nat]
      /\ \A x \in Met : x # node => lowlink'[x] = lowlink[x]
      /\ lowlink'[node] <= lowlink[node]
      /\ to \in On => lowlink'[node] <= indices[to]
      /\ \/ lowlink'[node] = lowlink[node]
         \/ to \in On /\ lowlink'[node] = indices[to] /\ indices[to] < lowlink[node]
  <2>1. node \in Met /\ lowlink[node] \in Nat /\ indices[to] \in Nat /\ lowlink \in [Met -> Nat]
    BY <1>1, <1>2, <1>3, <1>4 DEF VisitTypeOK
  <2>2. CASE to \in On
    <3>1. lowlink' = [lowlink EXCEPT ![node] = SmallerOf(lowlink[node], indices[to])]
      BY <1>3, <2>2
    <3>2. /\ SmallerOf(lowlink[node], indices[to]) \in Nat
          /\ SmallerOf(lowlink[node], indices[to]) <= lowlink[node]
          /\ SmallerOf(lowlink[node], indices[to]) <= indices[to]
          /\ \/ SmallerOf(lowlink[node], indices[to]) = lowlink[node]
             \/ SmallerOf(lowlink[node], indices[to]) = indices[to] /\ indices[to] < lowlink[node]
      BY <2>1 DEF SmallerOf
    <3> HIDE DEF node
    <3> QED
      BY <2>1, <2>2, <3>1, <3>2
  <2>3. CASE to \notin On
    BY <1>3, <2>1, <2>3
  <2> QED
    BY <2>2, <2>3
<1>8. VisitTypeOK'
  BY <1>1, <1>3, <1>5, <1>6, <1>7 DEF VisitTypeOK, Met
<1>9. \A x : Targets(x)' = Targets(x) /\ \A y : Leads(x, y)' = Leads(x, y)
  BY <1>3, DownstreamKept
<1> HIDE DEF node, k
<1>10. AreNumbered'
  BY <1>1, <1>2, <1>3, <1>5, <1>6 DEF AreNumbered
<1>11. \A x, y : IsFollowed(x, y)' => IsFollowed(x, y) \/ (x = node /\ y = to)
  <2> SUFFICES ASSUME NEW x, NEW y, IsFollowed(x, y)', ~(x = node /\ y = to)
               PROVE  IsFollowed(x, y)
    OBVIOUS
  <2>1. <<x, y>> \in net.edges /\ \A i \in 1..k : calls'[i].node = x => y \notin calls'[i].left
    BY <1>3, <1>5 DEF IsFollowed
  <2>2. ASSUME NEW i \in 1..k, calls[i].node = x PROVE y \notin calls[i].left
    BY <1>5, <2>1, <2>2 DEF node
  <2> QED
    BY <1>2, <2>1, <2>2 DEF IsFollowed
<1>12. AreFiled'
  <2>1. Met' = On' \cup Done' /\ On' \cap Done' = {} /\ Open' \subseteq On'
    BY <1>1, <1>6 DEF AreFiled
  <2>2. \A x \in Met', y \in net'.blocks : IsFollowed(x, y)' => y \in Met'
    BY <1>1, <1>3, <1>6, <1>11 DEF AreFiled
  <2>3. ASSUME NEW i \in DOMAIN calls'
        PROVE  /\ calls'[i].left \subseteq Targets(calls'[i].node)
               /\ i < Len(calls') => calls'[i + 1].node \in calls'[i].left
    <3>1. /\ calls[i].left \subseteq Targets(calls[i].node)
          /\ i < k => calls[i + 1].node \in calls[i].left
      BY <1>1, <1>2, <1>5 DEF AreFiled, k
    <3>2. i < k => i + 1 \in 1..k
      BY <1>2, <1>5
    <3>3. calls'[i].node = calls[i].node /\ calls'[i].left \subseteq calls[i].left
      BY <1>5
    <3>4. ASSUME i < k PROVE calls'[i].left = calls[i].left
      <4>1. i \in 1..k /\ i # k
        BY <1>2, <1>5, <3>4
      <4> QED
        BY <1>5, <4>1
    <3>5. i < k => calls'[i + 1].node = calls[i + 1].node
      BY <1>5, <3>2
    <3> QED
      BY <1>5, <3>1, <3>3, <3>4, <3>5
  <2> QED
    BY <1>3, <2>1, <2>2, <2>3 DEF AreFiled, Targets
<1>13. PartsInv'
  BY <1>1, <1>3, PartsKept
<1>14. OpenLeadUp' /\ StackLeadsDown'
  BY <1>1, <1>3, <1>6, <1>9 DEF OpenLeadUp, StackLeadsDown
<1>15. LowlinksAreReached'
  <2> SUFFICES ASSUME NEW x \in Open
               PROVE  \E y \in On : lowlink'[x] = indices[y] /\ indices[y] <= indices[x] /\ Leads(x, y)
    BY <1>3, <1>6, <1>9 DEF LowlinksAreReached
  <2>1. PICK y \in On : lowlink[x] = indices[y] /\ indices[y] <= indices[x] /\ Leads(x, y)
    BY <1>1 DEF LowlinksAreReached
  <2>2. x \in Met /\ y \in Met
    BY <1>2
  <2>3. CASE lowlink'[x] = lowlink[x]
    BY <2>1, <2>3
  <2>4. CASE x = node /\ to \in On /\ lowlink'[node] = indices[to] /\ indices[to] < lowlink[node]
    <3>1. Leads(x, to)
      BY <1>1, <1>3, <2>4, EdgesLead DEF VisitTypeOK, node, k
    <3>2. indices[to] <= indices[x]
      BY <1>2, <1>3, <2>1, <2>2, <2>4
    <3> QED
      BY <2>4, <3>1, <3>2
  <2> QED
    BY <1>7, <2>2, <2>3, <2>4
<1>16. LowlinksAreLow'
  <2> SUFFICES ASSUME NEW i \in DOMAIN calls', NEW x \in On', NEW y \in On',
                      Owns(i, x)', IsFollowed(x, y)'
               PROVE  lowlink'[calls'[i].node] <= indices'[y]
    BY DEF LowlinksAreLow
  <2>1. /\ i \in DOMAIN calls /\ calls'[i].node = calls[i].node /\ calls[i].node \in Met
        /\ x \in Met /\ y \in Met /\ x \in On /\ y \in On /\ indices' = indices
    BY <1>2, <1>3, <1>5, <1>6
  <2>2. Owns(i, x)
    <3>1. i < k => calls'[i + 1].node = calls[i + 1].node
      BY <1>2, <1>5
    <3> QED
      BY <1>5, <2>1, <3>1 DEF Owns, k
  <2>3. lowlink'[calls[i].node] <= lowlink[calls[i].node] /\ lowlink'[calls[i].node] \in Nat
    BY <1>2, <1>7, <2>1
  <2>4. CASE IsFollowed(x, y)
    <3>1. lowlink[calls[i].node] <= indices[y]
      BY <1>1, <2>1, <2>2, <2>4 DEF LowlinksAreLow
    <3> QED
      BY <1>2, <2>1, <2>3, <3>1
  <2>5. CASE x = node /\ y = to
    <3>1. i = k
      <4> SUFFICES ASSUME i < k PROVE FALSE
        BY <1>2, <1>5
      <4>1. i + 1 \in 1..k /\ calls[i + 1].node \in Met /\ node = calls[k].node /\ k \in 1..k
        BY <1>2, <1>5 DEF node
      <4>2. indices[node] < indices[calls[i + 1].node]
        BY <2>2, <2>5 DEF Owns, k
      <4>3. i + 1 = k \/ i + 1 < k
        BY <1>2, <4>1
      <4>4. indices[calls[i + 1].node] <= indices[node]
        BY <1>1, <1>2, <4>1, <4>3 DEF AreNumbered
      <4> QED
        BY <1>2, <2>1, <2>5, <4>1, <4>2, <4>4
    <3> QED
      BY <1>7, <2>1, <2>5, <3>1 DEF node
  <2> QED
    BY <1>11, <2>4, <2>5
<1> QED
  BY <1>8, <1>10, <1>12, <1>13, <1>14, <1>15, <1>16 DEF VisitInv

LEMMA HeadOfSeq ==
  ASSUME NEW R, NEW s \in Seq(R), NEW n \in 0..Len(s), NEW t, t = SubSeq(s, 1, n)
  PROVE  t \in Seq(R) /\ Len(t) = n /\ DOMAIN t = 1..n /\ \A i \in 1..n : t[i] = s[i]
  OBVIOUS

\* A visit ends.
LEMMA EndedCalls ==
  ASSUME VisitInv, EndVisit
  PROVE  LET k    == Len(calls)
             node == calls[k].node
         IN  /\ k \in Nat \ {0} /\ DOMAIN calls = 1..k /\ Len(calls') = k - 1 /\ DOMAIN calls' = 1..(k - 1)
             /\ calls[k].left = {}
             /\ calls' \in Seq([node: net.blocks, left: SUBSET net.blocks])
             /\ \A i \in 1..(k - 1) :
                   /\ calls'[i].node = calls[i].node
                   /\ calls'[i].left = IF i = k - 1 THEN calls[i].left \ {node} ELSE calls[i].left
             /\ node \in Open /\ Open' = Open \ {node}
             /\ \A x, y : IsFollowed(x, y)'
                   => IsFollowed(x, y) \/ (k > 1 /\ x = calls[k - 1].node /\ y = node)
             /\ UNCHANGED <<net, indices>>
             /\ lowlink' \in [Met -> Nat]
             /\ \A x \in Met : k = 1 \/ x # calls[k - 1].node => lowlink'[x] = lowlink[x]
             /\ k > 1 =>
                   /\ lowlink'[calls[k - 1].node] <= lowlink[calls[k - 1].node]
                   /\ lowlink'[calls[k - 1].node] <= lowlink[node]
                   /\ lowlink'[calls[k - 1].node] \in {lowlink[calls[k - 1].node], lowlink[node]}
<1>0. PICK k : k = Len(calls)
  OBVIOUS
<1> DEFINE node == calls[k].node
           rest == SubSeq(calls, 1, k - 1)
           R    == [node: net.blocks, left: SUBSET net.blocks]
<1>1. VisitTypeOK /\ AreNumbered /\ AreFiled
  BY DEF VisitInv
<1>2. /\ On \subseteq Met /\ Open \subseteq On /\ Met \subseteq net.blocks
      /\ \A x \in Met : indices[x] \in Nat /\ lowlink[x] \in Nat
      /\ \A i \in DOMAIN calls : calls[i].node \in Open
      /\ \A i, j \in DOMAIN calls : calls[i].node = calls[j].node => i = j
  BY <1>1, StackFacts
<1>3. calls \in Seq(R) /\ calls # << >> /\ calls[k].left = {} /\ UNCHANGED <<net, indices>>
  BY <1>0, <1>1 DEF EndVisit, Visitor, VisitTypeOK
<1> HIDE DEF R
<1>4. /\ DOMAIN calls = 1..k /\ k \in Nat \ {0} /\ k \in DOMAIN calls
      /\ \A i \in DOMAIN calls : calls[i] \in R
  BY <1>0, <1>3, LastOfSeq
<1>5. /\ rest \in Seq(R) /\ Len(rest) = k - 1 /\ DOMAIN rest = 1..(k - 1)
      /\ \A i \in 1..(k - 1) : rest[i] = calls[i]
  <2>1. k - 1 \in 0..Len(calls)
    BY <1>0, <1>4
  <2>2. rest = SubSeq(calls, 1, k - 1)
    OBVIOUS
  <2> HIDE DEF rest
  <2> QED
    BY <1>3, <2>1, <2>2, HeadOfSeq
<1>6. /\ k = 1 => calls' = rest /\ lowlink' = lowlink
      /\ k # 1 => /\ lowlink' = [lowlink EXCEPT ![calls[k - 1].node] = SmallerOf(@, lowlink[node])]
                  /\ calls' = [rest EXCEPT ![k - 1].left = @ \ {node}]
  BY <1>0 DEF EndVisit, Caller, Visitor
<1>11. k \in Nat /\ k >= 1 /\ \A i \in 1..k : i = k \/ (i = k - 1 /\ k > 1) \/ (i \in 1..(k - 1) /\ i # k - 1)
  BY <1>4
<1> HIDE DEF rest
<1>7. /\ calls' \in Seq(R) /\ Len(calls') = k - 1 /\ DOMAIN calls' = 1..(k - 1)
      /\ \A i \in 1..(k - 1) :
            /\ calls'[i].node = calls[i].node
            /\ calls'[i].left = IF i = k - 1 THEN calls[i].left \ {node} ELSE calls[i].left
  <2>1. CASE k = 1
    BY <1>5, <1>6, <2>1
  <2>2. CASE k # 1
    <3> DEFINE call == [calls[k - 1] EXCEPT !.left = calls[k - 1].left \ {node}]
    <3>1. k - 1 \in 1..(k - 1) /\ k - 1 \in DOMAIN calls
      BY <1>4, <2>2
    <3>2. call \in R /\ call.node = calls[k - 1].node /\ call.left = calls[k - 1].left \ {node}
      <4>1. calls[k - 1] \in R
        BY <1>4, <3>1
      <4> QED
        BY <4>1 DEF R
    <3>3. calls' = [rest EXCEPT ![k - 1] = call]
      BY <1>5, <1>6, <2>2, <3>1
    <3> HIDE DEF call
    <3>4. /\ calls' \in Seq(R) /\ Len(calls') = Len(rest) /\ DOMAIN calls' = DOMAIN rest
          /\ calls'[k - 1] = call /\ \A j \in DOMAIN rest : j # k - 1 => calls'[j] = rest[j]
      BY <1>5, <3>1, <3>2, <3>3, ReplacedInSeq
    <3> QED
      BY <1>5, <3>2, <3>4
  <2> QED
    BY <2>1, <2>2
<1>8. node \in Open /\ Open' = Open \ {node}
  <2>1. node \in Open
    BY <1>2, <1>4
  <2>2. Open' = {calls[i].node : i \in 1..(k - 1)}
    BY <1>7 DEF Open
  <2>3. Open = {calls[i].node : i \in 1..(k - 1)} \cup {node}
    <3>1. 1..k = 1..(k - 1) \cup {k}
      BY <1>11
    <3> QED
      BY <1>4, <3>1 DEF Open
  <2>4. node \notin {calls[i].node : i \in 1..(k - 1)}
    <3>1. \A i \in 1..(k - 1) : i \in 1..k /\ i # k
      BY <1>4
    <3> QED
      BY <1>2, <1>4, <3>1
  <2> QED
    BY <2>1, <2>2, <2>3, <2>4
<1>9. ASSUME NEW x, NEW y, IsFollowed(x, y)', ~(k > 1 /\ x = calls[k - 1].node /\ y = node)
      PROVE  IsFollowed(x, y)
  <2>1. <<x, y>> \in net.edges /\ \A i \in 1..(k - 1) : calls'[i].node = x => y \notin calls'[i].left
    BY <1>3, <1>7, <1>9 DEF IsFollowed
  <2>2. ASSUME NEW i \in 1..k, calls[i].node = x PROVE y \notin calls[i].left
    <3>1. CASE i = k
      BY <1>3, <3>1
    <3>2. CASE i \in 1..(k - 1) /\ i # k - 1
      BY <1>7, <2>1, <2>2, <3>2
    <3>3. CASE i = k - 1 /\ k > 1
      <4>1. i \in 1..(k - 1) /\ y # node
        BY <1>4, <1>9, <2>2, <3>3
      <4> QED
        BY <1>7, <2>1, <2>2, <3>3, <4>1
    <3> QED
      BY <1>11, <3>1, <3>2, <3>3
  <2> QED
    BY <1>4, <2>1, <2>2 DEF IsFollowed
<1>10. /\ lowlink' \in [Met -> Nat]
       /\ \A x \in Met : k = 1 \/ x # calls[k - 1].node => lowlink'[x] = lowlink[x]
       /\ k > 1 =>
             /\ lowlink'[calls[k - 1].node] <= lowlink[calls[k - 1].node]
             /\ lowlink'[calls[k - 1].node] <= lowlink[node]
             /\ lowlink'[calls[k - 1].node] \in {lowlink[calls[k - 1].node], lowlink[node]}
  <2>1. lowlink \in [Met -> Nat]
    BY <1>1 DEF VisitTypeOK
  <2>2. CASE k = 1
    BY <1>6, <2>1, <2>2
  <2>3. CASE k # 1
    <3> DEFINE caller == calls[k - 1].node
               low    == SmallerOf(lowlink[caller], lowlink[node])
    <3>1. k - 1 \in DOMAIN calls
      BY <1>4, <2>3
    <3>2. caller \in Met /\ node \in Met
      BY <1>2, <1>4, <3>1
    <3>3. low \in {lowlink[caller], lowlink[node]} /\ low <= lowlink[caller] /\ low <= lowlink[node]
      <4>1. lowlink[caller] \in Nat /\ lowlink[node] \in Nat
        BY <1>2, <3>2
      <4> QED
        BY <4>1 DEF SmallerOf
    <3>4. lowlink' = [lowlink EXCEPT ![caller] = low]
      BY <1>6, <2>3
    <3> HIDE DEF low, caller, node
    <3>5. /\ lowlink' \in [Met -> Nat] /\ lowlink'[caller] = low
          /\ \A x \in Met : x # caller => lowlink'[x] = lowlink[x]
      BY <1>2, <2>1, <3>2, <3>3, <3>4
    <3> QED
      BY <2>3, <3>3, <3>5 DEF caller
  <2> QED
    BY <2>2, <2>3
<1> QED
  BY <1>0, <1>3, <1>4, <1>7, <1>8, <1>9, <1>10 DEF R

\* The top of the stack, from the node on.
Top(node) == {x \in On : indices[node] <= indices[x]}

LEMMA OpenAtTheTop ==
  ASSUME VisitInv, calls # << >>, NEW x \in Open, x \in Top(Visitor.node)
  PROVE  x = Visitor.node
<1>1. VisitTypeOK /\ AreNumbered /\ AreFiled
  BY DEF VisitInv
<1>2. /\ On \subseteq Met /\ Open \subseteq On
      /\ \A y \in Met : indices[y] \in Nat
      /\ \A i \in DOMAIN calls : calls[i].node \in Open
      /\ DOMAIN calls = 1..Len(calls) /\ Len(calls) \in Nat
  BY <1>1, StackFacts
<1>3. Len(calls) \in DOMAIN calls
  <2>1. calls \in Seq([node: net.blocks, left: SUBSET net.blocks])
    BY <1>1 DEF VisitTypeOK
  <2> QED
    BY <2>1, LastOfSeq
<1>4. PICK i \in DOMAIN calls : x = calls[i].node
  BY DEF Open
<1>5. ~(i < Len(calls))
  <2> SUFFICES ASSUME i < Len(calls) PROVE FALSE
    OBVIOUS
  <2>1. indices[x] < indices[Visitor.node]
    BY <1>1, <1>3, <1>4 DEF AreNumbered, Visitor
  <2> QED
    BY <1>2, <1>3, <2>1 DEF Top, Visitor
<1>6. i = Len(calls)
  BY <1>2, <1>5
<1> QED
  BY <1>4, <1>6 DEF Visitor

\* At a root the top of the stack leads to itself and to components, and each of its nodes
\* to every other: a component.
LEMMA TopIsAComponent ==
  ASSUME VisitInv, calls # << >>, Visitor.left = {},
         lowlink[Visitor.node] = indices[Visitor.node]
  PROVE  /\ \A x \in Top(Visitor.node) : \A y : <<x, y>> \in net.edges => y \in Top(Visitor.node) \cup Done
         /\ \A x, y \in Top(Visitor.node) : Leads(x, y)
<1> DEFINE node == Visitor.node
           k    == Len(calls)
<1>1. VisitTypeOK /\ AreNumbered /\ AreFiled /\ PartsInv
      /\ OpenLeadUp /\ StackLeadsDown /\ LowlinksAreReached /\ LowlinksAreLow /\ IsNet(net)
  BY DEF VisitInv, VisitTypeOK
<1>2. /\ On \subseteq Met /\ Open \subseteq On /\ Met \subseteq net.blocks
      /\ \A x \in Met : indices[x] \in Nat /\ lowlink[x] \in Nat
      /\ \A i \in DOMAIN calls : calls[i].node \in Open
      /\ \A i, j \in DOMAIN calls : calls[i].node = calls[j].node => i = j
      /\ DOMAIN calls = 1..k /\ k \in Nat
  BY <1>1, StackFacts
<1>3. k \in DOMAIN calls /\ node = calls[k].node /\ calls[k].left = {}
  <2>1. calls \in Seq([node: net.blocks, left: SUBSET net.blocks])
    BY <1>1 DEF VisitTypeOK
  <2> QED
    BY <2>1, LastOfSeq DEF Visitor
<1>4. node \in Open /\ node \in Top(node)
  BY <1>2, <1>3 DEF Top
<1>5. ASSUME NEW x \in Top(node), NEW y, <<x, y>> \in net.edges PROVE y \in Top(node) \cup Done
  <2>1. \A i \in DOMAIN calls : calls[i].node = x => i = k
    BY <1>2, <1>3, OpenAtTheTop
  <2>2. IsFollowed(x, y)
    BY <1>3, <1>5, <2>1 DEF IsFollowed
  <2>3. x \in On /\ x \in Met /\ y \in net.blocks
    BY <1>1, <1>2, <1>5, EdgesLead DEF Top
  <2>4. y \in On \cup Done
    BY <1>1, <2>2, <2>3 DEF AreFiled
  <2>5. ASSUME y \in On PROVE y \in Top(node)
    <3>1. Owns(k, x)
      BY <1>2, <1>3 DEF Owns, Top
    <3>2. lowlink[node] <= indices[y]
      BY <1>1, <1>3, <2>2, <2>3, <2>5, <3>1 DEF LowlinksAreLow
    <3> QED
      BY <2>5, <3>2 DEF Top
  <2> QED
    BY <2>4, <2>5
<1> DEFINE S == Top(node) \cup Done
<1>6. S \subseteq net.blocks
  BY <1>1, <1>2 DEF Top, AreFiled
<1>7. IsClosed(S)
  <2> SUFFICES ASSUME NEW e \in net.edges, e[1] \in S PROVE e[2] \in S
    BY DEF IsClosed
  <2>1. e = <<e[1], e[2]>> /\ e[2] \in net.blocks
    BY <1>1 DEF IsNet
  <2>2. CASE e[1] \in Top(node)
    BY <1>5, <2>1, <2>2
  <2>3. CASE e[1] \in Done
    <3>1. PICK c \in DOMAIN components : e[1] \in components[c]
      BY <2>3 DEF Done
    <3>2. PICK d \in 1..c : e[2] \in components[d]
      BY <1>1, <2>1, <3>1 DEF PartsInv, ComponentsAreOrdered
    <3>3. d \in DOMAIN components
      BY <1>1, <3>1, <3>2 DEF VisitTypeOK
    <3> QED
      BY <3>2, <3>3 DEF Done
  <2> QED
    BY <2>2, <2>3
<1> HIDE DEF node, S
<1>8. ASSUME NEW x \in Top(node) PROVE Leads(x, node)
  <2>1. Targets(x) \subseteq S
    BY <1>5 DEF S, Targets
  <2>2. Downstream(x) \subseteq S
    BY <1>6, <1>7, <2>1, DownstreamIsLeast
  <2>3. PICK y \in Open : Leads(x, y)
    BY <1>1 DEF StackLeadsDown, Top
  <2>4. y \in S
    BY <2>2, <2>3 DEF Leads, S
  <2>5. y \in Top(node)
    BY <1>1, <1>2, <2>4 DEF S, AreFiled
  <2>6. y = node
    BY <2>5, OpenAtTheTop DEF node
  <2> QED
    BY <2>3, <2>6
<1>9. ASSUME NEW y \in Top(node) PROVE Leads(node, y)
  BY <1>1, <1>4 DEF OpenLeadUp, Top
<1>10. \A x, y \in Top(node) : Leads(x, y)
  BY <1>1, <1>8, <1>9, LeadsIsTransitive
<1> QED
  BY <1>5, <1>10 DEF node

\* What ends leaves the rest of the calls in order.
LEMMA CallsLeft ==
  ASSUME VisitInv, EndVisit
  PROVE  LET k == Len(calls) IN
         /\ \A i, j \in DOMAIN calls' : i < j => indices'[calls'[i].node] < indices'[calls'[j].node]
         /\ \A i \in DOMAIN calls' :
               /\ calls'[i].left \subseteq Targets(calls'[i].node)
               /\ i < Len(calls') => calls'[i + 1].node \in calls'[i].left
         /\ k > 1 => /\ calls[k - 1].node \in Open' /\ indices[calls[k - 1].node] < indices[calls[k].node]
                     /\ Leads(calls[k - 1].node, calls[k].node)
         /\ \A i \in 1..(k - 1) : i # k - 1 =>
               /\ calls[i].node # calls[k - 1].node
               /\ indices[calls[i + 1].node] <= indices[calls[k - 1].node]
<1>0. PICK k : k = Len(calls)
  OBVIOUS
<1> DEFINE node == calls[k].node
<1>1. /\ k \in Nat \ {0} /\ DOMAIN calls = 1..k /\ Len(calls') = k - 1 /\ DOMAIN calls' = 1..(k - 1)
      /\ \A i \in 1..(k - 1) :
            /\ calls'[i].node = calls[i].node
            /\ calls'[i].left = IF i = k - 1 THEN calls[i].left \ {node} ELSE calls[i].left
      /\ UNCHANGED <<net, indices>>
  BY <1>0, EndedCalls
<1>2. VisitTypeOK /\ AreNumbered /\ AreFiled
  BY DEF VisitInv
<1>3. /\ On \subseteq Met /\ Open \subseteq On /\ \A x \in Met : indices[x] \in Nat
      /\ \A i \in DOMAIN calls : calls[i].node \in Open
      /\ \A i, j \in DOMAIN calls : calls[i].node = calls[j].node => i = j
  BY <1>2, StackFacts
<1>4. \A i, j \in 1..k : i < j => indices[calls[i].node] < indices[calls[j].node]
  BY <1>1, <1>2 DEF AreNumbered
<1>5. \A i, j \in DOMAIN calls' : i < j => indices'[calls'[i].node] < indices'[calls'[j].node]
  <2>1. \A i \in 1..(k - 1) : i \in 1..k
    BY <1>1
  <2> QED
    BY <1>1, <1>4, <2>1
<1>6. ASSUME NEW i \in 1..(k - 1)
      PROVE  /\ calls'[i].left \subseteq Targets(calls'[i].node)
             /\ i < k - 1 => calls'[i + 1].node \in calls'[i].left
  <2>1. /\ i \in DOMAIN calls /\ i < k /\ i + 1 \in 1..k
    BY <1>1
  <2>2. calls[i].left \subseteq Targets(calls[i].node) /\ calls[i + 1].node \in calls[i].left
    BY <1>0, <1>2, <2>1 DEF AreFiled
  <2>3. calls'[i].left \subseteq calls[i].left
    BY <1>1
  <2>4. ASSUME i < k - 1 PROVE calls'[i].left = calls[i].left /\ calls'[i + 1].node = calls[i + 1].node
    <3>1. i # k - 1 /\ i + 1 \in 1..(k - 1)
      BY <1>1, <2>4
    <3> QED
      BY <1>1, <3>1
  <2> QED
    BY <1>1, <2>2, <2>3, <2>4
<1>7. ASSUME k > 1
      PROVE  /\ calls[k - 1].node \in Open' /\ indices[calls[k - 1].node] < indices[node]
             /\ Leads(calls[k - 1].node, node)
  <2>1. k - 1 \in 1..(k - 1) /\ k - 1 \in 1..k /\ k \in 1..k /\ k - 1 < k /\ (k - 1) + 1 = k
    BY <1>1, <1>7
  <2>2. calls[k - 1].node \in Open'
    BY <1>1, <2>1 DEF Open
  <2>3. node \in Targets(calls[k - 1].node)
    BY <1>0, <1>1, <1>2, <2>1 DEF AreFiled
  <2>4. Leads(calls[k - 1].node, node)
    BY <1>2, <2>3, EdgesLead DEF Targets, VisitTypeOK
  <2> QED
    BY <1>4, <2>1, <2>2, <2>4
<1>8. ASSUME NEW i \in 1..(k - 1), i # k - 1
      PROVE  /\ calls[i].node # calls[k - 1].node
             /\ indices[calls[i + 1].node] <= indices[calls[k - 1].node]
  <2>1. i \in 1..k /\ k - 1 \in 1..k /\ i + 1 \in 1..k /\ (i + 1 = k - 1 \/ i + 1 < k - 1)
    BY <1>1, <1>8
  <2>2. calls[i].node # calls[k - 1].node
    BY <1>1, <1>3, <1>8, <2>1
  <2>3. indices[calls[i + 1].node] \in Nat /\ indices[calls[k - 1].node] \in Nat
    BY <1>1, <1>3, <2>1
  <2> QED
    BY <1>4, <2>1, <2>2, <2>3
<1> QED
  BY <1>0, <1>1, <1>5, <1>6, <1>7, <1>8

LEMMA TakenOff ==
  ASSUME VisitInv, EndVisit, lowlink[Visitor.node] = indices[Visitor.node]
  PROVE  /\ stack' \in Seq(net.blocks) /\ DOMAIN stack' \subseteq DOMAIN stack
         /\ \A i \in DOMAIN stack' : stack'[i] = stack[i]
         /\ On' = On \ Top(Visitor.node)
         /\ components' = Append(components, Top(Visitor.node))
<1> DEFINE node == Visitor.node
           from == CHOOSE i \in DOMAIN stack : stack[i] = node
           last == Len(stack)
<1>1. VisitTypeOK /\ AreNumbered /\ AreFiled
  BY DEF VisitInv
<1>2. /\ On \subseteq Met /\ Open \subseteq On /\ \A x \in Met : indices[x] \in Nat
      /\ DOMAIN stack = 1..last /\ last \in Nat /\ stack \in Seq(net.blocks)
  BY <1>1, StackFacts DEF VisitTypeOK
<1>3. node \in Open
  BY EndedCalls DEF Visitor
<1>4. from \in 1..last /\ stack[from] = node
  BY <1>2, <1>3 DEF On
<1>5. /\ stack' = SubSeq(stack, 1, from - 1)
      /\ components' = Append(components, {stack[i] : i \in from..Len(stack)})
  BY DEF EndVisit
<1> HIDE DEF from, last
<1>6. \A i \in 1..last : stack[i] \in On /\ stack[i] \in Met
  BY <1>2 DEF On
<1>7. \A i, j \in 1..last : i < j => indices[stack[i]] < indices[stack[j]]
  BY <1>1, <1>2 DEF AreNumbered
<1>8. \A i \in 1..last : indices[node] <= indices[stack[i]] <=> from <= i
  <2> TAKE i \in 1..last
  <2>1. indices[stack[i]] \in Nat /\ indices[node] \in Nat /\ i \in Nat /\ from \in Nat
    BY <1>2, <1>4, <1>6
  <2>2. i < from => indices[stack[i]] < indices[node]
    BY <1>4, <1>7
  <2>3. from < i => indices[node] < indices[stack[i]]
    BY <1>4, <1>7
  <2>4. i = from => indices[node] = indices[stack[i]]
    BY <1>4
  <2> QED
    BY <2>1, <2>2, <2>3, <2>4
<1>9. {stack[i] : i \in from..last} = Top(node)
  <2>1. \A i \in from..last : i \in 1..last /\ from <= i
    BY <1>2, <1>4
  <2>2. \A i \in 1..last : from <= i => i \in from..last
    BY <1>2, <1>4
  <2> QED
    BY <1>2, <1>8, <2>1, <2>2 DEF Top, On
<1>10. /\ stack' \in Seq(net.blocks) /\ DOMAIN stack' = 1..(from - 1)
       /\ \A i \in 1..(from - 1) : stack'[i] = stack[i]
  <2>1. PICK n \in 0..Len(stack) : n = from - 1
    BY <1>2, <1>4 DEF last
  <2>2. stack' = SubSeq(stack, 1, n) /\ stack \in Seq(net.blocks)
    BY <1>2, <1>5, <2>1
  <2>3. /\ stack' \in Seq(net.blocks) /\ DOMAIN stack' = 1..n
        /\ \A i \in 1..n : stack'[i] = stack[i]
    <3>1. PICK s, t, B : s = stack /\ t = stack' /\ B = net.blocks
      OBVIOUS
    <3>2. s \in Seq(B) /\ n \in 0..Len(s) /\ t = SubSeq(s, 1, n)
      BY <2>1, <2>2, <3>1
    <3>3. t \in Seq(B) /\ DOMAIN t = 1..n /\ \A i \in 1..n : t[i] = s[i]
      BY <3>2, HeadOfSeq
    <3> QED
      BY <3>1, <3>3
  <2> QED
    BY <2>1, <2>3
<1>11. \A i \in 1..(from - 1) : i \in 1..last /\ ~(from <= i)
  BY <1>2, <1>4
<1>12. \A i \in 1..last : from <= i \/ i \in 1..(from - 1)
  BY <1>2, <1>4
<1>13. On' = On \ Top(node)
  <2>1. On' = {stack[i] : i \in 1..(from - 1)}
    BY <1>10 DEF On
  <2>2. \A x : x \in On <=> \E i \in 1..last : x = stack[i]
    BY <1>2 DEF On
  <2>3. \A i \in 1..last : stack[i] \in Top(node) <=> from <= i
    BY <1>6, <1>8 DEF Top
  <2> QED
    BY <1>11, <1>12, <2>1, <2>2, <2>3
<1> QED
  BY <1>2, <1>5, <1>9, <1>10, <1>11, <1>13 DEF last

LEMMA NumbersLeft ==
  ASSUME VisitInv, EndVisit, DOMAIN stack' \subseteq DOMAIN stack,
         \A i \in DOMAIN stack' : stack'[i] = stack[i]
  PROVE  AreNumbered'
<1>1. AreNumbered /\ Met' = Met /\ indices' = indices
  BY DEF VisitInv, EndVisit, Met
<1>2. \A i, j \in DOMAIN calls' : i < j => indices'[calls'[i].node] < indices'[calls'[j].node]
  BY CallsLeft
<1> QED
  BY <1>1, <1>2 DEF AreNumbered

LEMMA RootStep ==
  ASSUME VisitInv, EndVisit, lowlink[Visitor.node] = indices[Visitor.node]
  PROVE  VisitInv'
<1>0. PICK k : k = Len(calls)
  OBVIOUS
<1> DEFINE node   == calls[k].node
           caller == calls[k - 1].node
<1>1. VisitTypeOK /\ AreNumbered /\ AreFiled /\ PartsInv
      /\ OpenLeadUp /\ StackLeadsDown /\ LowlinksAreReached /\ LowlinksAreLow /\ IsNet(net)
  BY DEF VisitInv, VisitTypeOK
<1>2. /\ On \subseteq Met /\ Open \subseteq On /\ Met \subseteq net.blocks
      /\ \A x \in Met : indices[x] \in Nat /\ lowlink[x] \in Nat
  BY <1>1, StackFacts
<1>3. /\ k \in Nat \ {0} /\ DOMAIN calls = 1..k /\ Len(calls') = k - 1 /\ DOMAIN calls' = 1..(k - 1)
      /\ calls' \in Seq([node: net.blocks, left: SUBSET net.blocks])
      /\ \A i \in 1..(k - 1) : calls'[i].node = calls[i].node
      /\ node \in Open /\ Open' = Open \ {node}
      /\ \A x, y : IsFollowed(x, y)' => IsFollowed(x, y) \/ (k > 1 /\ x = caller /\ y = node)
      /\ UNCHANGED <<net, indices>>
      /\ lowlink' \in [Met -> Nat]
      /\ \A x \in Met : k = 1 \/ x # caller => lowlink'[x] = lowlink[x]
      /\ k > 1 => /\ lowlink'[caller] <= lowlink[caller]
                  /\ lowlink'[caller] \in {lowlink[caller], lowlink[node]}
  BY <1>0, EndedCalls
<1>4. /\ \A i \in DOMAIN calls' :
            /\ calls'[i].left \subseteq Targets(calls'[i].node)
            /\ i < Len(calls') => calls'[i + 1].node \in calls'[i].left
      /\ k > 1 => caller \in Open' /\ indices[caller] < indices[node]
      /\ calls # << >> /\ Visitor.left = {} /\ Visitor.node = node
  BY <1>0, CallsLeft DEF EndVisit, Visitor
<1>5. /\ stack' \in Seq(net.blocks) /\ DOMAIN stack' \subseteq DOMAIN stack
      /\ \A i \in DOMAIN stack' : stack'[i] = stack[i]
      /\ On' = On \ Top(node) /\ components' = Append(components, Top(node))
  BY <1>4, TakenOff
<1>6. /\ \A x \in Top(node) : \A y : <<x, y>> \in net.edges => y \in Top(node) \cup Done
      /\ \A x, y \in Top(node) : Leads(x, y)
  BY <1>4, TopIsAComponent
<1>7. \A x : Targets(x)' = Targets(x) /\ \A y : Leads(x, y)' = Leads(x, y)
  BY <1>3, DownstreamKept
<1>8. Met' = Met
  BY <1>3 DEF Met
<1> HIDE DEF node, caller
<1>9. node \in Top(node) /\ Top(node) \in SUBSET net.blocks
  BY <1>2, <1>3 DEF Top
<1>10. /\ components \in Seq(SUBSET net.blocks) /\ Len(components) \in Nat
       /\ components' \in Seq(SUBSET net.blocks)
       /\ DOMAIN components = 1..Len(components)
       /\ DOMAIN components' = 1..(Len(components) + 1)
       /\ components'[Len(components) + 1] = Top(node)
       /\ \A c \in 1..Len(components) : components'[c] = components[c]
  <2>1. components \in Seq(SUBSET net.blocks)
    BY <1>1 DEF VisitTypeOK
  <2> HIDE DEF Top
  <2> QED
    BY <1>5, <1>9, <2>1
<1>11. \A c \in DOMAIN components' :
          \/ c \in DOMAIN components /\ components'[c] = components[c]
          \/ c = Len(components) + 1 /\ components'[c] = Top(node)
  BY <1>10
<1>12. VisitTypeOK'
  BY <1>1, <1>3, <1>5, <1>8, <1>10 DEF VisitTypeOK, Met
<1>13. AreNumbered'
  BY <1>5, NumbersLeft
<1>14. Done' = Done \cup Top(node)
  <2>1. \A c \in DOMAIN components : c \in DOMAIN components'
    BY <1>10
  <2>2. Len(components) + 1 \in DOMAIN components'
    BY <1>10
  <2> QED
    BY <1>10, <1>11, <2>1, <2>2 DEF Done
<1>15. \A x \in On' : x \in On /\ x \in Met /\ indices[x] < indices[node]
  BY <1>2, <1>3, <1>5 DEF Top
<1>16. Open' \subseteq On'
  <2> SUFFICES ASSUME NEW x \in Open' PROVE x \in On'
    OBVIOUS
  <2>1. x \in Open /\ x # node
    BY <1>3
  <2>2. x \notin Top(node)
    BY <1>4, <2>1, OpenAtTheTop
  <2> QED
    BY <1>2, <1>5, <2>1, <2>2
<1>17. AreFiled'
  <2>1. Top(node) \subseteq On /\ Met = On \cup Done /\ On \cap Done = {}
    BY <1>1 DEF Top, AreFiled
  <2>2. Met' = On' \cup Done' /\ On' \cap Done' = {}
    BY <1>5, <1>8, <1>14, <2>1
  <2>3. \A x \in Met', y \in net'.blocks : IsFollowed(x, y)' => y \in Met'
    BY <1>1, <1>2, <1>3, <1>8 DEF AreFiled
  <2> QED
    BY <1>3, <1>4, <1>16, <2>2, <2>3 DEF AreFiled, Targets
<1>18. PartsInv'
  <2>1. Top(node) \cap Done = {}
    BY <1>1 DEF Top, AreFiled
  <2>2. ComponentsAreApart'
    <3>1. \A c \in DOMAIN components : components[c] \subseteq Done
      BY DEF Done
    <3> QED
      BY <1>1, <1>9, <1>11, <2>1, <3>1 DEF PartsInv, ComponentsAreApart
  <2>3. ComponentsAreStrong'
    BY <1>1, <1>6, <1>7, <1>11 DEF PartsInv, ComponentsAreStrong
  <2>4. ASSUME NEW c \in DOMAIN components', NEW x \in components'[c], NEW y \in net.blocks,
               <<x, y>> \in net.edges
        PROVE  \E d \in 1..c : y \in components'[d]
    <3>1. CASE c \in DOMAIN components /\ components'[c] = components[c]
      <4>1. PICK d \in 1..c : y \in components[d]
        BY <1>1, <2>4, <3>1 DEF PartsInv, ComponentsAreOrdered
      <4>2. components'[d] = components[d]
        BY <1>10, <3>1, <4>1
      <4> QED
        BY <4>1, <4>2
    <3>2. CASE c = Len(components) + 1 /\ components'[c] = Top(node)
      <4>1. y \in Top(node) \/ y \in Done
        BY <1>6, <2>4, <3>2
      <4>2. c \in 1..c /\ \A d \in DOMAIN components : d \in 1..c
        BY <1>10, <3>2
      <4> QED
        BY <1>10, <3>2, <4>1, <4>2 DEF Done
    <3> QED
      BY <1>11, <3>1, <3>2
  <2>5. ComponentsAreOrdered'
    BY <1>3, <2>4 DEF ComponentsAreOrdered
  <2> QED
    BY <2>2, <2>3, <2>5 DEF PartsInv
<1>19. OpenLeadUp'
  BY <1>1, <1>3, <1>5, <1>7 DEF OpenLeadUp
<1>20. StackLeadsDown'
  <2> SUFFICES ASSUME NEW x \in On'
               PROVE  \E y \in Open' : indices[y] <= indices[x] /\ Leads(x, y)
    BY <1>3, <1>7 DEF StackLeadsDown
  <2>1. x \in On /\ indices[x] < indices[node] /\ x \in Met
    BY <1>15
  <2>2. PICK y \in Open : indices[y] <= indices[x] /\ Leads(x, y)
    BY <1>1, <2>1 DEF StackLeadsDown
  <2>3. indices[y] \in Nat /\ indices[x] \in Nat /\ indices[node] \in Nat
    BY <1>2, <1>3, <2>1, <2>2
  <2>4. y # node
    BY <2>1, <2>2, <2>3
  <2> QED
    BY <1>3, <2>2, <2>4
\* The caller keeps its lowlink: the root's number is above it.
<1>21. \A x \in Open' : lowlink'[x] = lowlink[x]
  <2> SUFFICES ASSUME NEW x \in Open', lowlink'[x] # lowlink[x] PROVE FALSE
    OBVIOUS
  <2>1. x \in Met /\ x \in Open /\ node \in Met
    BY <1>2, <1>3
  <2>2. k > 1 /\ x = caller /\ lowlink'[x] = lowlink[node] /\ lowlink[node] <= lowlink[x]
    BY <1>3, <2>1
  <2>3. lowlink[node] = indices[node] /\ indices[x] < indices[node]
    BY <1>4, <2>2
  <2>4. PICK y \in On : lowlink[x] = indices[y] /\ indices[y] <= indices[x]
    BY <1>1, <2>1 DEF LowlinksAreReached
  <2>5. indices[x] \in Nat /\ indices[y] \in Nat /\ indices[node] \in Nat
    BY <1>2, <2>1, <2>4
  <2> QED
    BY <2>2, <2>3, <2>4, <2>5
<1>22. LowlinksAreReached'
  <2> SUFFICES ASSUME NEW x \in Open'
               PROVE  \E y \in On' : lowlink[x] = indices[y] /\ indices[y] <= indices[x] /\ Leads(x, y)
    BY <1>3, <1>7, <1>21 DEF LowlinksAreReached
  <2>1. PICK y \in On : lowlink[x] = indices[y] /\ indices[y] <= indices[x] /\ Leads(x, y)
    BY <1>1, <1>3 DEF LowlinksAreReached
  <2>2. x \in On' /\ indices[x] < indices[node] /\ x \in Met /\ y \in Met /\ node \in Met
    BY <1>2, <1>3, <1>15, <1>16
  <2>3. indices[x] \in Nat /\ indices[y] \in Nat /\ indices[node] \in Nat
    BY <1>2, <2>2
  <2>4. ~(indices[node] <= indices[y])
    BY <2>1, <2>2, <2>3
  <2>5. y \in On'
    BY <1>5, <2>4 DEF Top
  <2> QED
    BY <2>1, <2>5
<1>23. LowlinksAreLow'
  <2> SUFFICES ASSUME NEW i \in DOMAIN calls', NEW x \in On', NEW y \in On',
                      Owns(i, x)', IsFollowed(x, y)'
               PROVE  lowlink'[calls'[i].node] <= indices'[y]
    BY DEF LowlinksAreLow
  <2>1. x \in On /\ y \in On /\ indices[x] < indices[node] /\ y # node
    <3>1. node \notin On'
      BY <1>5, <1>9
    <3> QED
      BY <1>15, <3>1
  <2>2. IsFollowed(x, y)
    BY <1>3, <2>1
  <2>3. i \in 1..(k - 1) /\ i \in DOMAIN calls /\ calls'[i].node = calls[i].node
    BY <1>3
  <2>4. Owns(i, x)
    <3>1. indices[calls[i].node] <= indices[x]
      BY <1>3, <2>3 DEF Owns
    <3>2. CASE i = k - 1
      BY <1>0, <1>3, <2>1, <3>1, <3>2 DEF Owns, node
    <3>3. CASE i < k - 1
      <4>1. i + 1 \in 1..(k - 1)
        BY <1>3, <2>3, <3>3
      <4>2. indices[x] < indices[calls[i + 1].node]
        BY <1>3, <3>3, <4>1 DEF Owns
      <4> QED
        BY <1>0, <3>1, <4>2 DEF Owns
    <3> QED
      BY <1>3, <2>3, <3>2, <3>3
  <2>5. lowlink[calls[i].node] <= indices[y]
    BY <1>1, <2>1, <2>2, <2>3, <2>4 DEF LowlinksAreLow
  <2>6. calls[i].node \in Open'
    BY <1>3, <2>3 DEF Open
  <2> QED
    BY <1>3, <1>21, <2>3, <2>5, <2>6
<1> QED
  BY <1>12, <1>13, <1>17, <1>18, <1>19, <1>20, <1>22, <1>23 DEF VisitInv

LEMMA LinkedStep ==
  ASSUME VisitInv, EndVisit, lowlink[Visitor.node] # indices[Visitor.node]
  PROVE  VisitInv'
<1>0. PICK k : k = Len(calls)
  OBVIOUS
<1> DEFINE node   == calls[k].node
           caller == calls[k - 1].node
<1>1. VisitTypeOK /\ AreNumbered /\ AreFiled /\ PartsInv
      /\ OpenLeadUp /\ StackLeadsDown /\ LowlinksAreReached /\ LowlinksAreLow /\ IsNet(net)
  BY DEF VisitInv, VisitTypeOK
<1>2. /\ On \subseteq Met /\ Open \subseteq On /\ Met \subseteq net.blocks
      /\ \A x \in Met : indices[x] \in Nat /\ lowlink[x] \in Nat
      /\ \A i \in DOMAIN calls : calls[i].node \in Open
  BY <1>1, StackFacts
<1>3. /\ k \in Nat \ {0} /\ DOMAIN calls = 1..k /\ Len(calls') = k - 1 /\ DOMAIN calls' = 1..(k - 1)
      /\ calls' \in Seq([node: net.blocks, left: SUBSET net.blocks])
      /\ \A i \in 1..(k - 1) : calls'[i].node = calls[i].node
      /\ node \in Open /\ Open' = Open \ {node}
      /\ \A x, y : IsFollowed(x, y)' => IsFollowed(x, y) \/ (k > 1 /\ x = caller /\ y = node)
      /\ UNCHANGED <<net, indices>>
      /\ lowlink' \in [Met -> Nat]
      /\ \A x \in Met : k = 1 \/ x # caller => lowlink'[x] = lowlink[x]
      /\ k > 1 => /\ lowlink'[caller] <= lowlink[caller] /\ lowlink'[caller] <= lowlink[node]
                  /\ lowlink'[caller] \in {lowlink[caller], lowlink[node]}
  BY <1>0, EndedCalls
<1>4. /\ \A i \in DOMAIN calls' :
            /\ calls'[i].left \subseteq Targets(calls'[i].node)
            /\ i < Len(calls') => calls'[i + 1].node \in calls'[i].left
      /\ k > 1 => caller \in Open' /\ indices[caller] < indices[node] /\ Leads(caller, node)
      /\ \A i \in 1..(k - 1) : i # k - 1 =>
            /\ calls[i].node # caller
            /\ indices[calls[i + 1].node] <= indices[caller]
      /\ calls # << >> /\ Visitor.node = node
  BY <1>0, CallsLeft DEF EndVisit, Visitor
<1>5. UNCHANGED <<stack, components>> /\ On' = On /\ Done' = Done /\ Met' = Met
  BY <1>3 DEF EndVisit, On, Done, Met
<1>6. \A x : Targets(x)' = Targets(x) /\ \A y : Leads(x, y)' = Leads(x, y)
  BY <1>3, DownstreamKept
<1> HIDE DEF node, caller
\* The node leads down to one that is being visited still, so there is a caller.
<1>7. PICK low \in On : /\ lowlink[node] = indices[low] /\ indices[low] < indices[node]
                        /\ Leads(node, low)
  <2>1. PICK y \in On : lowlink[node] = indices[y] /\ indices[y] <= indices[node] /\ Leads(node, y)
    BY <1>1, <1>3 DEF LowlinksAreReached
  <2>2. indices[y] \in Nat /\ indices[node] \in Nat /\ indices[y] # indices[node]
    BY <1>2, <1>3, <1>4, <2>1
  <2> QED
    BY <2>1, <2>2
<1>8. PICK down \in Open' : indices[down] <= indices[low] /\ Leads(low, down)
  <2>1. PICK y \in Open : indices[y] <= indices[low] /\ Leads(low, y)
    BY <1>1 DEF StackLeadsDown
  <2>2. indices[y] \in Nat /\ indices[low] \in Nat /\ indices[node] \in Nat
    BY <1>2, <1>3, <2>1
  <2>3. y # node
    BY <1>7, <2>1, <2>2
  <2> QED
    BY <1>3, <2>1, <2>3
<1>9. k > 1
  <2>1. PICK i \in 1..(k - 1) : down = calls'[i].node
    BY <1>3 DEF Open
  <2> QED
    BY <1>3, <2>1
<1>10. VisitTypeOK'
  BY <1>1, <1>3, <1>5 DEF VisitTypeOK, Met
<1>11. AreNumbered'
  BY <1>5, NumbersLeft
<1>12. AreFiled'
  <2>1. \A x \in Met', y \in net'.blocks : IsFollowed(x, y)' => y \in Met'
    BY <1>1, <1>2, <1>3, <1>5 DEF AreFiled
  <2>2. Met' = On' \cup Done' /\ On' \cap Done' = {} /\ Open' \subseteq On'
    BY <1>1, <1>3, <1>5 DEF AreFiled
  <2> QED
    BY <1>3, <1>4, <2>1, <2>2 DEF AreFiled, Targets
<1>13. PartsInv'
  BY <1>1, <1>3, <1>5, PartsKept
<1>14. OpenLeadUp'
  BY <1>1, <1>3, <1>5, <1>6 DEF OpenLeadUp
<1>15. StackLeadsDown'
  <2> SUFFICES ASSUME NEW x \in On
               PROVE  \E y \in Open' : indices[y] <= indices[x] /\ Leads(x, y)
    BY <1>3, <1>5, <1>6 DEF StackLeadsDown
  <2>1. PICK y \in Open : indices[y] <= indices[x] /\ Leads(x, y)
    BY <1>1 DEF StackLeadsDown
  <2>2. CASE y # node
    BY <1>3, <2>1, <2>2
  <2>3. CASE y = node
    <3>1. Leads(x, down)
      BY <1>1, <1>7, <1>8, <2>1, <2>3, LeadsIsTransitive
    <3>2. down \in Met /\ low \in Met /\ node \in Met /\ x \in Met
      BY <1>2, <1>3, <1>8
    <3>3. indices[down] <= indices[x]
      BY <1>2, <1>7, <1>8, <2>1, <2>3, <3>2
    <3> QED
      BY <3>1, <3>3
  <2> QED
    BY <2>2, <2>3
<1>16. LowlinksAreReached'
  <2> SUFFICES ASSUME NEW x \in Open'
               PROVE  \E y \in On : lowlink'[x] = indices[y] /\ indices[y] <= indices[x] /\ Leads(x, y)
    BY <1>3, <1>5, <1>6 DEF LowlinksAreReached
  <2>1. x \in Open /\ x \in Met
    BY <1>2, <1>3
  <2>2. PICK y \in On : lowlink[x] = indices[y] /\ indices[y] <= indices[x] /\ Leads(x, y)
    BY <1>1, <2>1 DEF LowlinksAreReached
  <2>3. CASE lowlink'[x] = lowlink[x]
    BY <2>2, <2>3
  <2>4. CASE x = caller /\ lowlink'[x] = lowlink[node]
    <3>1. Leads(x, low)
      BY <1>1, <1>4, <1>7, <1>9, <2>4, LeadsIsTransitive
    <3>2. indices[low] \in Nat /\ indices[x] \in Nat /\ indices[y] \in Nat
      BY <1>2, <2>1
    <3>3. indices[low] <= indices[x]
      BY <1>3, <1>7, <1>9, <2>2, <2>4, <3>2
    <3> QED
      BY <1>7, <2>4, <3>1, <3>3
  <2> QED
    BY <1>3, <1>9, <2>1, <2>3, <2>4
<1>17. LowlinksAreLow'
  <2> SUFFICES ASSUME NEW i \in DOMAIN calls', NEW x \in On', NEW y \in On',
                      Owns(i, x)', IsFollowed(x, y)'
               PROVE  lowlink'[calls'[i].node] <= indices'[y]
    BY DEF LowlinksAreLow
  <2>1. /\ i \in 1..(k - 1) /\ i \in DOMAIN calls /\ calls'[i].node = calls[i].node
        /\ x \in On /\ y \in On /\ indices' = indices
    BY <1>3, <1>5
  <2>2. /\ calls[i].node \in Met /\ x \in Met /\ y \in Met /\ caller \in Met /\ node \in Met
        /\ lowlink'[caller] \in Nat
    BY <1>2, <1>3, <1>4, <1>9, <2>1
  <2>3. indices[calls[i].node] <= indices[x]
    BY <2>1 DEF Owns
  <2>4. IsFollowed(x, y) \/ (x = caller /\ y = node)
    BY <1>3
  <2>5. CASE i # k - 1
    <3>1. calls[i].node # caller /\ indices[calls[i + 1].node] <= indices[caller]
      BY <1>4, <2>1, <2>5
    <3>2. i < k - 1 /\ i + 1 \in 1..(k - 1) /\ i + 1 \in DOMAIN calls /\ i < Len(calls)
      BY <1>0, <1>3, <2>1, <2>5
    <3>3. indices[x] < indices[calls[i + 1].node]
      BY <1>3, <2>1, <3>2 DEF Owns
    <3>4. Owns(i, x)
      BY <2>3, <3>3 DEF Owns
    <3>5. calls[i + 1].node \in Met
      BY <1>2, <3>2
    <3>6. x # caller
      BY <1>2, <2>2, <3>1, <3>3, <3>5
    <3>7. lowlink[calls[i].node] <= indices[y]
      BY <1>1, <2>1, <2>4, <3>4, <3>6 DEF LowlinksAreLow
    <3> QED
      BY <1>3, <2>1, <2>2, <3>1, <3>7
  <2>6. CASE i = k - 1
    <3>0. calls[i].node = caller
      BY <2>6 DEF caller
    <3>1. CASE x = caller /\ y = node
      <4>1. lowlink'[caller] <= lowlink[node] /\ lowlink[node] = indices[low] /\ indices[low] < indices[node]
        BY <1>3, <1>7, <1>9
      <4>2. indices[low] \in Nat /\ indices[node] \in Nat
        BY <1>2, <2>2
      <4> QED
        BY <2>1, <2>2, <3>0, <3>1, <4>1, <4>2
    <3>2. CASE IsFollowed(x, y) /\ indices[x] < indices[node]
      <4>1. Owns(i, x)
        BY <1>3, <2>1, <2>3, <2>6, <3>2 DEF Owns, node
      <4>2. lowlink[caller] <= indices[y]
        BY <1>1, <2>1, <3>0, <3>2, <4>1 DEF LowlinksAreLow
      <4> QED
        BY <1>2, <1>3, <1>9, <2>1, <2>2, <3>0, <4>2
    <3>3. CASE IsFollowed(x, y) /\ indices[node] <= indices[x]
      <4>1. k \in DOMAIN calls /\ Owns(k, x)
        BY <1>0, <1>3, <3>3 DEF Owns, node
      <4>2. lowlink[node] <= indices[y]
        BY <1>1, <2>1, <3>3, <4>1 DEF LowlinksAreLow, node
      <4> QED
        BY <1>2, <1>3, <1>9, <2>1, <2>2, <3>0, <4>2
    <3> QED
      BY <1>2, <2>2, <2>4, <3>1, <3>2, <3>3
  <2> QED
    BY <2>5, <2>6
<1> QED
  BY <1>10, <1>11, <1>12, <1>13, <1>14, <1>15, <1>16, <1>17 DEF VisitInv

LEMMA EndVisitStep == VisitInv /\ EndVisit => VisitInv'
  BY RootStep, LinkedStep


(***************************************************************************)
(* The components of a visited diagram                                     *)
(***************************************************************************)
LEMMA CondensedFacts ==
  ASSUME IsNet(net), IsCondensed
  PROVE  /\ DOMAIN components = 1..Len(components) /\ Len(components) \in Nat
         /\ IsFiniteSet(DOMAIN components) /\ IsFiniteSet(ComponentEdges)
         /\ \A c \in DOMAIN components : components[c] \subseteq net.blocks /\ components[c] # {}
         /\ \A b \in net.blocks : ComponentOf(b) \in DOMAIN components /\ b \in components[ComponentOf(b)]
         /\ \A c \in DOMAIN components : \A b \in components[c] : ComponentOf(b) = c
<1>1. components \in Seq(SUBSET net.blocks) /\ ComponentsAreApart
  BY DEF IsCondensed, PartsInv
<1>2. /\ DOMAIN components = 1..Len(components) /\ Len(components) \in Nat
      /\ \A c \in DOMAIN components : components[c] \subseteq net.blocks
  BY <1>1
<1>3. IsFiniteSet(DOMAIN components)
  BY <1>2, FS_Interval
<1>4. IsFiniteSet(ComponentEdges)
  <2>1. IsFiniteSet((DOMAIN components) \X (DOMAIN components))
    BY <1>3, FS_Product
  <2>2. ComponentEdges \subseteq (DOMAIN components) \X (DOMAIN components)
    BY DEF ComponentEdges
  <2> QED
    BY <2>1, <2>2, FS_Subset
<1>5. ASSUME NEW b \in net.blocks
      PROVE  ComponentOf(b) \in DOMAIN components /\ b \in components[ComponentOf(b)]
  BY DEF IsCondensed, ComponentOf
<1>6. ASSUME NEW c \in DOMAIN components, NEW b \in components[c] PROVE ComponentOf(b) = c
  <2>1. ComponentOf(b) \in DOMAIN components /\ b \in components[ComponentOf(b)]
    BY <1>2, <1>5
  <2> QED
    BY <1>1, <2>1 DEF ComponentsAreApart
<1>7. \A c \in DOMAIN components : components[c] # {}
  BY <1>1 DEF ComponentsAreApart
<1> QED
  BY <1>2, <1>3, <1>4, <1>5, <1>6, <1>7

\* A wire stays in a component or joins it to an earlier one, and what is joined so is led to.
LEMMA WiresJoin ==
  ASSUME IsNet(net), IsCondensed
  PROVE  /\ \A b, d : <<b, d>> \in net.edges =>
               \/ ComponentOf(b) = ComponentOf(d)
               \/ <<ComponentOf(b), ComponentOf(d)>> \in ComponentEdges
         /\ \A e \in ComponentEdges :
               /\ e = <<e[1], e[2]>> /\ e[1] \in DOMAIN components /\ e[2] \in DOMAIN components
               /\ e[2] < e[1]
               /\ \A b \in components[e[1]], d \in components[e[2]] : d \in Downstream(b)
<1>0. /\ DOMAIN components = 1..Len(components) /\ Len(components) \in Nat
      /\ \A c \in DOMAIN components : components[c] \subseteq net.blocks
      /\ \A b \in net.blocks : ComponentOf(b) \in DOMAIN components /\ b \in components[ComponentOf(b)]
      /\ \A c \in DOMAIN components : \A b \in components[c] : ComponentOf(b) = c
  BY CondensedFacts
<1>1. ASSUME NEW b, NEW d, <<b, d>> \in net.edges, ComponentOf(b) # ComponentOf(d)
      PROVE  <<ComponentOf(b), ComponentOf(d)>> \in ComponentEdges
  <2>1. b \in net.blocks /\ d \in net.blocks
    BY <1>1, EdgesLead
  <2> QED
    BY <1>0, <1>1, <2>1 DEF ComponentEdges
<1>2. ASSUME NEW e \in ComponentEdges
      PROVE  /\ e = <<e[1], e[2]>> /\ e[1] \in DOMAIN components /\ e[2] \in DOMAIN components
             /\ e[2] < e[1]
             /\ \A b \in components[e[1]], d \in components[e[2]] : d \in Downstream(b)
  <2>1. e = <<e[1], e[2]>> /\ e[1] \in DOMAIN components /\ e[2] \in DOMAIN components /\ e[1] # e[2]
    BY DEF ComponentEdges
  <2>2. PICK x \in components[e[1]], y \in components[e[2]] : <<x, y>> \in net.edges
    BY DEF ComponentEdges
  <2>3. e[2] < e[1]
    <3>1. ComponentsAreOrdered
      BY DEF IsCondensed, PartsInv
    <3>2. PICK c \in 1..e[1] : y \in components[c]
      BY <1>0, <2>1, <2>2, <3>1 DEF ComponentsAreOrdered
    <3>3. c \in DOMAIN components
      BY <1>0, <2>1, <3>2
    <3>4. c = e[2]
      BY <1>0, <2>1, <2>2, <3>2, <3>3
    <3> QED
      BY <1>0, <2>1, <3>2, <3>4
  <2>4. ASSUME NEW b \in components[e[1]], NEW d \in components[e[2]] PROVE d \in Downstream(b)
    <3>1. Leads(b, x) /\ Leads(y, d)
      BY <2>1, <2>2 DEF IsCondensed, PartsInv, ComponentsAreStrong
    <3>2. y \in Downstream(x)
      BY <2>2, EdgesLead
    <3> QED
      BY <3>1, <3>2, LeadsIsTransitive
  <2> QED
    BY <2>1, <2>3, <2>4
<1> QED
  BY <1>1, <1>2

\* What is downstream is in the same component or an earlier one; two blocks are in one
\* component when each leads to the other.
LEMMA DownstreamIsEarlier ==
  ASSUME IsNet(net), IsCondensed, NEW b \in net.blocks, NEW d \in Downstream(b)
  PROVE  d \in net.blocks /\ ComponentOf(d) <= ComponentOf(b)
<1> DEFINE S == {x \in net.blocks : ComponentOf(x) <= ComponentOf(b)}
<1>1. /\ DOMAIN components = 1..Len(components) /\ Len(components) \in Nat
      /\ \A x \in net.blocks : ComponentOf(x) \in DOMAIN components
  BY CondensedFacts
<1>2. ASSUME NEW x \in net.blocks, NEW y, <<x, y>> \in net.edges
      PROVE  y \in net.blocks /\ ComponentOf(y) <= ComponentOf(x)
  <2>1. y \in net.blocks
    BY <1>2, EdgesLead
  <2>2. \/ ComponentOf(x) = ComponentOf(y)
        \/ <<ComponentOf(x), ComponentOf(y)>> \in ComponentEdges
    BY <1>2, WiresJoin
  <2>3. <<ComponentOf(x), ComponentOf(y)>> \in ComponentEdges => ComponentOf(y) < ComponentOf(x)
    BY WiresJoin
  <2> QED
    BY <1>1, <2>1, <2>2, <2>3
<1>3. Targets(b) \subseteq S
  BY <1>2 DEF Targets
<1>4. IsClosed(S)
  <2> SUFFICES ASSUME NEW e \in net.edges, e[1] \in S PROVE e[2] \in S
    BY DEF IsClosed
  <2>1. e = <<e[1], e[2]>> /\ e[1] \in net.blocks
    BY DEF IsNet
  <2>2. e[2] \in net.blocks /\ ComponentOf(e[2]) <= ComponentOf(e[1])
    BY <1>2, <2>1
  <2> QED
    BY <1>1, <2>1, <2>2
<1>5. S \in SUBSET net.blocks
  OBVIOUS
<1>6. Downstream(b) \subseteq S
  <2> HIDE DEF S
  <2> QED
    BY <1>3, <1>4, <1>5, DownstreamIsLeast
<1> QED
  BY <1>6

LEMMA ComponentsAreMutual ==
  ASSUME IsNet(net), IsCondensed, NEW b \in net.blocks, NEW d \in net.blocks
  PROVE  ComponentOf(b) = ComponentOf(d) <=> b = d \/ (b \in Downstream(d) /\ d \in Downstream(b))
<1>1. /\ DOMAIN components = 1..Len(components) /\ Len(components) \in Nat
      /\ \A x \in net.blocks : ComponentOf(x) \in DOMAIN components /\ x \in components[ComponentOf(x)]
  BY CondensedFacts
<1>2. ASSUME ComponentOf(b) = ComponentOf(d)
      PROVE  b = d \/ (b \in Downstream(d) /\ d \in Downstream(b))
  <2>1. ComponentsAreStrong
    BY DEF IsCondensed, PartsInv
  <2> QED
    BY <1>1, <1>2, <2>1 DEF ComponentsAreStrong, Leads
<1>3. ASSUME b \in Downstream(d), d \in Downstream(b) PROVE ComponentOf(b) = ComponentOf(d)
  <2>1. ComponentOf(d) <= ComponentOf(b) /\ ComponentOf(b) <= ComponentOf(d)
    BY <1>3, DownstreamIsEarlier
  <2> QED
    BY <1>1, <2>1
<1> QED
  BY <1>2, <1>3

\* A looped component is one whose blocks are downstream of themselves.
LEMMA LoopsReturn ==
  ASSUME IsNet(net), IsCondensed, NEW c \in DOMAIN components, NEW b \in components[c]
  PROVE  IsLooped(c) <=> b \in Downstream(b)
<1>1. /\ \A a \in DOMAIN components : components[a] \subseteq net.blocks
      /\ \A x \in net.blocks : ComponentOf(x) \in DOMAIN components /\ x \in components[ComponentOf(x)]
      /\ \A a \in DOMAIN components : \A x \in components[a] : ComponentOf(x) = a
  BY CondensedFacts
<1>2. IsFiniteSet(components[c])
  BY <1>1, FS_Subset DEF IsNet
<1>3. ComponentsAreStrong
  BY DEF IsCondensed, PartsInv
<1>4. ASSUME Cardinality(components[c]) > 1 PROVE b \in Downstream(b)
  <2>1. components[c] # {b}
    BY <1>4, FS_Singleton
  <2>2. PICK d \in components[c] : d # b
    BY <2>1
  <2>3. d \in Downstream(b) /\ b \in Downstream(d)
    BY <1>3, <2>2 DEF ComponentsAreStrong, Leads
  <2> QED
    BY <2>3, DownstreamIsTransitive
<1>5. ASSUME NEW d \in components[c], <<d, d>> \in net.edges PROVE b \in Downstream(b)
  <2>1. Leads(b, d) /\ Leads(d, b)
    BY <1>3 DEF ComponentsAreStrong
  <2>2. d \in Downstream(d)
    BY <1>5, EdgesLead
  <2> QED
    BY <2>1, <2>2, LeadsIsTransitive
<1>6. ASSUME b \in Downstream(b), ~(Cardinality(components[c]) > 1) PROVE <<b, b>> \in net.edges
  <2>1. components[c] = {b}
    <3> SUFFICES ASSUME NEW d \in components[c], d # b PROVE FALSE
      OBVIOUS
    <3>1. IsFiniteSet({b}) /\ Cardinality({b}) = 1 /\ b \notin {d}
      BY FS_Singleton
    <3>2. IsFiniteSet({b, d}) /\ Cardinality({b, d}) = 2
      <4>1. Cardinality({b} \cup {d}) = Cardinality({b}) + 1
        BY <3>1, FS_AddElement
      <4>2. {b} \cup {d} = {b, d}
        OBVIOUS
      <4>3. IsFiniteSet({b, d})
        BY <1>2, FS_Subset
      <4> QED
        BY <3>1, <4>1, <4>2, <4>3
    <3>3. Cardinality({b, d}) <= Cardinality(components[c]) /\ Cardinality(components[c]) \in Nat
      BY <1>2, FS_Subset, FS_CardinalityType
    <3> QED
      BY <1>6, <3>2, <3>3
  <2>2. PICK t \in net.blocks : <<b, t>> \in net.edges /\ Leads(t, b)
    BY <1>6, FirstStep
  <2>3. t \in Downstream(b) /\ b \in net.blocks
    BY <2>2, EdgesLead
  <2>4. ComponentOf(t) = ComponentOf(b)
    BY <1>6, <2>2, <2>3, ComponentsAreMutual DEF Leads
  <2>5. t \in components[c]
    BY <1>1, <2>2, <2>4
  <2> QED
    BY <2>1, <2>2, <2>5
<1> QED
  BY <1>4, <1>5, <1>6 DEF IsLooped

(***************************************************************************)
(* The components are ordered                                              *)
(***************************************************************************)
LEMMA AwaitedAreFinite ==
  ASSUME IsNet(net), IsCondensed, NEW c
  PROVE  IsFiniteSet(Awaited(c)) /\ Cardinality(Awaited(c)) \in Nat
<1>1. IsFiniteSet(ComponentEdges) /\ Awaited(c) \subseteq ComponentEdges
  BY CondensedFacts DEF Awaited
<1> QED
  BY <1>1, FS_Subset, FS_CardinalityType

\* What only these parts speak of stays true while the components stay.
LEMMA CondensedKept ==
  ASSUME net' = net, components' = components
  PROVE  /\ IsCondensed => IsCondensed'
         /\ StepsStandAlone => StepsStandAlone'
         /\ ComponentEdges' = ComponentEdges
         /\ \A c : IsStepped(c)' = IsStepped(c) /\ IsLooped(c)' = IsLooped(c) /\ Step(c)' = Step(c)
<1>1. /\ ComponentEdges' = ComponentEdges
      /\ \A c : IsStepped(c)' = IsStepped(c) /\ IsLooped(c)' = IsLooped(c) /\ Step(c)' = Step(c)
  BY DEF ComponentEdges, IsStepped, IsLooped, Step
<1>2. StepsStandAlone => StepsStandAlone'
  BY <1>1 DEF StepsStandAlone
<1>3. IsCondensed => IsCondensed'
  BY PartsKept DEF IsCondensed
<1> QED
  BY <1>1, <1>2, <1>3

LEMMA CondenseStep ==
  ASSUME PlanInv, Condense
  PROVE  PlanInv'
<1>1. /\ planning = "visiting" /\ calls = << >> /\ \A n \in net.blocks : Visited(n)
      /\ net' = net /\ components' = components /\ ordered' = ordered
  BY DEF Condense
<1>2. VisitInv /\ IsNet(net) /\ ordered = {}
  BY <1>1 DEF PlanInv
<1>3. On = {}
  <2>1. Open = {}
    BY <1>1 DEF Open
  <2> QED
    BY <1>2, <2>1 DEF VisitInv, StackLeadsDown
<1>4. IsCondensed
  <2>1. \A b \in net.blocks : b \in Done
    BY <1>1, <1>2, <1>3 DEF VisitInv, AreFiled, Met, Visited
  <2> QED
    BY <1>2, <2>1 DEF IsCondensed, VisitInv, VisitTypeOK, Done
<1>5. IsCondensed' /\ IsNet(net)'
  BY <1>1, <1>2, <1>4, CondensedKept
<1>6. CASE \E c \in DOMAIN components : IsStepped(c) /\ IsLooped(c)
  <2>1. planning' = "refused"
    BY <1>6 DEF Condense
  <2>2. \E c \in DOMAIN components' : IsStepped(c)' /\ IsLooped(c)'
    BY <1>1, <1>6, CondensedKept
  <2> QED
    BY <1>5, <2>1, <2>2 DEF PlanInv
<1>7. CASE ~\E c \in DOMAIN components : IsStepped(c) /\ IsLooped(c)
  <2>1. planning' = "ordering"
    BY <1>7 DEF Condense
  <2>2. StepsStandAlone'
    BY <1>1, <1>7, CondensedKept DEF StepsStandAlone
  <2>3. /\ depth' = [c \in DOMAIN components |-> 0]
        /\ waiting' = [c \in DOMAIN components |-> Cardinality({e \in ComponentEdges : e[2] = c})]
    BY DEF Condense
  <2>4. ASSUME NEW c \in DOMAIN components
        PROVE  waiting'[c] = Cardinality(Awaited(c)') /\ waiting'[c] \in Nat
    <3>1. Awaited(c)' = {e \in ComponentEdges : e[2] = c}
      BY <1>1, <1>2, CondensedKept DEF Awaited
    <3>2. Awaited(c) = {e \in ComponentEdges : e[2] = c}
      BY <1>2 DEF Awaited
    <3>3. Cardinality(Awaited(c)) \in Nat
      BY <1>2, <1>4, AwaitedAreFinite
    <3> QED
      BY <2>3, <3>1, <3>2, <3>3
  <2>5. OrderInv'
    <3>1. depth' \in [DOMAIN components -> Nat] /\ waiting' \in [DOMAIN components -> Nat]
      BY <2>3, <2>4
    <3>2. \A c \in DOMAIN components : ~(depth'[c] > 0)
      BY <2>3
    <3>3. ordered' = {} /\ components' = components
      BY <1>1, <1>2
    <3> QED
      BY <2>4, <3>1, <3>2, <3>3 DEF OrderInv
  <2> QED
    BY <1>5, <2>1, <2>2, <2>5 DEF PlanInv
<1> QED
  BY <1>6, <1>7

\* What the component that is taken waits for, and what waits for it.
LEMMA TakenFacts ==
  ASSUME IsNet(net), IsCondensed, OrderInv, TakeReady
  PROVE  \E c \in DOMAIN components \ ordered :
            /\ ordered' = ordered \cup {c}
            /\ \A e \in ComponentEdges : e[2] = c => e[1] \in ordered
            /\ \A e \in ComponentEdges : e[1] = c => e[2] \notin ordered' /\ e = <<c, e[2]>>
            /\ \A d \in DOMAIN components :
                  /\ waiting'[d] = IF <<c, d>> \in ComponentEdges THEN waiting[d] - 1 ELSE waiting[d]
                  /\ depth'[d] = IF <<c, d>> \in ComponentEdges
                                 THEN LargerOf(depth[d], depth[c] + Step(c)) ELSE depth[d]
            /\ DOMAIN waiting' = DOMAIN components /\ DOMAIN depth' = DOMAIN components
            /\ waiting' = [d \in DOMAIN components |-> waiting'[d]]
            /\ depth' = [d \in DOMAIN components |-> depth'[d]]
<1> DEFINE c == Least(Ready)
<1>1. Ready \in SUBSET Nat /\ Ready # {}
  BY CondensedFacts DEF Ready, TakeReady
<1>2. c \in Ready
  BY <1>1, LeastIsOne
<1>3. c \in DOMAIN components \ ordered /\ waiting[c] = 0
  BY <1>2 DEF Ready
<1>4. DOMAIN waiting = DOMAIN components /\ DOMAIN depth = DOMAIN components
  BY DEF OrderInv
<1>5. /\ ordered' = ordered \cup {c}
      /\ depth' = [d \in DOMAIN components |->
                      IF <<c, d>> \in ComponentEdges THEN LargerOf(depth[d], depth[c] + Step(c))
                      ELSE depth[d]]
      /\ waiting' = [d \in DOMAIN components |->
                        IF <<c, d>> \in ComponentEdges THEN waiting[d] - 1 ELSE waiting[d]]
  BY <1>4 DEF TakeReady, Step
<1> HIDE DEF c
<1>6. ASSUME NEW e \in ComponentEdges, e[2] = c PROVE e[1] \in ordered
  <2>1. IsFiniteSet(Awaited(c)) /\ Cardinality(Awaited(c)) = 0
    BY <1>3, AwaitedAreFinite DEF OrderInv
  <2>2. Awaited(c) = {}
    BY <2>1, FS_EmptySet
  <2> QED
    BY <1>6, <2>2 DEF Awaited
<1>7. ASSUME NEW e \in ComponentEdges, e[1] = c PROVE e[2] \notin ordered' /\ e = <<c, e[2]>>
  <2>1. e = <<e[1], e[2]>> /\ e[1] # e[2]
    BY DEF ComponentEdges
  <2> QED
    BY <1>3, <1>5, <1>7, <2>1 DEF OrderInv
<1> QED
  BY <1>3, <1>5, <1>6, <1>7

LEMMA TakeReadyStep ==
  ASSUME PlanInv, TakeReady
  PROVE  PlanInv'
<1>1. /\ planning = "ordering" /\ planning' = planning
      /\ net' = net /\ components' = components
  BY DEF TakeReady
<1>2. IsNet(net) /\ IsCondensed /\ StepsStandAlone /\ OrderInv
  BY <1>1 DEF PlanInv
<1>3. IsNet(net)' /\ IsCondensed' /\ StepsStandAlone' /\ ComponentEdges' = ComponentEdges
      /\ \A c : Step(c)' = Step(c)
  BY <1>1, <1>2, CondensedKept
<1>4. PICK c \in DOMAIN components \ ordered :
            /\ ordered' = ordered \cup {c}
            /\ \A e \in ComponentEdges : e[2] = c => e[1] \in ordered
            /\ \A e \in ComponentEdges : e[1] = c => e[2] \notin ordered' /\ e = <<c, e[2]>>
            /\ \A d \in DOMAIN components :
                  /\ waiting'[d] = IF <<c, d>> \in ComponentEdges THEN waiting[d] - 1 ELSE waiting[d]
                  /\ depth'[d] = IF <<c, d>> \in ComponentEdges
                                 THEN LargerOf(depth[d], depth[c] + Step(c)) ELSE depth[d]
            /\ DOMAIN waiting' = DOMAIN components /\ DOMAIN depth' = DOMAIN components
            /\ waiting' = [d \in DOMAIN components |-> waiting'[d]]
            /\ depth' = [d \in DOMAIN components |-> depth'[d]]
  BY <1>2, TakenFacts
<1>5. /\ \A d \in DOMAIN components : depth[d] \in Nat /\ waiting[d] \in Nat
      /\ \A d : Step(d) \in {0, 1} /\ (Step(d) = 1 <=> IsStepped(d))
  BY <1>2 DEF OrderInv, Step
<1>6. ASSUME NEW d \in DOMAIN components
      PROVE  waiting'[d] = Cardinality(Awaited(d)') /\ waiting'[d] \in Nat
  <2>1. Awaited(d)' = {e \in ComponentEdges : e[2] = d /\ e[1] \notin ordered /\ e[1] # c}
    BY <1>3, <1>4 DEF Awaited
  <2>2. IsFiniteSet(Awaited(d)) /\ waiting[d] = Cardinality(Awaited(d))
    BY <1>2, AwaitedAreFinite DEF OrderInv
  <2>3. \A e \in ComponentEdges : e = <<e[1], e[2]>>
    BY DEF ComponentEdges
  <2>4. CASE <<c, d>> \in ComponentEdges
    <3>1. <<c, d>> \in Awaited(d)
      BY <1>4, <2>4 DEF Awaited
    <3>2. Awaited(d)' = Awaited(d) \ {<<c, d>>}
      BY <2>1, <2>3 DEF Awaited
    <3>3. /\ IsFiniteSet(Awaited(d)') /\ Cardinality(Awaited(d)') = Cardinality(Awaited(d)) - 1
      BY <2>2, <3>1, <3>2, FS_RemoveElement
    <3>4. Cardinality(Awaited(d)') \in Nat
      BY <3>3, FS_CardinalityType
    <3> QED
      BY <1>4, <2>2, <2>4, <3>3, <3>4
  <2>5. CASE <<c, d>> \notin ComponentEdges
    <3>1. Awaited(d)' = Awaited(d)
      BY <2>1, <2>3, <2>5 DEF Awaited
    <3> QED
      BY <1>4, <1>5, <2>2, <2>5, <3>1
  <2> QED
    BY <2>4, <2>5
<1>7. ASSUME NEW d \in DOMAIN components
      PROVE  depth'[d] \in Nat /\ depth[d] <= depth'[d] /\ (d \in ordered' => depth'[d] = depth[d])
  <2>1. d \in ordered' => <<c, d>> \notin ComponentEdges
    BY <1>4
  <2> QED
    BY <1>4, <1>5, <2>1 DEF LargerOf
<1>8. \A e \in ComponentEdges : e[2] \in ordered' => e[1] \in ordered'
  BY <1>2, <1>4 DEF OrderInv
<1>9. ASSUME NEW e \in ComponentEdges, e[1] \in ordered'
      PROVE  depth'[e[1]] + Step(e[1]) <= depth'[e[2]]
  <2>1. e[1] \in DOMAIN components /\ e[2] \in DOMAIN components
    BY DEF ComponentEdges
  <2>2. depth'[e[1]] = depth[e[1]]
    BY <1>7, <1>9, <2>1
  <2>3. CASE e[1] = c
    <3>1. e = <<c, e[2]>>
      BY <1>4, <2>3
    <3>2. depth'[e[2]] = LargerOf(depth[e[2]], depth[c] + Step(c))
      BY <1>4, <2>1, <3>1
    <3> QED
      BY <1>5, <2>1, <2>2, <2>3, <3>2 DEF LargerOf
  <2>4. CASE e[1] \in ordered
    <3>1. depth[e[1]] + Step(e[1]) <= depth[e[2]]
      BY <1>2, <2>4 DEF OrderInv
    <3> QED
      BY <1>5, <1>7, <2>1, <2>2, <3>1
  <2> QED
    BY <1>4, <1>9, <2>3, <2>4
\* A component is pushed down by a step, or by a component that a step has pushed down as far.
<1>10. ASSUME NEW d \in DOMAIN components, depth'[d] > 0
       PROVE  \E a \in ordered' : \E s \in net.steps \cap components[a] :
                 depth'[a] = depth'[d] - 1 /\ \A b \in components[d] : b \in Downstream(s)
  <2>1. ordered \subseteq DOMAIN components
    BY <1>2 DEF OrderInv
  <2>2. CASE depth'[d] = depth[d]
    <3>1. PICK a \in ordered : \E s \in net.steps \cap components[a] :
                 depth[a] = depth[d] - 1 /\ \A b \in components[d] : b \in Downstream(s)
      BY <1>2, <1>10, <2>2 DEF OrderInv
    <3>2. depth'[a] = depth[a] /\ a \in ordered'
      BY <1>4, <1>7, <2>1
    <3> QED
      BY <2>2, <3>1, <3>2
  <2>3. CASE depth'[d] # depth[d]
    <3>1. <<c, d>> \in ComponentEdges /\ depth'[d] = depth[c] + Step(c)
      BY <1>4, <1>5, <2>3 DEF LargerOf
    <3>2. \A b \in components[c], x \in components[d] : x \in Downstream(b)
      BY <1>2, <3>1, WiresJoin
    <3>3. CASE IsStepped(c)
      <4>1. PICK s \in net.steps \cap components[c] : TRUE
        BY <3>3 DEF IsStepped
      <4>2. depth'[c] = depth[c] /\ c \in ordered' /\ depth'[d] = depth[c] + 1
        BY <1>4, <1>5, <1>7, <3>1, <3>3
      <4>3. depth'[c] = depth'[d] - 1
        BY <1>4, <1>5, <4>2
      <4> QED
        BY <3>2, <4>1, <4>2, <4>3
    <3>4. CASE ~IsStepped(c)
      <4>1. depth'[d] = depth[c]
        BY <1>4, <1>5, <3>1, <3>4
      <4>2. PICK a \in ordered : \E s \in net.steps \cap components[a] :
                 depth[a] = depth[c] - 1 /\ \A b \in components[c] : b \in Downstream(s)
        BY <1>2, <1>4, <1>10, <4>1 DEF OrderInv
      <4>3. PICK s \in net.steps \cap components[a] :
                 depth[a] = depth[c] - 1 /\ \A b \in components[c] : b \in Downstream(s)
        BY <4>2
      <4>4. PICK b \in components[c] : TRUE
        BY <1>2, <1>4, CondensedFacts
      <4>5. \A x \in components[d] : x \in Downstream(s)
        BY <1>2, <3>2, <4>3, <4>4, DownstreamIsTransitive
      <4>6. depth'[a] = depth[a] /\ a \in ordered'
        BY <1>4, <1>7, <2>1
      <4>7. depth'[a] = depth'[d] - 1
        BY <4>1, <4>3, <4>6
      <4> QED
        BY <4>5, <4>6, <4>7
    <3> QED
      BY <3>3, <3>4
  <2> QED
    BY <2>2, <2>3
<1>11. OrderInv'
  <2>1. depth' \in [DOMAIN components -> Nat] /\ waiting' \in [DOMAIN components -> Nat]
    BY <1>4, <1>6, <1>7
  <2>2. ordered' \subseteq DOMAIN components
    BY <1>2, <1>4 DEF OrderInv
  <2>3. \A x : Downstream(x)' = Downstream(x)
    BY <1>1, DownstreamKept
  <2> QED
    BY <1>1, <1>3, <1>6, <1>8, <1>9, <1>10, <2>1, <2>2, <2>3 DEF OrderInv
<1> QED
  BY <1>1, <1>3, <1>11 DEF PlanInv

\* As long as components are left, the last of them waits for nothing.
LEMMA SomethingIsReady ==
  ASSUME IsNet(net), IsCondensed, OrderInv, ordered # DOMAIN components
  PROVE  Ready # {}
<1>1. PICK n \in Nat : DOMAIN components = 1..n
  BY CondensedFacts
<1> DEFINE left == {n - c : c \in DOMAIN components \ ordered}
<1>2. left \in SUBSET Nat /\ left # {}
  <2>1. \A d \in 1..n : n - d \in Nat
    BY <1>1
  <2>2. \E d \in DOMAIN components : d \notin ordered
    BY DEF OrderInv
  <2> QED
    BY <1>1, <2>1, <2>2
<1>3. PICK u \in left : \A v \in left : u <= v
  BY <1>2, LeastExists
<1>4. PICK c \in DOMAIN components \ ordered : u = n - c
  BY <1>3
<1>5. \A d \in DOMAIN components \ ordered : d <= c
  <2> SUFFICES ASSUME NEW d \in DOMAIN components \ ordered PROVE d <= c
    OBVIOUS
  <2>1. n - c <= n - d
    BY <1>3, <1>4
  <2> QED
    BY <1>1, <1>4, <2>1
<1>6. Awaited(c) = {}
  <2> SUFFICES ASSUME NEW e \in Awaited(c) PROVE FALSE
    OBVIOUS
  <2>1. e \in ComponentEdges /\ e[2] = c /\ e[1] \notin ordered
    BY DEF Awaited
  <2>2. e[1] \in DOMAIN components /\ c < e[1]
    BY <2>1, WiresJoin
  <2>3. e[1] <= c
    BY <1>5, <2>1, <2>2
  <2> QED
    BY <1>1, <1>4, <2>2, <2>3
<1>7. waiting[c] = 0
  BY <1>4, <1>6, FS_EmptySet DEF OrderInv
<1> QED
  BY <1>4, <1>7 DEF Ready

LEMMA FinishPlanStep ==
  ASSUME PlanInv, FinishPlan
  PROVE  PlanInv'
<1>1. /\ planning = "ordering" /\ Ready = {}
      /\ net' = net /\ components' = components /\ ordered' = ordered /\ depth' = depth /\ waiting' = waiting
  BY DEF FinishPlan
<1>2. IsNet(net) /\ IsCondensed /\ StepsStandAlone /\ OrderInv
  BY <1>1 DEF PlanInv
<1>3. ordered = DOMAIN components /\ planning' = "planned"
  BY <1>1, <1>2, SomethingIsReady DEF FinishPlan
<1>4. IsNet(net)' /\ IsCondensed' /\ StepsStandAlone'
  BY <1>1, <1>2, CondensedKept
<1>5. OrderInv'
  <2>1. \A c : Awaited(c)' = Awaited(c) /\ Step(c)' = Step(c) /\ ComponentEdges' = ComponentEdges
    BY <1>1, CondensedKept DEF Awaited
  <2>2. \A x : Downstream(x)' = Downstream(x)
    BY <1>1, DownstreamKept
  <2> QED
    BY <1>1, <1>2, <2>1, <2>2 DEF OrderInv
<1> QED
  BY <1>1, <1>3, <1>4, <1>5 DEF PlanInv

LEMMA PlanStarts ==
  ASSUME NEW graph, IsNet(graph), PlanInit(graph)
  PROVE  PlanInv
<1>1. /\ net = graph /\ calls = << >> /\ stack = << >> /\ components = << >>
      /\ indices = << >> /\ lowlink = << >> /\ ordered = {}
      /\ planning \in {"idle", "visiting"}
  BY DEF PlanInit
<1>2. /\ DOMAIN calls = {} /\ DOMAIN stack = {} /\ DOMAIN components = {} /\ DOMAIN indices = {}
      /\ DOMAIN lowlink = {}
  BY <1>1
<1>3. VisitTypeOK
  <2>1. /\ calls \in Seq([node: net.blocks, left: SUBSET net.blocks])
        /\ stack \in Seq(net.blocks) /\ components \in Seq(SUBSET net.blocks)
    BY <1>1
  <2>2. indices \in [{} -> Nat] /\ lowlink \in [{} -> Nat]
    BY <1>1
  <2> QED
    BY <1>1, <1>2, <2>1, <2>2 DEF VisitTypeOK, Met
<1>4. Met = {} /\ On = {} /\ Open = {} /\ Done = {}
  BY <1>2 DEF Met, On, Open, Done
<1>5. /\ AreNumbered /\ AreFiled /\ PartsInv
      /\ OpenLeadUp /\ StackLeadsDown /\ LowlinksAreReached /\ LowlinksAreLow
  BY <1>2, <1>4 DEF AreNumbered, AreFiled, PartsInv, ComponentsAreApart, ComponentsAreStrong,
     ComponentsAreOrdered, OpenLeadUp, StackLeadsDown, LowlinksAreReached, LowlinksAreLow
<1> QED
  BY <1>1, <1>3, <1>5 DEF PlanInv, VisitInv

LEMMA PlanKept == PlanInv /\ UNCHANGED planVars => PlanInv'
<1> SUFFICES ASSUME PlanInv, UNCHANGED planVars PROVE PlanInv'
  OBVIOUS
<1>1. /\ net' = net /\ planning' = planning /\ calls' = calls /\ indices' = indices
      /\ lowlink' = lowlink /\ stack' = stack /\ components' = components /\ depth' = depth
      /\ waiting' = waiting /\ ordered' = ordered
  BY DEF planVars
<1>2. /\ \A x : Downstream(x)' = Downstream(x) /\ Targets(x)' = Targets(x)
      /\ \A x, y : Leads(x, y)' = Leads(x, y) /\ IsFollowed(x, y)' = IsFollowed(x, y)
      /\ \A i, x : Owns(i, x)' = Owns(i, x)
  BY <1>1, DownstreamKept DEF IsFollowed, Owns
<1>3. Met' = Met /\ On' = On /\ Open' = Open /\ Done' = Done
  BY <1>1 DEF Met, On, Open, Done
<1>4. VisitInv => VisitInv'
  <2> SUFFICES ASSUME VisitInv PROVE VisitInv'
    OBVIOUS
  <2>1. VisitTypeOK' /\ AreNumbered'
    BY <1>1, <1>3 DEF VisitInv, VisitTypeOK, AreNumbered
  <2>2. AreFiled'
    BY <1>1, <1>2, <1>3 DEF VisitInv, AreFiled
  <2>3. PartsInv'
    BY <1>1, PartsKept DEF VisitInv
  <2>4. OpenLeadUp' /\ StackLeadsDown' /\ LowlinksAreReached' /\ LowlinksAreLow'
    BY <1>1, <1>2, <1>3
    DEF VisitInv, OpenLeadUp, StackLeadsDown, LowlinksAreReached, LowlinksAreLow
  <2> QED
    BY <2>1, <2>2, <2>3, <2>4 DEF VisitInv
<1>5. OrderInv => OrderInv'
  <2>1. \A c : Awaited(c)' = Awaited(c) /\ Step(c)' = Step(c) /\ ComponentEdges' = ComponentEdges
    BY <1>1, CondensedKept DEF Awaited
  <2> QED
    BY <1>1, <1>2, <2>1 DEF OrderInv
<1> QED
  BY <1>1, <1>4, <1>5, CondensedKept DEF PlanInv

LEMMA PlanSteps == PlanInv /\ PlanStep => PlanInv'
<1> SUFFICES ASSUME PlanInv, PlanStep PROVE PlanInv'
  OBVIOUS
<1>1. CASE VisitRoot \/ VisitNext \/ PassVisited \/ EndVisit
  <2>1. /\ planning = "visiting" /\ net' = net /\ planning' = planning /\ ordered' = ordered
    BY <1>1 DEF VisitRoot, VisitNext, PassVisited, EndVisit
  <2>2. VisitInv
    BY <2>1 DEF PlanInv
  <2>3. VisitInv'
    BY <1>1, <2>2, VisitRootStep, VisitNextStep, PassVisitedStep, EndVisitStep
  <2> QED
    BY <2>1, <2>3 DEF PlanInv
<1>2. CASE Condense
  BY <1>2, CondenseStep
<1>3. CASE TakeReady
  BY <1>3, TakeReadyStep
<1>4. CASE FinishPlan
  BY <1>4, FinishPlanStep
<1> QED
  BY <1>1, <1>2, <1>3, <1>4 DEF PlanStep

\* How many numbers there are up to one, from one and from zero.
LEMMA CountUpTo ==
  \A n \in Nat : /\ IsFiniteSet(1..n) /\ Cardinality(1..n) = n
                 /\ IsFiniteSet(0..(n - 1)) /\ Cardinality(0..(n - 1)) = n
<1> SUFFICES ASSUME NEW n \in Nat
             PROVE  /\ IsFiniteSet(1..n) /\ Cardinality(1..n) = n
                    /\ IsFiniteSet(0..(n - 1)) /\ Cardinality(0..(n - 1)) = n
  OBVIOUS
<1>1. IsFiniteSet(1..n) /\ Cardinality(1..n) = IF 1 > n THEN 0 ELSE n - 1 + 1
  BY FS_Interval
<1>2. n - 1 \in Int
  OBVIOUS
<1>3. /\ IsFiniteSet(0..(n - 1))
      /\ Cardinality(0..(n - 1)) = IF 0 > n - 1 THEN 0 ELSE n - 1 - 0 + 1
  BY <1>2, FS_Interval
<1> QED
  BY <1>1, <1>3

\* Ranked by any strict order of theirs, the members of a finite set get all the numbers
\* from zero, each one of them.
LEMMA RanksAreDense ==
  ASSUME NEW S, IsFiniteSet(S), NEW lower, lower \in [S -> SUBSET S],
         \A f \in S : f \notin lower[f],
         \A f, g \in S : f # g => f \in lower[g] \/ g \in lower[f],
         \A f, g, h \in S : f \in lower[g] /\ g \in lower[h] => f \in lower[h]
  PROVE  {Cardinality(lower[f]) : f \in S} = 0..(Cardinality(S) - 1)
<1> DEFINE n == Cardinality(S)
           rank == [f \in S |-> Cardinality(lower[f])]
           T == {Cardinality(lower[f]) : f \in S}
<1>1. n \in Nat
  BY FS_CardinalityType
<1>2. \A f \in S : IsFiniteSet(lower[f]) /\ Cardinality(lower[f]) \in Nat
  BY FS_Subset, FS_CardinalityType
<1>3. ASSUME NEW f, NEW g, f \in S, g \in S, f \in lower[g]
      PROVE  Cardinality(lower[f]) < Cardinality(lower[g])
  <2>1. lower[f] \in SUBSET lower[g]
    BY <1>3
  <2>2. lower[f] # lower[g]
    BY <1>3
  <2>3. Cardinality(lower[f]) <= Cardinality(lower[g]) /\ Cardinality(lower[f]) # Cardinality(lower[g])
    BY <1>2, <1>3, <2>1, <2>2, FS_Subset
  <2> QED
    BY <1>2, <1>3, <2>3
<1>4. ASSUME NEW f \in S PROVE Cardinality(lower[f]) \in 0..(n - 1)
  <2>1. lower[f] \in SUBSET S /\ lower[f] # S
    OBVIOUS
  <2>2. Cardinality(lower[f]) <= n /\ Cardinality(lower[f]) # n
    BY <2>1, FS_Subset
  <2> QED
    BY <1>1, <1>2, <2>2
<1>5. rank \in Surjection(S, T) /\ T \in SUBSET (0..(n - 1))
  BY <1>4 DEF Surjection
<1>6. rank \in Injection(S, T)
  <2>1. \A f, g \in S : f # g => rank[f] # rank[g]
    <3> SUFFICES ASSUME NEW f \in S, NEW g \in S, f # g PROVE rank[f] # rank[g]
      OBVIOUS
    <3> QED
      BY <1>2, <1>3
  <2>2. rank \in [S -> T]
    BY <1>5 DEF Surjection
  <2> HIDE DEF rank
  <2> QED
    BY <2>1, <2>2 DEF Injection, IsInjective
<1>7. Cardinality(T) = n
  <2> HIDE DEF rank, T
  <2> QED
    BY <1>5, <1>6, FS_Surjection
<1>8. IsFiniteSet(0..(n - 1)) /\ Cardinality(0..(n - 1)) = n
  BY <1>1, CountUpTo, Zenon
<1> HIDE DEF T, n
<1>9. 0..(n - 1) = T
  BY <1>5, <1>7, <1>8, FS_Subset
<1> QED
  BY <1>9 DEF T, n

(***************************************************************************)
(* A finished plan is a schedule                                           *)
(***************************************************************************)
LEMMA DepthFacts ==
  ASSUME PlanInv, planning = "planned"
  PROVE  /\ IsNet(net) /\ IsCondensed
         /\ \A b \in net.blocks : DepthOf(b) \in Nat
         /\ \A b, d : <<b, d>> \in net.edges =>
               /\ DepthOf(b) <= DepthOf(d)
               /\ b \in net.steps => DepthOf(b) < DepthOf(d)
<1>1. /\ IsNet(net) /\ IsCondensed /\ StepsStandAlone /\ OrderInv /\ ordered = DOMAIN components
  BY DEF PlanInv
<1>2. /\ \A b \in net.blocks : ComponentOf(b) \in DOMAIN components /\ b \in components[ComponentOf(b)]
      /\ \A c \in DOMAIN components : depth[c] \in Nat /\ Step(c) \in {0, 1}
  BY <1>1, CondensedFacts DEF OrderInv, Step
<1>3. ASSUME NEW b \in net.blocks, b \in net.steps
      PROVE  Step(ComponentOf(b)) = 1 /\ ~IsLooped(ComponentOf(b))
  BY <1>1, <1>2, <1>3 DEF Step, IsStepped, StepsStandAlone
<1>4. ASSUME NEW b, NEW d, <<b, d>> \in net.edges
      PROVE  /\ DepthOf(b) <= DepthOf(d)
             /\ b \in net.steps => DepthOf(b) < DepthOf(d)
  <2>1. b \in net.blocks /\ d \in net.blocks /\ d \in Downstream(b)
    BY <1>1, <1>4, EdgesLead
  <2>2. CASE <<ComponentOf(b), ComponentOf(d)>> \in ComponentEdges
    <3>1. depth[ComponentOf(b)] + Step(ComponentOf(b)) <= depth[ComponentOf(d)]
      BY <1>1, <1>2, <2>1, <2>2 DEF OrderInv
    <3> QED
      BY <1>2, <1>3, <2>1, <3>1 DEF DepthOf
  <2>3. CASE ComponentOf(b) = ComponentOf(d)
    <3>1. b \notin net.steps
      <4> SUFFICES ASSUME b \in net.steps PROVE FALSE
        OBVIOUS
      <4>1. b \in Downstream(b)
        <5>1. b = d \/ b \in Downstream(d)
          BY <1>1, <2>1, <2>3, ComponentsAreMutual
        <5> QED
          BY <1>1, <2>1, <5>1, DownstreamIsTransitive
      <4>2. IsLooped(ComponentOf(b))
        BY <1>1, <1>2, <2>1, <4>1, LoopsReturn
      <4> QED
        BY <1>3, <2>1, <4>2
    <3> QED
      BY <1>2, <2>1, <2>3, <3>1 DEF DepthOf
  <2> QED
    BY <1>1, <1>4, <2>2, <2>3, WiresJoin
<1>5. \A b \in net.blocks : DepthOf(b) \in Nat
  BY <1>2 DEF DepthOf
<1> QED
  BY <1>1, <1>4, <1>5

LEMMA DownstreamIsDeeper ==
  ASSUME PlanInv, planning = "planned", NEW b \in net.blocks, NEW d \in Downstream(b)
  PROVE  /\ d \in net.blocks /\ DepthOf(b) <= DepthOf(d)
         /\ b \in net.steps => DepthOf(b) < DepthOf(d)
<1> DEFINE S == {x \in net.blocks : /\ DepthOf(b) <= DepthOf(x)
                                    /\ b \in net.steps => DepthOf(b) < DepthOf(x)}
<1>1. /\ IsNet(net)
      /\ \A x \in net.blocks : DepthOf(x) \in Nat
      /\ \A x, y : <<x, y>> \in net.edges =>
               /\ DepthOf(x) <= DepthOf(y)
               /\ x \in net.steps => DepthOf(x) < DepthOf(y)
  BY DepthFacts
<1>2. Targets(b) \subseteq S
  BY <1>1 DEF Targets
<1>3. IsClosed(S)
  <2> SUFFICES ASSUME NEW e \in net.edges, e[1] \in S PROVE e[2] \in S
    BY DEF IsClosed
  <2>1. e = <<e[1], e[2]>> /\ e[1] \in net.blocks /\ e[2] \in net.blocks
    BY <1>1 DEF IsNet
  <2>2. DepthOf(e[1]) <= DepthOf(e[2])
    BY <1>1, <2>1
  <2> QED
    BY <1>1, <2>1, <2>2
<1>4. S \in SUBSET net.blocks
  OBVIOUS
<1>5. Downstream(b) \subseteq S
  <2> HIDE DEF S
  <2> QED
    BY <1>2, <1>3, <1>4, DownstreamIsLeast
<1> QED
  BY <1>5

\* The steps are ranked by depth and, among equals, by id.
LEMMA StepsAreOrdered ==
  ASSUME PlanInv, planning = "planned"
  PROVE  /\ DOMAIN StepOrder \subseteq Nat
         /\ \A i \in DOMAIN StepOrder : StepOrder[i] \in net.steps
         /\ \A i, j \in DOMAIN StepOrder : StepOrder[i] = StepOrder[j] => i = j
         /\ \A s \in net.steps : \E i \in DOMAIN StepOrder : StepOrder[i] = s
         /\ \A i, j \in DOMAIN StepOrder : IsBefore(StepOrder[i], StepOrder[j]) => i < j
<1>0. PICK steps : steps = net.steps
  OBVIOUS
<1> DEFINE lower == [s \in steps |-> {t \in steps : IsBefore(t, s)}]
<1>1. IsNet(net) /\ \A b \in net.blocks : DepthOf(b) \in Nat
  BY DepthFacts
<1>2. /\ steps \subseteq net.blocks /\ IsFiniteSet(steps)
      /\ \A s \in steps : s \in Nat /\ DepthOf(s) \in Nat
  BY <1>0, <1>1, FS_Subset DEF IsNet
<1>3. PICK n \in Nat : n = Cardinality(steps)
  BY <1>2, FS_CardinalityType
<1>4. /\ \A s \in steps : ~IsBefore(s, s)
      /\ \A s, t \in steps : s # t => IsBefore(s, t) \/ IsBefore(t, s)
      /\ \A s, t, u \in steps : IsBefore(s, t) /\ IsBefore(t, u) => IsBefore(s, u)
  BY <1>2 DEF IsBefore
<1>5. /\ lower \in [steps -> SUBSET steps]
      /\ \A s \in steps : s \notin lower[s]
      /\ \A s, t \in steps : s # t => s \in lower[t] \/ t \in lower[s]
      /\ \A s, t, u \in steps : s \in lower[t] /\ t \in lower[u] => s \in lower[u]
      /\ \A s, t \in steps : s \in lower[t] <=> IsBefore(s, t)
  BY <1>4
<1>6. \A s \in steps : lower[s] = {t \in net.steps : IsBefore(t, s)}
  BY <1>0
<1> HIDE DEF lower
<1>7. {Cardinality(lower[s]) : s \in steps} = 0..(n - 1)
  BY <1>2, <1>3, <1>5, RanksAreDense
<1>8. ASSUME NEW s \in steps, NEW t \in steps, IsBefore(s, t)
      PROVE  Cardinality(lower[s]) < Cardinality(lower[t])
  <2>1. lower[s] \in SUBSET lower[t] /\ s \in lower[t] /\ s \notin lower[s]
    BY <1>5, <1>8
  <2>2. IsFiniteSet(lower[t]) /\ IsFiniteSet(lower[s])
    BY <1>2, <1>5, FS_Subset
  <2>3. Cardinality(lower[s]) <= Cardinality(lower[t]) /\ Cardinality(lower[s]) # Cardinality(lower[t])
    BY <2>1, <2>2, FS_Subset
  <2>4. Cardinality(lower[s]) \in Nat /\ Cardinality(lower[t]) \in Nat
    BY <2>2, FS_CardinalityType
  <2> QED
    BY <2>3, <2>4
<1>9. DOMAIN StepOrder = 1..n
  BY <1>0, <1>3 DEF StepOrder
<1>10. ASSUME NEW i \in DOMAIN StepOrder
       PROVE  StepOrder[i] \in steps /\ Cardinality(lower[StepOrder[i]]) = i - 1
  <2>1. i - 1 \in 0..(n - 1)
    BY <1>3, <1>9
  <2>2. PICK s \in steps : Cardinality(lower[s]) = i - 1
    BY <1>7, <2>1
  <2>3. \E r \in net.steps : Cardinality({t \in net.steps : IsBefore(t, r)}) = i - 1
    BY <1>0, <1>6, <2>2
  <2>4. StepOrder[i] = CHOOSE r \in net.steps : Cardinality({t \in net.steps : IsBefore(t, r)}) = i - 1
    BY <1>9 DEF StepOrder
  <2>5. /\ StepOrder[i] \in net.steps
        /\ Cardinality({t \in net.steps : IsBefore(t, StepOrder[i])}) = i - 1
    BY <2>3, <2>4
  <2> QED
    BY <1>0, <1>6, <2>5
<1>11. ASSUME NEW i \in DOMAIN StepOrder, NEW j \in DOMAIN StepOrder, StepOrder[i] = StepOrder[j]
       PROVE  i = j
  BY <1>3, <1>9, <1>10, <1>11
<1>12. ASSUME NEW s \in steps PROVE \E i \in DOMAIN StepOrder : StepOrder[i] = s
  <2>1. Cardinality(lower[s]) \in 0..(n - 1)
    BY <1>7
  <2>2. PICK i \in 1..n : Cardinality(lower[s]) = i - 1
    BY <1>3, <2>1
  <2>3. StepOrder[i] \in steps /\ Cardinality(lower[StepOrder[i]]) = i - 1
    BY <1>9, <1>10
  <2>4. ~IsBefore(s, StepOrder[i]) /\ ~IsBefore(StepOrder[i], s)
    <3>1. ~(i - 1 < i - 1)
      BY <1>3
    <3> QED
      BY <1>8, <2>2, <2>3, <3>1
  <2>5. StepOrder[i] = s
    BY <1>4, <2>3, <2>4
  <2> QED
    BY <1>9, <2>5
<1>13. ASSUME NEW i \in DOMAIN StepOrder, NEW j \in DOMAIN StepOrder,
              IsBefore(StepOrder[i], StepOrder[j])
       PROVE  i < j
  <2>1. i - 1 < j - 1
    BY <1>8, <1>10, <1>13
  <2> QED
    BY <1>3, <1>9, <2>1
<1> QED
  BY <1>0, <1>3, <1>9, <1>10, <1>11, <1>12, <1>13

\* The one segment of a block that is no step.
SegmentOf(b) == [depth |-> DepthOf(b), blocks |-> {x \in Segmented : DepthOf(x) = DepthOf(b)}]

LEMMA SegmentFacts ==
  /\ \A b \in Segmented : SegmentOf(b) \in Segments /\ b \in SegmentOf(b).blocks
  /\ \A s \in Segments : s.blocks \subseteq Segmented
  /\ \A s \in Segments : \A b \in s.blocks : s.depth = DepthOf(b) /\ s = SegmentOf(b)
  BY DEF Segments, SegmentOf

LEMMA EveryBlockIsRunOnce ==
  ASSUME PlanInv, planning = "planned", NEW b \in net.blocks
  PROVE  Cardinality({s \in Segments : b \in s.blocks})
            + Cardinality({i \in DOMAIN StepOrder : StepOrder[i] = b}) = 1
<1>1. CASE b \in net.steps
  <2>1. {s \in Segments : b \in s.blocks} = {}
    BY <1>1, SegmentFacts DEF Segmented
  <2>2. PICK i \in DOMAIN StepOrder : StepOrder[i] = b
    BY <1>1, StepsAreOrdered
  <2>3. {j \in DOMAIN StepOrder : StepOrder[j] = b} = {i}
    BY <2>2, StepsAreOrdered
  <2>4. Cardinality({s \in Segments : b \in s.blocks}) = 0
    BY <2>1, FS_EmptySet
  <2>5. Cardinality({j \in DOMAIN StepOrder : StepOrder[j] = b}) = 1
    BY <2>3, FS_Singleton
  <2> QED
    BY <2>4, <2>5
<1>2. CASE b \notin net.steps
  <2>1. b \in Segmented
    BY <1>2 DEF Segmented
  <2>2. {s \in Segments : b \in s.blocks} = {SegmentOf(b)}
    BY <2>1, SegmentFacts
  <2>3. {i \in DOMAIN StepOrder : StepOrder[i] = b} = {}
    BY <1>2, StepsAreOrdered
  <2>4. Cardinality({s \in Segments : b \in s.blocks}) = 1
    BY <2>2, FS_Singleton
  <2>5. Cardinality({i \in DOMAIN StepOrder : StepOrder[i] = b}) = 0
    BY <2>3, FS_EmptySet
  <2> QED
    BY <2>4, <2>5
<1> QED
  BY <1>1, <1>2

LEMMA InputsAreReady ==
  ASSUME PlanInv, planning = "planned", NEW s \in Segments, NEW e \in InputSignals(s)
  PROVE  IF e[1] \in net.steps THEN DepthOf(e[1]) < s.depth
         ELSE \E r \in Segments : r.depth < s.depth /\ e \in OutputSignals(r)
<1>1. /\ IsNet(net)
      /\ \A b \in net.blocks : DepthOf(b) \in Nat
      /\ \A b, d : <<b, d>> \in net.edges =>
               /\ DepthOf(b) <= DepthOf(d)
               /\ b \in net.steps => DepthOf(b) < DepthOf(d)
  BY DepthFacts
<1>2. e \in net.edges /\ e[2] \in s.blocks /\ IsCut(e)
  BY DEF InputSignals
<1>3. e = <<e[1], e[2]>> /\ e[1] \in net.blocks /\ e[2] \in net.blocks
  BY <1>1, <1>2 DEF IsNet
<1>4. s.depth = DepthOf(e[2]) /\ s = SegmentOf(e[2])
  BY <1>2, SegmentFacts
<1>5. CASE e[1] \in net.steps
  <2>1. <<e[1], e[2]>> \in net.edges
    BY <1>2, <1>3
  <2> QED
    BY <1>1, <1>4, <1>5, <2>1
<1>6. CASE e[1] \notin net.steps
  <2> DEFINE r == SegmentOf(e[1])
  <2>1. r \in Segments /\ e[1] \in r.blocks /\ r.depth = DepthOf(e[1])
    BY <1>3, <1>6, SegmentFacts DEF Segmented
  <2>2. r # s
    BY <1>2, <2>1 DEF IsCut
  <2>3. DepthOf(e[1]) # DepthOf(e[2])
    BY <1>4, <2>2 DEF SegmentOf
  <2>4. DepthOf(e[1]) <= DepthOf(e[2])
    BY <1>1, <1>2, <1>3
  <2>5. r.depth < s.depth
    BY <1>1, <1>3, <1>4, <2>1, <2>3, <2>4
  <2>6. e \in OutputSignals(r)
    BY <1>2, <2>1 DEF OutputSignals
  <2> QED
    BY <1>6, <2>1, <2>5, <2>6
<1> QED
  BY <1>5, <1>6

LEMMA PlansAreInOrder == PlanInv => PlansAreSchedules
<1> SUFFICES ASSUME PlanInv PROVE PlansAreSchedules
  OBVIOUS
<1>1. planning # "cyclic"
  BY DEF PlanInv
<1>2. ASSUME planning = "refused" PROVE \E b \in net.steps : b \in Downstream(b)
  <2>1. IsNet(net) /\ IsCondensed
    BY <1>2 DEF PlanInv
  <2>2. PICK c \in DOMAIN components : IsStepped(c) /\ IsLooped(c)
    BY <1>2 DEF PlanInv
  <2>3. PICK b \in components[c] : b \in net.steps
    BY <2>2 DEF IsStepped
  <2> QED
    BY <2>1, <2>2, <2>3, LoopsReturn
<1>3. ASSUME planning = "planned", NEW b \in net.steps PROVE b \notin Downstream(b)
  <2>1. b \in net.blocks /\ DepthOf(b) \in Nat
    BY <1>3, DepthFacts DEF IsNet
  <2>2. b \in Downstream(b) => DepthOf(b) < DepthOf(b)
    BY <1>3, <2>1, DownstreamIsDeeper
  <2> QED
    BY <2>1, <2>2
<1>4. ASSUME planning = "planned", NEW b \in net.blocks \ net.steps, NEW d \in net.blocks \ net.steps
      PROVE  ComponentOf(b) = ComponentOf(d) <=> b = d \/ (b \in Downstream(d) /\ d \in Downstream(b))
  <2>1. IsNet(net) /\ IsCondensed
    BY <1>4, DepthFacts
  <2> QED
    BY <2>1, ComponentsAreMutual
<1>5. ASSUME planning = "planned", NEW i \in DOMAIN StepOrder, NEW j \in DOMAIN StepOrder,
             StepOrder[j] \in Downstream(StepOrder[i])
      PROVE  i < j
  <2>1. StepOrder[i] \in net.steps /\ StepOrder[j] \in net.steps
    BY <1>5, StepsAreOrdered
  <2>2. StepOrder[i] \in net.blocks
    BY <1>5, <2>1, DepthFacts DEF IsNet
  <2>3. DepthOf(StepOrder[i]) < DepthOf(StepOrder[j])
    BY <1>5, <2>1, <2>2, DownstreamIsDeeper
  <2> QED
    BY <1>5, <2>3, StepsAreOrdered DEF IsBefore
<1>6. ASSUME planning = "planned", NEW b \in net.blocks, DepthOf(b) > 0
      PROVE  \E s \in net.steps : b \in Downstream(s) /\ DepthOf(s) = DepthOf(b) - 1
  <2>1. IsNet(net) /\ IsCondensed /\ OrderInv /\ ordered = DOMAIN components
    BY <1>6 DEF PlanInv
  <2>2. ComponentOf(b) \in DOMAIN components /\ b \in components[ComponentOf(b)]
    BY <2>1, CondensedFacts
  <2>3. PICK a \in ordered : \E s \in net.steps \cap components[a] :
           /\ depth[a] = depth[ComponentOf(b)] - 1
           /\ \A x \in components[ComponentOf(b)] : x \in Downstream(s)
    BY <1>6, <2>1, <2>2 DEF OrderInv, DepthOf
  <2>4. PICK s \in net.steps \cap components[a] :
           /\ depth[a] = depth[ComponentOf(b)] - 1
           /\ \A x \in components[ComponentOf(b)] : x \in Downstream(s)
    BY <2>3
  <2>5. ComponentOf(s) = a
    BY <2>1, <2>4, CondensedFacts
  <2> QED
    BY <2>2, <2>4, <2>5 DEF DepthOf
<1> QED
  BY <1>1, <1>2, <1>3, <1>4, <1>5, <1>6, EveryBlockIsRunOnce, InputsAreReady
  DEF PlansAreSchedules
=============================================================================
