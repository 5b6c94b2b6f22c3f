---------------------------- MODULE ExecutionPlan ----------------------------
(***************************************************************************)
(* The execution plan of a compiled diagram (internal/studio/              *)
(* execution_plan.go): blocks that have a step function run sample by      *)
(* sample, and between them the other blocks are grouped into segments     *)
(* that are realised as one system each.                                   *)
(*                                                                         *)
(* The strongly connected components are found by Tarjan's algorithm, its  *)
(* recursion spelled out in `calls`; the components are then ordered and   *)
(* given a depth by repeatedly taking one that waits for nothing.          *)
(*                                                                         *)
(* No kind of the catalog has a step function yet, so compiled diagrams    *)
(* get one segment; the plan is made for any choice of step blocks, as its *)
(* tests do.                                                               *)
(***************************************************************************)
EXTENDS Naturals, Sequences, FiniteSets

VARIABLES
    net,         \* the diagram: [blocks: 1..n, edges, steps]
    planning,    \* "idle", "visiting", "ordering", "planned" or "refused"
    calls,       \* the visits under way: a node and the targets it has left to follow
    indices,     \* the order in which nodes were visited
    lowlink,
    stack,
    components,  \* sequence of sets of blocks
    depth,       \* of each component
    waiting,     \* how many components each component waits for
    ordered      \* the components taken so far

planVars == <<net, planning, calls, indices, lowlink, stack, components, depth, waiting, ordered>>

Least(S)        == CHOOSE x \in S : \A y \in S : x <= y
SmallerOf(x, y) == IF x <= y THEN x ELSE y
LargerOf(x, y)  == IF x <= y THEN y ELSE x

\* What the plan is made of: wires join blocks, each known by its place among the ids.
IsNet(graph) ==
    /\ IsFiniteSet(graph.blocks) /\ graph.blocks \subseteq Nat
    /\ graph.edges \subseteq graph.blocks \X graph.blocks
    /\ graph.steps \subseteq graph.blocks

Nobody == [blocks |-> {}, edges |-> {}, steps |-> {}]

PlanInit(graph) ==
    /\ net = graph
    /\ planning = IF net.blocks = {} THEN "idle" ELSE "visiting"
    /\ calls = << >> /\ stack = << >> /\ components = << >>
    /\ indices = << >> /\ lowlink = << >>
    /\ depth = << >> /\ waiting = << >> /\ ordered = {}

(***************************************************************************)
(* stronglyConnectedComponents                                             *)
(***************************************************************************)
\* Two wires to one target are followed once: behind the visit of a target, or behind a look
\* at its number, a second look changes nothing.
Targets(node) == {to \in net.blocks : <<node, to>> \in net.edges}
Visited(node) == node \in DOMAIN indices
OnStack(node) == \E i \in DOMAIN stack : stack[i] = node
Visitor       == calls[Len(calls)]
Caller        == calls[Len(calls) - 1].node
Following     == Least(Visitor.left)  \* targets are followed in the order of their ids

Enters(node) ==
    LET index == Cardinality(DOMAIN indices)
        With(f) == [n \in DOMAIN f \cup {node} |-> IF n = node THEN index ELSE f[n]]
    IN  /\ indices' = With(indices) /\ lowlink' = With(lowlink)
        /\ stack' = Append(stack, node)
        /\ calls' = Append(calls, [node |-> node, left |-> Targets(node)])

VisitRoot ==
    /\ planning = "visiting" /\ calls = << >>
    /\ \E n \in net.blocks : ~Visited(n)
    /\ Enters(Least({n \in net.blocks : ~Visited(n)}))
    /\ UNCHANGED <<net, planning, components, depth, waiting, ordered>>

VisitNext ==
    /\ planning = "visiting" /\ calls # << >> /\ Visitor.left # {}
    /\ ~Visited(Following)
    /\ Enters(Following)
    /\ UNCHANGED <<net, planning, components, depth, waiting, ordered>>

PassVisited ==
    /\ planning = "visiting" /\ calls # << >> /\ Visitor.left # {}
    /\ Visited(Following)
    /\ lowlink' = IF OnStack(Following)
                  THEN [lowlink EXCEPT ![Visitor.node] = SmallerOf(@, indices[Following])]
                  ELSE lowlink
    /\ calls' = [calls EXCEPT ![Len(calls)].left = @ \ {Following}]
    /\ UNCHANGED <<net, planning, indices, stack, components, depth, waiting, ordered>>

\* The visit of a node ends: the root of a component takes it off the stack, and the
\* caller goes on behind the target it followed.
EndVisit ==
    /\ planning = "visiting" /\ calls # << >> /\ Visitor.left = {}
    /\ LET node == Visitor.node
           from == CHOOSE i \in DOMAIN stack : stack[i] = node
           root == lowlink[node] = indices[node]
           rest == SubSeq(calls, 1, Len(calls) - 1)
       IN  /\ stack' = IF root THEN SubSeq(stack, 1, from - 1) ELSE stack
           /\ components' = IF root
                            THEN Append(components, {stack[i] : i \in from..Len(stack)})
                            ELSE components
           /\ IF Len(calls) = 1
              THEN calls' = rest /\ UNCHANGED lowlink
              ELSE /\ lowlink' = [lowlink EXCEPT ![Caller] = SmallerOf(@, lowlink[node])]
                   /\ calls' = [rest EXCEPT ![Len(calls) - 1].left = @ \ {node}]
    /\ UNCHANGED <<net, planning, indices, depth, waiting, ordered>>

(***************************************************************************)
(* buildExecutionPartition                                                 *)
(***************************************************************************)
ComponentOf(b)   == CHOOSE c \in DOMAIN components : b \in components[c]
IsStepped(c)     == components[c] \cap net.steps # {}
IsLooped(c)      == Cardinality(components[c]) > 1
                        \/ \E b \in components[c] : <<b, b>> \in net.edges
ComponentEdges ==
    {e \in (DOMAIN components) \X (DOMAIN components) :
        e[1] # e[2] /\ \E b \in components[e[1]], d \in components[e[2]] : <<b, d>> \in net.edges}

\* All nodes are visited: a sample-stepped block must not be part of a cycle.
Condense ==
    /\ planning = "visiting" /\ calls = << >> /\ \A n \in net.blocks : Visited(n)
    /\ planning' = IF \E c \in DOMAIN components : IsStepped(c) /\ IsLooped(c)
                   THEN "refused" ELSE "ordering"
    /\ depth' = [c \in DOMAIN components |-> 0]
    /\ waiting' = [c \in DOMAIN components |-> Cardinality({e \in ComponentEdges : e[2] = c})]
    /\ UNCHANGED <<net, calls, indices, lowlink, stack, components, ordered>>

Ready == {c \in DOMAIN components \ ordered : waiting[c] = 0}

\* Faulty variant: the last one to be taken sets the depth.
TakeReady_LastWins ==
    /\ planning = "ordering" /\ Ready # {}
    /\ LET c == Least(Ready)
           after == depth[c] + IF IsStepped(c) THEN 1 ELSE 0
       IN  /\ ordered' = ordered \cup {c}
           /\ depth' = [d \in DOMAIN depth |-> IF <<c, d>> \in ComponentEdges THEN after
                                               ELSE depth[d]]
           /\ waiting' = [d \in DOMAIN waiting |-> IF <<c, d>> \in ComponentEdges
                                                   THEN waiting[d] - 1 ELSE waiting[d]]
    /\ UNCHANGED <<net, planning, calls, indices, lowlink, stack, components>>

TakeReady ==
    /\ planning = "ordering" /\ Ready # {}
    /\ LET c == Least(Ready)
           after == depth[c] + IF IsStepped(c) THEN 1 ELSE 0
           Follows(d) == <<c, d>> \in ComponentEdges
       IN  /\ ordered' = ordered \cup {c}
           /\ depth' = [d \in DOMAIN depth |-> IF Follows(d) THEN LargerOf(depth[d], after)
                                               ELSE depth[d]]
           /\ waiting' = [d \in DOMAIN waiting |-> IF Follows(d) THEN waiting[d] - 1
                                                   ELSE waiting[d]]
    /\ UNCHANGED <<net, planning, calls, indices, lowlink, stack, components>>

FinishPlan ==
    /\ planning = "ordering" /\ Ready = {}
    /\ planning' = IF ordered = DOMAIN components THEN "planned" ELSE "cyclic"
    /\ UNCHANGED <<net, calls, indices, lowlink, stack, components, depth, waiting, ordered>>

PlanStep == VisitRoot \/ VisitNext \/ PassVisited \/ EndVisit \/ Condense \/ TakeReady \/ FinishPlan

\* What is made of a finished plan.
DepthOf(b)  == depth[ComponentOf(b)]
Segmented   == net.blocks \ net.steps
Segments    == {[depth |-> d, blocks |-> {b \in Segmented : DepthOf(b) = d}] :
                    d \in {DepthOf(b) : b \in Segmented}}
IsBefore(s, t) == \/ DepthOf(s) < DepthOf(t)
                  \/ DepthOf(s) = DepthOf(t) /\ s < t
StepOrder   == [i \in 1..Cardinality(net.steps) |->
                   CHOOSE s \in net.steps : Cardinality({t \in net.steps : IsBefore(t, s)}) = i - 1]
IsCut(edge) == ~\E s \in Segments : {edge[1], edge[2]} \subseteq s.blocks

\* The wires at which a segment is given its inputs and taken its outputs.
InputSignals(segment)  == {e \in net.edges : e[2] \in segment.blocks /\ IsCut(e)}
OutputSignals(segment) == {e \in net.edges : e[1] \in segment.blocks /\ IsCut(e)}

(***************************************************************************)
(* Properties                                                              *)
(***************************************************************************)
\* The blocks `b` leads to along one wire or more.
IsClosed(S)   == \A e \in net.edges : e[1] \in S => e[2] \in S
Downstream(b) ==
    {d \in net.blocks :
        \A S \in SUBSET net.blocks : Targets(b) \subseteq S /\ IsClosed(S) => d \in S}

\* Run by depth, the segments of one before its steps, the plan gives every block its
\* inputs before it is run: no segment reads what a later segment, or a step that has not
\* run, produces.  It has no more depths than the steps ask for, it leaves out no block and
\* runs none twice, and it is refused when, and only when, a sample-stepped block would
\* have to wait for itself.
PlansAreSchedules ==
    /\ planning # "cyclic"
    /\ planning = "refused" => \E b \in net.steps : b \in Downstream(b)
    /\ planning = "planned" =>
         /\ \A b \in net.steps : b \notin Downstream(b)
         /\ \A b, d \in net.blocks \ net.steps :
              ComponentOf(b) = ComponentOf(d)
                 <=> b = d \/ (b \in Downstream(d) /\ d \in Downstream(b))
         /\ \A b \in net.blocks :
              Cardinality({s \in Segments : b \in s.blocks})
                 + Cardinality({i \in DOMAIN StepOrder : StepOrder[i] = b}) = 1
         /\ \A s \in Segments : \A e \in InputSignals(s) :
              IF e[1] \in net.steps THEN DepthOf(e[1]) < s.depth
              ELSE \E r \in Segments : r.depth < s.depth /\ e \in OutputSignals(r)
         /\ \A i, j \in DOMAIN StepOrder :
              StepOrder[j] \in Downstream(StepOrder[i]) => i < j
         /\ \A b \in net.blocks :
              DepthOf(b) > 0
                 => \E s \in net.steps : b \in Downstream(s) /\ DepthOf(s) = DepthOf(b) - 1
=============================================================================
