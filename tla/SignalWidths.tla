---------------------------- MODULE SignalWidths ----------------------------
(***************************************************************************)
(* The channel widths of a block diagram: resolveModelSignalWidths         *)
(* (internal/studio/signal_dimensions.go).  Every operation that may change *)
(* a wire's width calls it inside its transaction and refuses the edit when *)
(* it returns an error; `snapshot` calls it on every read.                 *)
(*                                                                         *)
(* A graph is a function from block ids to shapes, a shape being what a    *)
(* block's kind and parameters say about its terminals:                    *)
(*   inputs, outputs  how many ports of each side it declares              *)
(*   in, out          the width of its input and of its output ports       *)
(*   inherits         a Gain or Unit Delay in the "inherited" width mode   *)
(*   initial          the length of a vector initial condition, 1 when     *)
(*                    the initial condition is a scalar                    *)
(* Names, gains, signs and the realised systems are left out.              *)
(***************************************************************************)
EXTENDS Naturals, FiniteSets

Unknown == 0

HasOutputPort(shape, port) == port < shape.outputs
HasInputPort(shape, port)  == port < shape.inputs

\* What is known before any wire is followed: an explicit block's width, and
\* the width a vector initial condition forces on an inheriting one.
SeedWidths(graph) ==
    [b \in DOMAIN graph |->
        IF ~graph[b].inherits THEN graph[b].out
        ELSE IF graph[b].initial > 1 THEN graph[b].initial
        ELSE Unknown]

\* The wires that can tell their target a width.
Informing(graph, wires) ==
    {w \in wires : /\ w.source \in DOMAIN graph
                   /\ w.target \in DOMAIN graph
                   /\ graph[w.target].inherits
                   /\ \/ graph[w.source].inherits
                      \/ HasOutputPort(graph[w.source], w.sourcePort)}

\* One sweep of the propagation loop.  An inheriting block has one input port,
\* so at most one wire of a stored flowsheet informs it.
Sweep(graph, wires, known) ==
    [b \in DOMAIN graph |->
        LET offers == {known[w.source] : w \in {x \in Informing(graph, wires) :
                                                    x.target = b}} \ {Unknown}
        IN  IF known[b] = Unknown /\ offers # {}
            THEN CHOOSE width \in offers : TRUE
            ELSE known[b]]

\* The loop runs until a sweep changes nothing, which it does after at most one
\* sweep per block.
KnownWidths(graph, wires) ==
    LET size == Cardinality(DOMAIN graph)
        after[n \in 0..size] ==
            IF n = 0 THEN SeedWidths(graph) ELSE Sweep(graph, wires, after[n - 1])
    IN  after[size]

\* An inheriting block nothing informs is scalar.
ResolvedWidths(graph, wires) ==
    LET known == KnownWidths(graph, wires)
    IN  [b \in DOMAIN graph |-> IF known[b] = Unknown THEN 1 ELSE known[b]]

InWidth(graph, widths, b) ==
    IF graph[b].inherits THEN widths[b] ELSE graph[b].in

\* resolveModelSignalWidths returns no error: no vector initial condition meets
\* a source of another width, and every wire between declared ports joins ports
\* of one width.  A wire to or from a port that is not declared is skipped.
WidthsResolve(graph, wires) ==
    LET known  == KnownWidths(graph, wires)
        widths == ResolvedWidths(graph, wires)
    IN  /\ \A w \in Informing(graph, wires) :
              graph[w.target].initial > 1 /\ known[w.source] # Unknown
                 => known[w.source] = graph[w.target].initial
        /\ \A w \in wires :
              /\ w.source \in DOMAIN graph
              /\ w.target \in DOMAIN graph
              => (/\ HasOutputPort(graph[w.source], w.sourcePort)
                  /\ HasInputPort(graph[w.target], w.targetPort)
                  => widths[w.source] = InWidth(graph, widths, w.target))
=============================================================================
