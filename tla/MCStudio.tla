------------------------------- MODULE MCStudio -------------------------------
(***************************************************************************)
(* Freshness with two concurrent requests, and small calculations: all     *)
(* plans of up to three blocks, all wirings of two blocks of a kind        *)
(* between a source and a sink, and rings of plant and controller.         *)
(***************************************************************************)
EXTENDS Calculations, TLC

AnyJob == Permutations(Jobs)

AllPlanGraphs ==
    UNION {{[blocks |-> 1..n, edges |-> edges, steps |-> steps] :
                edges \in SUBSET ((1..n) \X (1..n)), steps \in SUBSET (1..n)} : n \in 1..3}

(***************************************************************************)
(* Diagrams                                                                *)
(***************************************************************************)
Twos == {Gain(0), Sum(2, 1), Lag, UnitDelay(0, 1, 0), DiscreteTransfer(1, 2, TRUE),
         ExactDelay(1, FALSE), ThiranDelay(2, 2, 0)}
Ones == {Constant, Sine}

OneBlock ==
    {<<Source, a, Scope>> : a \in {Integrator, Transfer(1, TRUE), PadeDelay(2), ExactDelay(2, TRUE),
        PID(Discrete(0), 2), PID2(Continuous, 2), DiscretizedTransfer(1, 1, FALSE)}}
    \cup {<<VectorConstant(2), a, VectorScope(2)>> : a \in {Gain(0), MatrixGain(2, 2), Mux(2),
        Demux(2), Selector(2, 1), Permutation(2), VectorSum(2, 2), UnitDelay(0, 2, 1),
        ExactDelay(1, FALSE), StateSpace(1, 2, 2, Continuous, FALSE),
        DiscreteStateSpace(1, 2, 2, 1, FALSE), MIMOTransfer(1, 2, 2, Discrete(0), TRUE),
        FRD(2, 2, Continuous)}}
    \cup {<<source, ZPK(1, 1, 1, Discrete(1), TRUE), Spectrum>> : source \in Ones}
    \cup {<<VectorConstant(3), Source, ExactDelay(1, FALSE), VectorScope(3), Scope>>}

SmallDiagrams == {<<Source, a, b, Scope>> : a, b \in Twos} \cup OneBlock

SmallRequests ==
    {[sinks |-> TRUE, probes |-> {}, step |-> step] : step \in 0..2}
    \cup {[sinks |-> FALSE, probes |-> probes, step |-> 0] :
             probes \in {{}, {[block |-> 2, port |-> 0]}, {[block |-> 3, port |-> 1]}}}

(***************************************************************************)
(* Control loops                                                           *)
(***************************************************************************)
Ref(b, p, c) == [block |-> b, port |-> p, channel |-> c]
Wire(s, t, p) == [source |-> s, sourcePort |-> 0, target |-> t, targetPort |-> p]

LoopKinds == {Gain(0), Gain(1), Lag, UnitDelay(0, 1, 0), UnitDelay(1, 1, 1),
              DiscreteTransfer(1, 2, TRUE), DiscreteTransfer(1, 1, TRUE), ExactDelay(1, FALSE)}

\* Block 3 is the plant, blocks 1 and 2 are the controller.
Ring == {Wire(1, 2, 0), Wire(2, 3, 0), Wire(3, 1, 0)}
RingRoles ==
    [plant |-> {3}, exogenous |-> << >>, control |-> <<Ref(3, 0, 0)>>,
     performance |-> << >>, measurement |-> <<Ref(3, 0, 0)>>,
     controller |-> {1, 2}, references |-> << >>, measurements |-> <<Ref(1, 0, 0)>>,
     commands |-> <<Ref(2, 0, 0)>>, points |-> <<"plant_input", "plant_output">>, signed |-> FALSE]

\* Two blocks of two channels each.
Both(b) == <<Ref(b, 0, 0), Ref(b, 0, 1)>>
PairRoles ==
    [RingRoles EXCEPT !.plant = {2}, !.controller = {1}, !.control = Both(2),
        !.measurement = Both(2), !.measurements = Both(1), !.commands = Both(1)]

OddRoles ==
    {[RingRoles EXCEPT !.plant = {2, 3}], [RingRoles EXCEPT !.plant = {}],
     [RingRoles EXCEPT !.controller = {1, 2, 4}], [RingRoles EXCEPT !.controller = {1}],
     [RingRoles EXCEPT !.points = << >>], [RingRoles EXCEPT !.exogenous = <<Ref(3, 0, 0)>>],
     [RingRoles EXCEPT !.control = << >>, !.commands = << >>],
     [RingRoles EXCEPT !.references = <<Ref(2, 0, 0)>>], [RingRoles EXCEPT !.signed = TRUE]}

SmallLoops ==
    {[blocks |-> <<a, b, c>>, wires |-> Ring, roles |-> RingRoles, step |-> step] :
        a \in LoopKinds, b \in LoopKinds, c \in LoopKinds, step \in 0..2}
    \cup {[blocks |-> <<Sum(2, 1), b, c, Source>>, wires |-> Ring \cup more, step |-> 0,
           roles |-> [RingRoles EXCEPT !.references = reference]] :
             b \in LoopKinds, c \in LoopKinds, more \in {{}, {Wire(4, 1, 1)}},
             reference \in {<< >>, <<Ref(1, 1, 0)>>}}
    \cup {[blocks |-> <<MatrixGain(2, 2), b>>, wires |-> {Wire(1, 2, 0), Wire(2, 1, 0)},
           roles |-> roles, step |-> 0] :
             b \in {MatrixGain(2, 2), StateSpace(1, 2, 2, Continuous, FALSE), UnitDelay(0, 1, 1)},
             roles \in {PairRoles,
                        [PairRoles EXCEPT !.control = SubSeq(@, 1, 1), !.commands = SubSeq(@, 1, 1)],
                        [PairRoles EXCEPT !.measurement = SubSeq(@, 1, 1),
                                          !.measurements = SubSeq(@, 1, 1)]}}
    \cup {[blocks |-> <<Gain(0), Lag, Lag>>, wires |-> Ring, roles |-> roles, step |-> 0] :
             roles \in OddRoles}

(***************************************************************************)
(* Sweeps                                                                  *)
(***************************************************************************)
Axis(parameter, values_) == [parameter |-> parameter, values |-> values_]
ThiranBase == [delay |-> 3, order |-> 2, rate |-> 2]
ThiranAxes ==
    {Axis("delay", <<3, 4>>), Axis("delay", <<4, 1>>), Axis("delay", <<3, 4, 5>>),
     Axis("delay", <<3, 3>>), Axis("rate", <<2, 1>>), Axis("rate", <<2>>), Axis("order", <<2, 1>>),
     Axis("order", <<2>>), Axis("order", <<3>>), Axis("order", << >>), Axis("gain", <<1>>)}

SmallSweeps ==
    {[base |-> base, axes |-> axes, omega |-> <<1, 4>>, final |-> 4] :
        base \in {ThiranBase, [ThiranBase EXCEPT !.rate = 0]},
        axes \in UNION {[1..n -> ThiranAxes] : n \in 0..3}}
    \cup {[base |-> ThiranBase, axes |-> <<axis>>, omega |-> omega, final |-> final] :
             axis \in ThiranAxes, final \in {0, 4, 8},
             omega \in {<<1, 6>>, <<1, 7>>, <<0, 1>>, <<2, 2>>, <<1>>, <<1, 2, 3, 4>>}}
    \cup {[base |-> [proportional |-> 1, integral |-> 1, rate |-> 2],
           axes |-> <<Axis("proportional", <<2, 1>>), Axis("integral", second)>>,
           omega |-> <<1, 6>>, final |-> 4] : second \in {<<1, 2>>, <<2, 3>>}}
=============================================================================
