------------------------------- MODULE Catalog -------------------------------
(***************************************************************************)
(* The block catalog (internal/studio/catalog.go, rich_lti.go): what each  *)
(* kind says of itself to the compiler, as a contract.                     *)
(*                                                                         *)
(*   role       "source", "dynamic" or "sink"                              *)
(*   variadic   whether parameters say how many inputs there are           *)
(*   inputs, outputs, in, out, inherits, initial   as in SignalWidths      *)
(*   every      whether each declared input has to be wired                *)
(*   time       the time domain, with the rate of a discrete one, 0 when   *)
(*              it is inherited                                            *)
(*   slowest    the slowest rate the parameters allow                      *)
(*   states     how many states the realisation has                        *)
(*   direct     whether an input acts on an output at once                 *)
(*   delay      the exact delay of the block, in ticks                     *)
(*   realizes   whether there is a realisation at all                      *)
(*                                                                         *)
(* A kind is a contract or, when parameters change its contract, an        *)
(* operator over what they change.  Values that act on no port, rate or    *)
(* dimension are left out; parameters the editor refuses are never stored. *)
(***************************************************************************)
EXTENDS Naturals

Inherited == 0
AnyRate == 1000  \* slower than any rate of a diagram

Neutral        == [kind |-> "neutral", rate |-> Inherited]
Continuous     == [kind |-> "continuous", rate |-> Inherited]
Discrete(rate) == [kind |-> "discrete", rate |-> rate]

\* The defaults of blockDefinition: one scalar input and output, a unit gain.
Definition ==
    [role |-> "dynamic", variadic |-> FALSE, inputs |-> 1, outputs |-> 1, in |-> 1, out |-> 1,
     inherits |-> FALSE, initial |-> 1, every |-> FALSE, time |-> Neutral,
     slowest |-> AnyRate, states |-> 0, direct |-> TRUE, delay |-> 0, realizes |-> TRUE]

Arity(block) ==
    IF block.role = "source" THEN "none" ELSE IF block.variadic THEN "variadic" ELSE "one"

\* What every contract keeps.
IsContract(block) ==
    /\ block.role \in {"source", "dynamic", "sink"}
    /\ {block.inputs, block.outputs, block.in, block.out, block.initial, block.delay} \subseteq Nat
    /\ block.role = "source" => block.inputs = 0
    /\ block.role = "sink" => block.outputs = 0
    /\ block.role = "source" \/ block.inputs = 1 \/ (block.variadic /\ block.every)
    /\ block.time.rate \in Nat
    /\ block.time \in {Neutral, Continuous, Discrete(block.time.rate)}

Of(definition, in, out) == [definition EXCEPT !.in = in, !.out = out]
Dynamic(states, time, direct) ==
    [Definition EXCEPT !.states = states, !.time = time, !.direct = direct]

(***************************************************************************)
(* Sources and sinks                                                       *)
(***************************************************************************)
Source == [Definition EXCEPT !.role = "source", !.inputs = 0]
Constant == Source
Sine == Source
VectorConstant(width) == [Source EXCEPT !.out = width]

Scope == [Definition EXCEPT !.role = "sink", !.outputs = 0]
Spectrum == Scope
VectorScope(width) == [Scope EXCEPT !.in = width]

(***************************************************************************)
(* Gains and routing                                                       *)
(***************************************************************************)
\* A Gain or a Unit Delay of inherited width has the width of its wire.
Direct(width) == [Of(Definition, width, width) EXCEPT !.inherits = width = 0]

Gain(width) == Direct(width)
MatrixGain(rows, columns) == Of(Definition, columns, rows)

Mux(width) ==
    [Definition EXCEPT !.variadic = TRUE, !.inputs = width, !.out = width, !.every = TRUE]
Demux(width) == [Definition EXCEPT !.in = width, !.outputs = width]

Selector(inputs, outputs) == Of(Definition, inputs, outputs)
Permutation(width) == Selector(width, width)

\* One input per sign; a lone sign would stand for any number of inputs.
Sum(signs, width) ==
    [Of(Definition, width, width) EXCEPT
        !.variadic = TRUE, !.inputs = signs, !.every = signs > 1]
VectorSum(signs, width) == Sum(signs, width)

(***************************************************************************)
(* Dynamics                                                                *)
(***************************************************************************)
Lag == Dynamic(1, Continuous, FALSE)
Integrator == Dynamic(1, Continuous, FALSE)
Transfer(order, direct) == Dynamic(order, Continuous, direct)

\* A PID has a state for its integral and one for its filtered derivative.
PID(time, states) == Dynamic(states, time, TRUE)
PID2(time, states) ==
    [Dynamic(states, time, TRUE) EXCEPT !.variadic = TRUE, !.inputs = 2, !.every = TRUE]

\* Exact unless approximated; one that starts from an authored output holds it in a state.
ExactDelay(delay, history) ==
    [Dynamic(IF history /\ delay > 0 THEN 1 ELSE 0, Continuous, delay = 0) EXCEPT !.delay = delay]
PadeDelay(order) == Dynamic(order, Continuous, TRUE)

\* A delay of less than order - 1/2 samples has no Thiran approximation: with the rate
\* the delay is counted in growing, there is a slowest one.
ThiranDelay(delay, order, rate) ==
    [Dynamic(order, Discrete(rate), TRUE) EXCEPT !.slowest = (2 * delay) \div (2 * order - 1)]

Named(states, inputs, outputs, time, direct) ==
    Of(Dynamic(states, time, direct), inputs, outputs)

StateSpace(states, inputs, outputs, time, direct) == Named(states, inputs, outputs, time, direct)
MIMOTransfer(states, inputs, outputs, time, direct) == Named(states, inputs, outputs, time, direct)
ZPK(states, inputs, outputs, time, direct) == Named(states, inputs, outputs, time, direct)

\* Samples of a frequency response cannot be simulated.
FRD(inputs, outputs, time) == [Named(0, inputs, outputs, time, TRUE) EXCEPT !.realizes = FALSE]

UnitDelay(width, initial, rate) ==
    [Direct(width) EXCEPT !.time = Discrete(rate), !.direct = FALSE, !.initial = initial,
        !.states = IF width = 0 THEN initial ELSE width]
DiscreteTransfer(order, rate, direct) == Dynamic(order, Discrete(rate), direct)
DiscreteStateSpace(states, inputs, outputs, rate, direct) ==
    Named(states, inputs, outputs, Discrete(rate), direct)
DiscretizedTransfer(order, rate, direct) == Dynamic(order, Discrete(rate), direct)
=============================================================================
