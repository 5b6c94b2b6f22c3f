--------------------------- MODULE ParameterSweep ---------------------------
(***************************************************************************)
(* Parameter sweeps (internal/studio/parameter_sweep.go,                   *)
(* parameter_sweep_workflow.go): one block of a diagram is given each      *)
(* combination of the values of up to four axes, every variant is compiled, *)
(* and the family is analysed over frequency and over time.                *)
(*                                                                         *)
(* The swept block stands between a source and a sink.  It is a Thiran     *)
(* Delay, whose parameters constrain one another and change the order and  *)
(* the rate of the model, or a discrete PID, whose gains do neither.  Of a *)
(* response the magnitudes are left, which are the library's.              *)
(***************************************************************************)
EXTENDS Catalog, Sequences, FiniteSets

CONSTANTS
    MaxSweepAxes, MaxSweepModels, MaxSweepStates,   \* 4, 64 and 64 in the code
    MaxSweepFrequencies, MaxSweepSamples            \* 256 and 2000

ASSUME SweepBounds ==
    {MaxSweepAxes, MaxSweepModels, MaxSweepStates, MaxSweepFrequencies, MaxSweepSamples}
        \subseteq Nat \ {0}

VARIABLES
    sweep,      \* the request: [base, axes, omega, final]
    sweeping,   \* "idle", "define", "vary", "family", "bound", "gains", "values", "done", "refused"
    variant,    \* the parameters of the variant in the making, and the axes set so far
    variants,   \* the variants made, in order
    gains,      \* the summaries of the frequency responses so far
    values,     \* the summaries of the step responses so far
    worst       \* the index of the worst case in frequency and in time, 0 if none

sweepVars == <<sweep, sweeping, variant, variants, gains, values, worst>>

NoSweep == [base |-> << >>, axes |-> << >>, omega |-> << >>, final |-> 0]
FromBase(parameters) == [parameters |-> parameters, set |-> 0]

SweepInit(request) ==
    /\ sweep = request
    /\ sweeping = IF request = NoSweep THEN "idle" ELSE "define"
    /\ variant = FromBase(request.base)
    /\ variants = << >> /\ gains = << >> /\ values = << >>
    /\ worst = [gain |-> 0, value |-> 0]

Axes  == DOMAIN sweep.axes
Shape == [a \in Axes |-> Len(sweep.axes[a].values)]
IsRepeated(list) == \E i, j \in DOMAIN list : i # j /\ list[i] = list[j]

Points(shape) ==
    LET product[n \in 0..Len(shape)] == IF n = 0 THEN 1 ELSE product[n - 1] * shape[n]
    IN  product[Len(shape)]

Keeps(stage)      == sweeping' = stage /\ UNCHANGED <<sweep, variant, variants, gains, values, worst>>
Chooses(ok, next) == Keeps(IF ok THEN next ELSE "refused")

\* validateSweepDefinition.
ValidateDefinition ==
    /\ sweeping = "define"
    /\ Chooses(/\ Axes # {} /\ Len(sweep.axes) <= MaxSweepAxes
               /\ \A a \in Axes : sweep.axes[a].parameter \in DOMAIN sweep.base
               /\ ~IsRepeated([a \in Axes |-> sweep.axes[a].parameter])
               /\ \A a \in Axes : /\ sweep.axes[a].values # << >>
                                  /\ ~IsRepeated(sweep.axes[a].values)
               /\ Points(Shape) <= MaxSweepModels, "vary")

\* Faulty variant: the first axis runs fastest.
SweepCoordinates_FirstFastest(flat) ==
    [a \in Axes |-> (flat \div Points(SubSeq(Shape, 1, a - 1))) % Shape[a]]

\* The last axis runs fastest.
SweepCoordinates(flat) ==
    [a \in Axes |-> (flat \div Points(SubSeq(Shape, a + 1, Len(Shape)))) % Shape[a]]

\* An order of n asks for a delay of n - 1/2 samples; an inherited rate is not known yet.
Contract(parameters) ==
    IF "delay" \in DOMAIN parameters
    THEN ThiranDelay(parameters.delay, parameters.order, parameters.rate)
    ELSE PID(Discrete(parameters.rate), 2)
AreValid(parameters) == parameters.rate <= Contract(parameters).slowest

\* One axis of the variant is set, and all parameters are validated with those of the
\* axes behind it still at their base.
SetParameter ==
    /\ sweeping = "vary" /\ Len(variants) < Points(Shape) /\ variant.set < Len(sweep.axes)
    /\ LET axis  == sweep.axes[variant.set + 1]
           place == SweepCoordinates(Len(variants))[variant.set + 1]
           next  == [variant.parameters EXCEPT ![axis.parameter] = axis.values[place + 1]]
       IN  IF AreValid(next)
           THEN /\ variant' = [parameters |-> next, set |-> variant.set + 1]
                /\ UNCHANGED <<sweep, sweeping, variants, gains, values, worst>>
           ELSE Keeps("refused")

\* The diagram is compiled without a step, so an inherited rate is found nowhere.
CompileVariant ==
    /\ sweeping = "vary" /\ Len(variants) < Points(Shape) /\ variant.set = Len(sweep.axes)
    /\ IF variant.parameters.rate # Inherited
       THEN /\ variants' = Append(variants, variant.parameters)
            /\ variant' = FromBase(sweep.base)
            /\ UNCHANGED <<sweep, sweeping, gains, values, worst>>
       ELSE Keeps("refused")

\* validateSweepModelFamily: one order and one rate, and not too many states.
ModelOf(parameters) ==
    [states |-> Contract(parameters).states, rate |-> Contract(parameters).time.rate]

CheckFamily ==
    /\ sweeping = "vary" /\ Len(variants) = Points(Shape)
    /\ Chooses(\A i \in DOMAIN variants : /\ ModelOf(variants[i]) = ModelOf(variants[1])
                                          /\ ModelOf(variants[i]).states <= MaxSweepStates,
               "bound")

\* Frequencies are in twelfths of half a turn per tick.
HalfTurn == 12

\* boundedSweepSampleCount.
Samples(final, rate) ==
    IF final \div rate >= MaxSweepSamples THEN MaxSweepSamples + 1 ELSE final \div rate + 1

\* validateSweepAnalysisSpec.
BoundAnalysis ==
    /\ sweeping = "bound"
    /\ LET rate == variants[1].rate
           points == Len(sweep.omega)
       IN  Chooses(/\ points \in 2..MaxSweepFrequencies
                   /\ sweep.omega[1] > 0
                   /\ \A i \in 2..points : sweep.omega[i - 1] < sweep.omega[i]
                   /\ sweep.omega[points] * rate <= HalfTurn
                   /\ sweep.final > 0
                   /\ \A i \in DOMAIN variants :
                        Samples(sweep.final, variants[i].rate) <= MaxSweepSamples, "gains")

\* The place of the first of the largest.
Peak(list) ==
    CHOOSE i \in DOMAIN list : /\ \A j \in DOMAIN list : list[j] <= list[i]
                               /\ \A j \in 1..(i - 1) : list[j] < list[i]

\* A summary takes the place of the worst case when its peak is larger.
WorstOf(summaries, last) ==
    IF last = 0 \/ summaries[Len(summaries)].peak > summaries[last].peak
    THEN Len(summaries) ELSE last

SummarizeFrequency ==
    /\ sweeping = "gains" /\ Len(gains) < Len(variants)
    /\ \E response \in [1..2 -> 0..1] :
         gains' = Append(gains, [at |-> Peak(response), peak |-> response[Peak(response)]])
    /\ worst' = [worst EXCEPT !.gain = WorstOf(gains', @)]
    /\ sweeping' = IF Len(gains') = Len(variants) THEN "values" ELSE "gains"
    /\ UNCHANGED <<sweep, variant, variants, values>>

SummarizeTime ==
    /\ sweeping = "values" /\ Len(values) < Len(variants)
    /\ \E peak \in 0..1 : values' = Append(values, [peak |-> peak])
    /\ worst' = [worst EXCEPT !.value = WorstOf(values', @)]
    /\ sweeping' = IF Len(values') = Len(variants) THEN "done" ELSE "values"
    /\ UNCHANGED <<sweep, variant, variants, gains>>

SweepStep ==
    \/ ValidateDefinition \/ SetParameter \/ CompileVariant \/ CheckFamily \/ BoundAnalysis
    \/ SummarizeFrequency \/ SummarizeTime

(***************************************************************************)
(* Properties                                                              *)
(***************************************************************************)
\* The order of the array a client reads: by the first axis, then by the second, ...
Precedes(v, w) ==
    \E a \in Axes :
        /\ \A b \in 1..(a - 1) : v[sweep.axes[b].parameter] = w[sweep.axes[b].parameter]
        /\ LET list == sweep.axes[a].values
           IN  \E i, j \in DOMAIN list : /\ i < j
                                         /\ v[sweep.axes[a].parameter] = list[i]
                                         /\ w[sweep.axes[a].parameter] = list[j]

\* An analysis is of the whole grid and of nothing else: each combination of the axes'
\* values has one variant, in the order the coordinates of the array promise, with every
\* other parameter as it is in the diagram; all are valid and have the order and the rate
\* of the first; the worst case is the first model with the largest peak, so that it is
\* the same from run to run.
SweepsCoverTheirGrid ==
    sweeping = "done" =>
        /\ LET named == {sweep.axes[a].parameter : a \in Axes}
               ValuesOf(p) == UNION {{sweep.axes[a].values[i] : i \in DOMAIN sweep.axes[a].values} :
                                        a \in {b \in Axes : sweep.axes[b].parameter = p}}
           IN  {variants[i] : i \in DOMAIN variants} =
                   {v \in [DOMAIN sweep.base -> {sweep.base[p] : p \in DOMAIN sweep.base}
                                                   \cup UNION {ValuesOf(p) : p \in named}] :
                       \A p \in DOMAIN v : v[p] \in IF p \in named THEN ValuesOf(p)
                                                    ELSE {sweep.base[p]}}
        /\ \A i, j \in DOMAIN variants : i < j => Precedes(variants[i], variants[j])
        /\ \A i \in DOMAIN variants : AreValid(variants[i])
        /\ \A i, j \in DOMAIN variants : ModelOf(variants[i]) = ModelOf(variants[j])
        /\ \A i \in DOMAIN variants :
              /\ gains[i].peak < gains[worst.gain].peak
                    \/ (gains[i].peak = gains[worst.gain].peak /\ worst.gain <= i)
              /\ values[i].peak < values[worst.value].peak
                    \/ (values[i].peak = values[worst.value].peak /\ worst.value <= i)
=============================================================================
