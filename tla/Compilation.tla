----------------------------- MODULE Compilation -----------------------------
(***************************************************************************)
(* Compiling a diagram into one linear system (internal/studio/simulate.go, *)
(* compileRequestedModel; time_domain.go; compiled_model.go) and simulating *)
(* it.  Compilation is a sequence of passes over the blocks and wires of a *)
(* snapshot, each of which may refuse; every pass is an action here.       *)
(*                                                                         *)
(* Rates and delays are counted in ticks; readings that the code compares  *)
(* with a tolerance of 1e-9 are whole ticks.  The matrices are left out:   *)
(* of a block its contract is left (Catalog), of the system its wires, its *)
(* rate and its delays, and whether the interconnection can be solved is   *)
(* the library's choice when blocks without dynamics form a loop.          *)
(***************************************************************************)
EXTENDS Catalog, SignalWidths, Sequences
LOCAL INSTANCE FiniteSetsExt

CONSTANT MaxResultChannels   \* 16 in the code
ASSUME ResultBound == MaxResultChannels \in Nat \ {0}

VARIABLES
    asked,      \* the diagram and the request: [blocks, wires, sinks, probes, step]
    pass,     \* the next pass, "compiled", "simulated", "refused" or "idle"
    found     \* what the passes found: [rates, outputs, delays, system, why]

compileVars == <<asked, pass, found>>

NoJob == [blocks |-> << >>, wires |-> {}, sinks |-> TRUE, probes |-> {}, step |-> 0]
NothingFound == [rates |-> << >>, outputs |-> {}, delays |-> << >>, system |-> Neutral, why |-> ""]

\* A request to compile or simulate a snapshot's blocks and wires.
CompileInit(request) ==
    /\ asked = request
    /\ pass = IF asked = NoJob THEN "idle" ELSE "collect"
    /\ found = NothingFound

Ids       == DOMAIN asked.blocks
Block(b)  == asked.blocks[b]
Sources   == {b \in Ids : Block(b).role = "source"}
Sinks     == {b \in Ids : Block(b).role = "sink"}
Into(b)   == {w \in asked.wires : w.target = b}
TimeOf(b) == Block(b).time
Timed     == {b \in Ids : TimeOf(b).kind = "discrete"}
Dynamical == {b \in Ids : TimeOf(b).kind = "continuous"}

Refuses(why) == pass' = "refused" /\ found' = [found EXCEPT !.why = why] /\ UNCHANGED asked
GoesOn(next) == pass' = next /\ UNCHANGED <<asked, found>>
Passes(ok, next, why) == IF ok THEN GoesOn(next) ELSE Refuses(why)

CollectBlocks ==
    /\ pass = "collect"
    /\ Passes(/\ Sources # {}
              /\ asked.sinks => Sinks # {}
              /\ ~asked.sinks => asked.probes # {}, "widths", "ends")

ResolveSignalWidths ==
    /\ pass = "widths"
    /\ Passes(WidthsResolve(asked.blocks, asked.wires), "wires", "widths")

CheckWires ==
    /\ pass = "wires"
    /\ Passes(\A w \in asked.wires :
                 /\ HasOutputPort(Block(w.source), w.sourcePort)
                 /\ HasInputPort(Block(w.target), w.targetPort), "rates", "ports")

(***************************************************************************)
(* resolveModelSampleTimes                                                 *)
(***************************************************************************)
\* Wires of a block with continuous dynamics carry no rate.
Neighbors(b) ==
    IF b \in Dynamical THEN {}
    ELSE {d \in Ids \ Dynamical :
            \E w \in asked.wires : {w.source, w.target} = {b, d}}

\* Whom the rate of a block may reach: everyone in its component.
Component(b) ==
    LET Wider(S) == S \cup UNION {Neighbors(d) : d \in S}
        after[n \in 0..Cardinality(Ids)] == IF n = 0 THEN {b} ELSE Wider(after[n - 1])
    IN  after[Cardinality(Ids)]

Anchors(b)  == {TimeOf(d).rate : d \in Component(b) \cap Timed} \ {Inherited}
Inherits(b) == TimeOf(b).rate = Inherited

\* An inherited rate is the one of the component, or else the step of the run.
ResolvedRate(b) ==
    IF ~Inherits(b) THEN TimeOf(b).rate
    ELSE IF Anchors(b) # {} THEN CHOOSE rate \in Anchors(b) : TRUE
    ELSE asked.step

AreContested(b) == Inherits(b) /\ Cardinality(Anchors(b)) > 1

\* The parameters are validated again with the rate they got.
ResolveSampleTimes ==
    /\ pass = "rates"
    /\ LET rates == [b \in Timed |-> ResolvedRate(b)]
       IN  IF \E b \in Timed : AreContested(b) THEN Refuses("contested")
           ELSE IF \E b \in Timed : rates[b] = 0 THEN Refuses("unrated")
           ELSE IF \E b \in Timed : rates[b] > Block(b).slowest THEN Refuses("parameters")
           ELSE /\ pass' = "inputs" /\ found' = [found EXCEPT !.rates = rates]
                /\ UNCHANGED asked

(***************************************************************************)
(* Arity, ports and realisations                                           *)
(***************************************************************************)
InputsAreRight(b) ==
    /\ CASE Arity(Block(b)) = "none"     -> Into(b) = {}
         [] Arity(Block(b)) = "variadic" -> Into(b) # {}
         [] OTHER                        -> Cardinality(Into(b)) = 1
    /\ Block(b).every => Cardinality(Into(b)) = Block(b).inputs
    /\ \A v, w \in Into(b) : v.targetPort = w.targetPort => v = w

CheckInputs ==
    /\ pass = "inputs"
    /\ Passes(\A b \in Ids : InputsAreRight(b), "realize", "inputs")

RealizeBlocks ==
    /\ pass = "realize"
    /\ Passes(\A b \in Ids : Block(b).realizes, "domains", "realization")

(***************************************************************************)
(* applyCompiledTimeDomains                                                *)
(***************************************************************************)
\* A run of a step updates every block at every sample; without a run the rates must be
\* one.
RatesAgree(rates) ==
    /\ asked.step > 0 => \A b \in DOMAIN rates : rates[b] = asked.step
    /\ \A b, d \in DOMAIN rates : rates[b] = rates[d]

ApplyTimeDomains ==
    /\ pass = "domains"
    /\ LET rates == found.rates
       IN  IF Timed = {}
           THEN /\ pass' = "outputs" /\ UNCHANGED asked
                /\ found' = [found EXCEPT !.system = Continuous]
           ELSE IF Dynamical # {} THEN Refuses("mixed")
           ELSE IF ~RatesAgree(rates) THEN Refuses("rates")
           ELSE /\ pass' = "outputs" /\ UNCHANGED asked
                /\ \E b \in Timed : found' = [found EXCEPT !.system = Discrete(rates[b])]

(***************************************************************************)
(* Outputs and exact delays                                                *)
(***************************************************************************)
\* A sink is read at the port it is given.
HasSignal(probe) ==
    probe.port < IF Block(probe.block).role = "sink" THEN Block(probe.block).inputs
                 ELSE Block(probe.block).outputs

SelectOutputs ==
    /\ pass = "outputs"
    /\ LET probes == {[block |-> b, port |-> 0] : b \in IF asked.sinks THEN Sinks ELSE {}}
                        \cup asked.probes
       IN  IF \A p \in probes : p.block \in Ids /\ HasSignal(p)
           THEN /\ pass' = "delays" /\ UNCHANGED asked
                /\ found' = [found EXCEPT !.outputs = probes]
           ELSE Refuses("probe")

IsStatic == \A b \in Ids : Block(b).states = 0
After(b) == {w.target : w \in {x \in asked.wires : x.source = b}}

\* exactPathDelays: a walk that stops at the target, or where it has been before.
PathDelays(source, target) ==
    LET Walks[path \in Seq(Ids)] ==
            LET here == path[Len(path)]
                past == {path[i] : i \in 1..(Len(path) - 1)}
            IN  IF here = target THEN {path}
                ELSE IF here \in past THEN {<< >>}
                ELSE UNION {Walks[Append(path, next)] : next \in After(here)}
        Delay[path \in Seq(Ids)] ==
            IF path = << >> THEN 0 ELSE Block(Head(path)).delay + Delay[Tail(path)]
        walks == Walks[<<source>>]
    IN  [cycle |-> << >> \in walks, delays |-> {Delay[path] : path \in walks \ {<< >>}}]

\* Faulty variant: of parallel paths the shortest counts.
IsExact_Shortest(paths) == ~paths.cycle

IsExact(paths) == ~paths.cycle /\ Cardinality(paths.delays) <= 1

\* Without any state the exact delays are taken out of the blocks and put on the pairs of
\* source and output.
AttachExactDelays ==
    /\ pass = "delays"
    /\ IF IsStatic /\ \E b \in Ids : Block(b).delay > 0
       THEN LET pairs == Sources \X found.outputs
                paths == [p \in pairs |-> PathDelays(p[1], p[2].block)]
            IN  IF \A p \in pairs : IsExact(paths[p])
                THEN /\ pass' = "connect" /\ UNCHANGED asked
                     /\ found' = [found EXCEPT !.delays =
                            [p \in pairs |-> IF paths[p].delays = {} THEN 0
                                             ELSE CHOOSE d \in paths[p].delays : TRUE]]
                ELSE Refuses("delays")
       ELSE GoesOn("connect")

\* Blocks through which a signal acts at once; attached delays leave a gain behind.
ActsAtOnce(b) == Block(b).direct \/ found.delays # << >>

LoopsAtOnce ==
    LET Next(S) == S \cup UNION {After(b) : b \in {c \in S : ActsAtOnce(c)}}
        after[b \in Ids, n \in 0..Cardinality(Ids)] ==
            IF n = 0 THEN (IF ActsAtOnce(b) THEN After(b) ELSE {}) ELSE Next(after[b, n - 1])
    IN  \E b \in Ids : b \in after[b, Cardinality(Ids)]

\* The delays are one for each source and output port, the library wants one for each of
\* their channels.
DelaysFit ==
    /\ \A b \in Sources : Block(b).out = 1
    /\ \A p \in found.outputs :
          1 = IF p.block \in Sinks THEN Block(p.block).in
              ELSE ResolvedWidths(asked.blocks, asked.wires)[p.block]

\* The library solves the loops of blocks without dynamics, unless they are singular.
ConnectByName ==
    /\ pass = "connect"
    /\ \/ (found.delays # << >> => DelaysFit) /\ GoesOn("compiled")
       \/ found.delays # << >> /\ ~DelaysFit /\ Refuses("channels")
       \/ LoopsAtOnce /\ Refuses("loop")

CompilePass ==
    \/ CollectBlocks \/ ResolveSignalWidths \/ CheckWires \/ ResolveSampleTimes \/ CheckInputs
    \/ RealizeBlocks \/ ApplyTimeDomains \/ SelectOutputs \/ AttachExactDelays \/ ConnectByName

(***************************************************************************)
(* simulate: a compiled model is run at the step of the request            *)
(***************************************************************************)
HasDelay == \E b \in Ids : Block(b).delay > 0

\* validateExactDelaySampling
DelaysAreAligned ==
    found.system = Continuous /\ HasDelay => \A b \in Ids : Block(b).delay % asked.step = 0

\* Every channel of a sink is stored.
ResultChannels == MapThenSumSet(LAMBDA b : Block(b).in, Sinks)

Simulate ==
    /\ pass = "compiled" /\ asked.sinks /\ asked.step > 0
    /\ Passes(ResultChannels <= MaxResultChannels /\ DelaysAreAligned, "simulated", "run")

CompileStep == CompilePass \/ Simulate

(***************************************************************************)
(* Properties                                                              *)
(***************************************************************************)
IsCompiled == pass \in {"compiled", "simulated"}

\* What the next sample of a source may still change at an output: the delays on the ways
\* from one to the other.
Ways(source, target) ==
    LET Longer(S) == S \cup {Append(way, next) : way \in S, next \in Ids}
        all[n \in 0..(Cardinality(Ids) - 1)] == IF n = 0 THEN {<<source>>} ELSE Longer(all[n - 1])
    IN  {way \in all[Cardinality(Ids) - 1] :
            /\ way[Len(way)] = target
            /\ \A i \in 1..(Len(way) - 1) : way[i + 1] \in After(way[i])}

DelayOf(way) ==
    LET sum[i \in 0..Len(way)] == IF i = 0 THEN 0 ELSE sum[i - 1] + Block(way[i]).delay
    IN  sum[Len(way)]

\* A compiled model is the diagram: each declared input hears exactly one wire, of its
\* own width; there is one time domain and one rate, the step of the run if there is one,
\* which every inherited rate of a component with an explicit one agrees with; a model
\* without states delays each source on the way to each sink by what the diagram says,
\* and a simulated one has its delays on the grid.
CompiledModelsAreTheDiagram ==
    /\ IsCompiled =>
         /\ \A b \in Ids : \A port \in 0..(Block(b).inputs - 1) :
              Cardinality({w \in Into(b) : w.targetPort = port}) = 1
         /\ LET widths == ResolvedWidths(asked.blocks, asked.wires)
            IN  \A w \in asked.wires :
                   widths[w.source] = InWidth(asked.blocks, widths, w.target)
         /\ Timed # {} => Dynamical = {} /\ found.system.kind = "discrete"
         /\ \A b \in Timed : /\ found.rates[b] = found.system.rate
                             /\ TimeOf(b).rate \in {Inherited, found.system.rate}
                             /\ asked.step \in {0, found.system.rate}
         /\ \A p \in DOMAIN found.delays : p[2].block \in Sinks =>
              \A way \in Ways(p[1], p[2].block) : DelayOf(way) = found.delays[p]
    /\ pass = "simulated" /\ Timed = {} => \A b \in Ids : Block(b).delay % asked.step = 0
    /\ pass = "refused" /\ found.why \in {"contested", "unrated", "rates", "mixed"} =>
         \/ Timed # {} /\ Dynamical # {}
         \/ \E b, d \in Timed : TimeOf(b).rate # TimeOf(d).rate
         \/ \E b \in Timed : (asked.step = 0 /\ Inherits(b)) \/ TimeOf(b).rate \notin {Inherited, asked.step}
=============================================================================
