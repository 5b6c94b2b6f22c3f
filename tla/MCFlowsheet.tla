----------------------------- MODULE MCFlowsheet -----------------------------
(***************************************************************************)
(* Flowsheet with two flowsheets, three block ids and the kinds whose ports *)
(* or widths a parameter edit changes.                                     *)
(***************************************************************************)
EXTENDS Flowsheet, TLC

Shape(kind, inputs, outputs, in, out, inherits) ==
    [kind |-> kind, inputs |-> inputs, outputs |-> outputs, in |-> in, out |-> out,
     inherits |-> inherits, initial |-> 1]

\* A source of two channels, a gain that inherits its width or fixes it at two,
\* a sum of one or two signs, a demux of one or two channels.
MCShapes ==
    {Shape("source", 0, 1, 0, 2, FALSE),
     Shape("gain", 1, 1, 0, 0, TRUE), Shape("gain", 1, 1, 2, 2, FALSE),
     Shape("sum", 1, 1, 1, 1, FALSE), Shape("sum", 2, 1, 1, 1, FALSE),
     Shape("demux", 1, 1, 1, 1, FALSE), Shape("demux", 1, 2, 2, 1, FALSE)}

\* Neither flowsheet is special.
AnyFlow == Permutations(Flows)

\* No guard reads the stamps, so states that differ only there are one state.
WithoutStamps == <<blocks, wires, roles>>
=============================================================================
