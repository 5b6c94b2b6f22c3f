--------------------------- MODULE MCDocumentApply ---------------------------
(***************************************************************************)
(* DocumentApply with two flowsheets and two block ids, so that the id of a *)
(* deleted block is soon another block's.                                  *)
(***************************************************************************)
EXTENDS DocumentApply, TLC

\* A source and a sum of one or two signs whose signals have one channel, or
\* of one sign that adds two channels up.
Shape(kind, inputs, in) ==
    [kind |-> kind, inputs |-> inputs, outputs |-> 1, in |-> in, out |-> 1,
     inherits |-> FALSE, initial |-> 1]
MCShapes == {Shape("source", 0, 0), Shape("sum", 2, 1), Shape("sum", 1, 2)}

\* Neither flowsheet is special.
AnyFlow == Permutations(Flows)

\* A store is not followed beyond the first apply committed over an edit it had
\* not read; the state that leaves is still checked.
BeforeFirstContest == ~tainted

\* No guard reads the stamps, so states that differ only there are one state.
WithoutStamps == <<blocks, wires, roles, request, tainted>>
=============================================================================
