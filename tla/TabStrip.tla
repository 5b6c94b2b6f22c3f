------------------------------ MODULE TabStrip ------------------------------
(***************************************************************************)
(* What the workspace promises: every project is a strip of flowsheet tabs *)
(* in the order its user gave them, and every operation says which tab is  *)
(* open afterwards.  No ids are ordered and no positions are kept here.    *)
(***************************************************************************)
EXTENDS Naturals, Sequences, FiniteSets, SequencesExt

CONSTANTS
    Projects,  \* the names projects may have
    Sheets     \* the names flowsheets may have

VARIABLES
    strips,  \* project |-> its flowsheets, left to right
    open     \* <<project, flowsheet>>: the tab the last answer shows

vars == <<strips, open>>

Tabs(p) == ToSet(strips[p])
Used    == UNION {Tabs(p) : p \in DOMAIN strips}

Init == \E p \in Projects, f \in Sheets : strips = [q \in {p} |-> <<f>>] /\ open = <<p, f>>

\* A new project opens on a flowsheet of its own.
NewProject(p, f) ==
    /\ p \notin DOMAIN strips /\ f \notin Used
    /\ strips' = [q \in DOMAIN strips \cup {p} |-> IF q = p THEN <<f>> ELSE strips[q]]
    /\ open' = <<p, f>>

\* The last project stays; what opens is the first tab of another.
DropProject(p) ==
    /\ \E q \in DOMAIN strips \ {p} : open' = <<q, strips[q][1]>>
    /\ strips' = [q \in DOMAIN strips \ {p} |-> strips[q]]

NewSheet(p, f) ==
    /\ f \notin Used
    /\ strips' = [strips EXCEPT ![p] = Append(@, f)]
    /\ open' = <<p, f>>

\* A copy opens immediately right of the tab it came from.
CopySheet(p, i, f) ==
    /\ f \notin Used
    /\ strips' = [strips EXCEPT ![p] = InsertAt(@, i + 1, f)]
    /\ open' = <<p, f>>

\* The last tab of a project stays; the left neighbour opens, or the right one.
DropSheet(p, i) ==
    /\ Len(strips[p]) > 1
    /\ strips' = [strips EXCEPT ![p] = RemoveAt(@, i)]
    /\ open' = <<p, strips[p][IF i = 1 THEN 2 ELSE i - 1]>>

Reorder(p) ==
    /\ \E order \in SetToSeqs(Tabs(p)) : /\ strips' = [strips EXCEPT ![p] = order]
                                         /\ open' = <<p, order[1]>>

Visit(p, f) ==
    /\ f \in Tabs(p)
    /\ open' = <<p, f>>
    /\ UNCHANGED strips

\* Which id a new project or flowsheet gets is left to the implementation.
Next ==
    \/ \E p \in DOMAIN strips' \ DOMAIN strips : NewProject(p, open'[2])
    \/ \E p \in DOMAIN strips :
         \/ DropProject(p)
         \/ NewSheet(p, open'[2])
         \/ \E i \in DOMAIN strips[p] : CopySheet(p, i, open'[2]) \/ DropSheet(p, i)
         \/ Reorder(p)
         \/ \E f \in Tabs(p) : Visit(p, f)

Spec == Init /\ [][Next]_vars
=============================================================================
