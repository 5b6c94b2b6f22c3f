-------------------------- MODULE ControllerHistory --------------------------
(***************************************************************************)
(* What the controller workflow promises about the diagrams                *)
(* (docs/controller-candidate-workflow.md): applying a candidate is one    *)
(* change, and an undo takes back exactly that change, once, and only as   *)
(* long as nothing else happened to the diagram.  Candidates implements it.*)
(***************************************************************************)
CONSTANTS Flows,    \* the flowsheet ids in use
          Contents, \* what a diagram may compute
          None      \* no flowsheet has this id

VARIABLES content, \* the diagram of each flowsheet
          story    \* the last thing that happened to it

vars == <<content, story>>

Changed == [kind |-> "changed"]
Undone == [kind |-> "undone"]
Applied(before) == [kind |-> "applied", before |-> before]

Init ==
    /\ content \in [Flows -> Contents \cup {None}]
    /\ story = [f \in Flows |-> Changed]

\* An edit, a deletion, or a new flowsheet.
Change(f) ==
    /\ \E c \in Contents \cup {None} : content' = [content EXCEPT ![f] = c]
    /\ story' = [story EXCEPT ![f] = Changed]

Apply(f) ==
    /\ content[f] # None
    /\ \E c \in Contents : content' = [content EXCEPT ![f] = c]
    /\ story' = [story EXCEPT ![f] = Applied(content[f])]

Undo(f) ==
    /\ story[f].kind = "applied"
    /\ content' = [content EXCEPT ![f] = story[f].before]
    /\ story' = [story EXCEPT ![f] = Undone]

Next == \E f \in Flows : Change(f) \/ Apply(f) \/ Undo(f)

Spec == Init /\ [][Next]_vars
=============================================================================
