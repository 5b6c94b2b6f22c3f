----------------------------- MODULE MCWorkspace -----------------------------
(***************************************************************************)
(* Workspace with two clients, three projects and four flowsheets.           *)
(***************************************************************************)
EXTENDS Workspace

\* Clients differ in nothing but their names.
AnyClient == Permutations(Clients)
=============================================================================
