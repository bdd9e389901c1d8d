--------------------------- MODULE MCPackageBins ---------------------------
(***************************************************************************)
(* A package whose second version drops one executable and brings another, *)
(* which the third is left with, and whose fourth has none, from sources   *)
(* named like one of its executables or like none.                         *)
(***************************************************************************)
EXTENDS PackageBins

MCConv  == [s \in Sources |-> IF s \in {"scoped", "pip"} THEN "other" ELSE "main"]
MCShips == <<{"main", "old"}, {"main", "new"}, {"new"}, {}>>
============================================================================
