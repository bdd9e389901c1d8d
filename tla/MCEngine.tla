------------------------------ MODULE MCEngine ------------------------------
(* Two tools, b requiring a. *)
EXTENDS Engine

MCRequires == [n \in Names |-> IF n = "b" THEN {"a"} ELSE {}]
=============================================================================
