----------------------------- MODULE MCPublish -----------------------------
(* Three versions of a tool; the second drops one of two executables. *)
EXTENDS Publish

MCDeclares == [v \in Versions |-> IF v = 2 THEN {"b"} ELSE {"b", "c"}]
=============================================================================
