------------------------------- MODULE MCApt -------------------------------
(* One package whose name apt would expand, in two versions. *)
EXTENDS AptEntry
=============================================================================
