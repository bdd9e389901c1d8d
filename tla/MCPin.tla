------------------------------- MODULE MCPin -------------------------------
(* Three versions on the volume, the second of them pinned. *)
EXTENDS Pin
=============================================================================
