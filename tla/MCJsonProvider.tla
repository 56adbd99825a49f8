---------------------------- MODULE MCJsonProvider ----------------------------
(* JsonProvider on small instances: see the runs json_* in the README. *)
EXTENDS JsonProvider, Batches
=============================================================================
