--------------------------- MODULE MCSimpleProvider ---------------------------
(* SimpleProvider on small instances: see the runs simple_* in the README. *)
EXTENDS SimpleProvider, Batches
=============================================================================
