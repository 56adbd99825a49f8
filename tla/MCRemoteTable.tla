---------------------------- MODULE MCRemoteTable ----------------------------
(* RemoteTable on a small instance: see the runs remote_* in the README. *)
EXTENDS RemoteTable

CONSTANTS t1, t2, t3
=============================================================================
