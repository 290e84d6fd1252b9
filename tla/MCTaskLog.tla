----------------------------- MODULE MCTaskLog -----------------------------
(* TaskLog on small instances. *)
EXTENDS TaskLog
=============================================================================
