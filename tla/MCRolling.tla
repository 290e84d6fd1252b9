----------------------------- MODULE MCRolling -----------------------------
(* Rolling on small instances. *)
EXTENDS Rolling
=============================================================================
