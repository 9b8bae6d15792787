-------------------------- MODULE MCConnectionPool ---------------------------
(* ConnectionPool for TLC; its constants have their values in the cfg. *)
EXTENDS ConnectionPool
=============================================================================
