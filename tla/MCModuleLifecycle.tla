------------------------- MODULE MCModuleLifecycle ---------------------------
(* ModuleLifecycle for TLC. *)
EXTENDS ModuleLifecycle

CONSTANTS s1, s2

(* Lists that shrink, grow and are empty. *)
Lists == {<<>>, <<s1>>, <<s1, s2>>}
=============================================================================
