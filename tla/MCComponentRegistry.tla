------------------------- MODULE MCComponentRegistry -------------------------
(* The registry on a small instance: its constants are plain sets, which the *)
(* configuration gives. Tasks differ in kind and components in their         *)
(* dependencies, so no symmetry is declared.                                 *)
EXTENDS ComponentRegistry
=============================================================================
