--------------------------- MODULE MCRunAdmission ---------------------------
(* RunAdmission on a small instance: its constants are plain sets, which the *)
(* configuration gives. A symmetry of the callers would be sound for the     *)
(* invariants but not for CallsAnswered, so none is declared.                *)
EXTENDS RunAdmission
=============================================================================
