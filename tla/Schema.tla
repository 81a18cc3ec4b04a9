-------------------------------- MODULE Schema --------------------------------
(* What the modules about single parts of the system have in common: the   *)
(* null of the code, and the verdicts of a run.                            *)

CONSTANT None

PublicVerdict == {"PASS", "FAIL", "INCONCLUSIVE"}
===============================================================================
