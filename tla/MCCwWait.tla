------------------------------ MODULE MCCwWait ------------------------------
(* The model values the CwWait configurations use.                       *)
EXTENDS CwWait

CONSTANTS c1, c2
=============================================================================
