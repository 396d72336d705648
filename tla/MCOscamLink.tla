---------------------------- MODULE MCOscamLink ----------------------------
(* The model values the OscamLink configurations use.                    *)
EXTENDS OscamLink

CONSTANTS a1, a2, s1, s2, x, f1, f2
=============================================================================
