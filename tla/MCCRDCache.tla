----------------------------- MODULE MCCRDCache -----------------------------
(* Two files and two schema names.                                         *)
EXTENDS CRDCache

CONSTANTS f1, f2

MCOrder == <<f1, f2>>
=============================================================================
