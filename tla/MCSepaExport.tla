---------------------------- MODULE MCSepaExport ----------------------------
(***************************************************************************)
(* SepaExport with two exporters.                                          *)
(***************************************************************************)
EXTENDS SepaExport

CONSTANTS e1, e2
=============================================================================
