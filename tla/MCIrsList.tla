------------------------------ MODULE MCIrsList ------------------------------
(***************************************************************************)
(* Data for IrsList.                                                       *)
(***************************************************************************)
EXTENDS IrsList

CONSTANTS a, b, none
=============================================================================
