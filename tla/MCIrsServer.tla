----------------------------- MODULE MCIrsServer -----------------------------
(***************************************************************************)
(* Clients for IrsServer.                                                  *)
(***************************************************************************)
EXTENDS IrsServer

CONSTANTS c1, c2
=============================================================================
