----------------------------- MODULE MCReloads -----------------------------
(***************************************************************************)
(* A small instance of Reloads.                                            *)
(***************************************************************************)
EXTENDS Reloads
============================================================================
