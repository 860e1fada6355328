--------------------------- MODULE MC_ProcessList ---------------------------
(***************************************************************************)
(* An instance of ProcessList for TLC.                                     *)
(***************************************************************************)
EXTENDS ProcessList, TLC
=============================================================================
