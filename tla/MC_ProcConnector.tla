-------------------------- MODULE MC_ProcConnector -------------------------
(***************************************************************************)
(* Instances of ProcConnector for TLC.                                     *)
(***************************************************************************)
EXTENDS ProcConnector, TLC

\* The threads of listen(false) are alike.
WorkerSymmetry == Permutations(Worker)
===========================================================================
