-------------------------- MODULE MC_ProcessUsage --------------------------
(***************************************************************************)
(* Instances of ProcessUsage for TLC.  The cfgs differ in the getters the  *)
(* client calls and in how many objects it holds.                          *)
(***************************************************************************)
EXTENDS ProcessUsage, TLC

\* Objects have no identity beyond their slot.
ObjSymmetry == Permutations(Obj)

\* seen and owed say what has happened and decide nothing that may happen:
\* states that differ in them alone are explored once.
WithoutHistory ==
  <<kernelVars, objectVars, fault, cpuTotal, oldstate, due, usage, call, billed>>

\* seen, usage and owed say what has happened and decide nothing that
\* may happen: states that differ in them alone are explored once.  For
\* properties that do not ask for their values; Spec mentions seen, but a step
\* changes it the same way whatever it holds.
WithoutResults ==
  <<kernelVars, objectVars, fault, cpuTotal, oldstate, due, call, billed>>
===========================================================================
