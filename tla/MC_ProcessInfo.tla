-------------------------- MODULE MC_ProcessInfo --------------------------
(***************************************************************************)
(* Instances of ProcessInfo for TLC.  The cfgs differ in the files whose   *)
(* getters the client calls: those that replace their members, and those   *)
(* that keep or accumulate.                                                *)
(***************************************************************************)
EXTENDS ProcessInfo, TLC

\* Objects have no identity beyond their slot.
ObjSymmetry == Permutations(Obj)

\* Bound: a behaviour is about the files whose members are replaced or about those
\* whose members accumulate.  The properties speak of one file at a time, and no
\* getter of a file touches the flag or the member of another.
Used(f) ==
  \/ \E p \in Pid : file[p][f] \notin {NoFile, NewbornFile(f)}
  \/ \E o \in Obj : /\ pidof[o] # NoPid
                    /\ f \notin dirty[o] \/ mem[o][f] # FreshMember(f)

Accumulating == {"status", "io"}

OneKindOfFile ==
  \/ \A f \in Getters \cap Accumulating : ~Used(f)
  \/ \A f \in Getters \ Accumulating : ~Used(f)
===========================================================================
