----------------------------- MODULE MC_Readers -----------------------------
(***************************************************************************)
(* An instance of Smaps and CpuInfo for TLC.  A behaviour is about one of  *)
(* the two files, chosen at the start: the other reader stays where it is. *)
(***************************************************************************)
EXTENDS Smaps, CpuInfo, TLC

VARIABLE path

\* Two mappings that differ in everything and one maps() cannot read.
MCRegion ==
  { [offset |-> "digits", size |-> 4, vmflags |-> "rd"],
    [offset |-> "digits", size |-> 12, vmflags |-> "wr"],
    [offset |-> "letter first", size |-> 4, vmflags |-> "wr"] }

\* Two threads of a package and one of another, one without a topology, and
\* one whose stepping the kernel does not know.
MCThread ==
  { [physical_id |-> 0, core_id |-> 0, stepping |-> "number", flags |-> <<"fpu">>],
    [physical_id |-> 0, core_id |-> 1, stepping |-> "number", flags |-> <<"fpu">>],
    [physical_id |-> 1, core_id |-> 0, stepping |-> "number", flags |-> <<"fpu", "ht">>],
    [physical_id |-> Absent, core_id |-> Absent, stepping |-> "number", flags |-> <<"ht">>],
    [physical_id |-> 1, core_id |-> 1, stepping |-> "unknown", flags |-> <<"fpu">>] }

\* Bound: how often the processors change; there are more of them to choose
\* from than mappings.
MaxPlugged == 2

readersVars == <<path, seqVars, smapsVars, cpuVars>>

ReadersInit ==
  \/ path = "/proc/<pid>/smaps" /\ SmapsInit /\ CpuOwnInit
  \/ path = "/proc/cpuinfo" /\ CpuInit /\ SmapsOwnInit

ReadersNext ==
  /\ path' = path
  /\ \/ path = "/proc/<pid>/smaps" /\ SmapsNext /\ UNCHANGED cpuVars
     \/ path = "/proc/cpuinfo" /\ CpuNext /\ changes' <= MaxPlugged /\ UNCHANGED smapsVars

ReadersSpec == ReadersInit /\ [][ReadersNext]_readersVars
=============================================================================
