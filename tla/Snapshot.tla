------------------------------ MODULE Snapshot ------------------------------
(***************************************************************************)
(* What a function of the library promises that lists what the kernel has  *)
(* - mappings, processors, processes - and copies it entry by entry while  *)
(* entries come, change and go: no buffers, lines or batches, only a call  *)
(* and its answer.                                                         *)
(*                                                                         *)
(* The answer need not be a picture of any one moment.  It is made of      *)
(* entries that were there at some moment of the call, at most one for     *)
(* each place, and leaves out none that was there all the time; once       *)
(* given, it does not change until the next call.  A call that throws      *)
(* leaves a part of an answer, and a call that cannot open the file is     *)
(* answered as if there were no entries.                                   *)
(***************************************************************************)
CONSTANTS
  Read(_),   \* what is made of an entry
  Place(_)   \* where an entry is

VARIABLES
  entries,   \* the entries there are
  phase,     \* "none": no answer that holds, "busy": in a call, "answered"
  there,     \* in a call, the entries that have been there since it began
  met,       \* in a call, those that were there at some moment since then
  answer     \* what has been made of entries; nothing while in a call

snapshotVars == <<entries, phase, there, met, answer>>

Init ==
  /\ phase = "none"
  /\ there = {} /\ met = {}
  /\ answer = {}

Alter ==
  /\ there' = there \cap entries'
  /\ met' = IF phase = "busy" THEN met \cup entries' ELSE met
  /\ UNCHANGED <<phase, answer>>

Begin ==
  /\ phase # "busy" /\ phase' = "busy"
  /\ there' = entries /\ met' = entries
  /\ answer' = {}
  /\ UNCHANGED entries

\* The call ends with what has been made of the entries A.
End(A) ==
  /\ phase = "busy"
  /\ A \subseteq met
  /\ \A s, t \in A : Place(s) = Place(t) => s = t
  /\ answer' = {Read(s) : s \in A}
  /\ there' = {} /\ met' = {}
  /\ UNCHANGED entries

Return(A) == there \subseteq A /\ End(A) /\ phase' = "answered"

Throw(A) == End(A) /\ phase' = "none"

CannotOpen ==
  /\ phase # "busy" /\ phase' = "answered"
  /\ answer' = {}
  /\ UNCHANGED <<entries, there, met>>

\* The caller has no more use for the answer.
Dismiss ==
  /\ phase = "answered" /\ phase' = "none"
  /\ UNCHANGED <<entries, there, met, answer>>

Next ==
  \/ Alter
  \/ Begin
  \/ \E A \in SUBSET met : Return(A) \/ Throw(A)
  \/ CannotOpen
  \/ Dismiss

Spec == Init /\ [][Next]_snapshotVars
=============================================================================
