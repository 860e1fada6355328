------------------------------ MODULE SeqFile ------------------------------
(***************************************************************************)
(* A file of /proc that the kernel makes up while it is read (seq_file):   *)
(* one block of lines per entry of a table - the mappings of a process,    *)
(* the processors that are online, the sockets - which goes on changing.   *)
(* The whole module is external to the library.                            *)
(*                                                                         *)
(* The kernel shows an entry as a whole, in the state it has then, and     *)
(* goes on with the next key, however the table has changed meanwhile.  It *)
(* shows several entries per read(); a reader cannot tell that from        *)
(* showing each when the lines of the one before are used up.              *)
(***************************************************************************)
EXTENDS Integers, Sequences, FiniteSets

CONSTANTS
  Key,        \* where an entry is: its order in the file
  None,       \* nothing is there
  MaxChanges  \* bound: how often the table changes

ASSUME SeqAssumption ==
  /\ Key \subseteq Nat \ {0} /\ IsFiniteSet(Key)
  /\ MaxChanges \in Nat

VARIABLES
  table,     \* the entry at each key, or None
  changes,   \* bound
  opened,    \* the file is open
  position,  \* the key last shown; 0 before the first
  shown,     \* the entries shown since the file was opened, with their keys
  there,     \* history: the entries that have been as they are since then
  met        \* history: those that were there at some moment since then

seqVars == <<table, changes, opened, position, shown, there, met>>

-----------------------------------------------------------------------------
Shown(k) == [key |-> k, entry |-> table[k]]
Entries == {Shown(k) : k \in {j \in Key : table[j] # None}}

\* An entry of E comes, changes or goes.
Alter(E) ==
  /\ changes < MaxChanges
  /\ changes' = changes + 1
  /\ \E k \in Key, e \in E \cup {None} : table' = [table EXCEPT ![k] = e]
  /\ there' = there \cap Entries'
  /\ met' = met \cup Entries'
  /\ UNCHANGED <<opened, position, shown>>

\* open(): the file begins anew.
Seek ==
  /\ opened' = TRUE
  /\ position' = 0
  /\ shown' = <<>>
  /\ there' = Entries /\ met' = Entries
  /\ UNCHANGED <<table, changes>>

\* open() fails: nothing of the file is seen.
CannotOpen ==
  /\ opened' = FALSE
  /\ position' = 0
  /\ shown' = <<>>
  /\ there' = {} /\ met' = {}
  /\ UNCHANGED <<table, changes>>

Show(k) ==
  /\ opened /\ table[k] # None
  /\ k > position /\ \A j \in Key : j > position /\ table[j] # None => k <= j
  /\ position' = k
  /\ shown' = Append(shown, Shown(k))
  /\ UNCHANGED <<table, changes, opened, there, met>>

AtEnd == \A k \in Key : k > position => table[k] = None

-----------------------------------------------------------------------------
SeqInit(E) ==
  /\ table \in [Key -> E \cup {None}]
  /\ changes = 0
  /\ opened = FALSE
  /\ position = 0
  /\ shown = <<>>
  /\ there = {} /\ met = {}

SeqNext(E) ==
  \/ Alter(E)
  \/ Seek
  \/ CannotOpen
  \/ \E k \in Key : Show(k)

SeqTypeOK(E) ==
  /\ table \in [Key -> E \cup {None}]
  /\ changes \in 0 .. MaxChanges
  /\ opened \in BOOLEAN
  /\ position \in Key \cup {0}
  /\ shown \in Seq([key : Key, entry : E])
  /\ there \subseteq met /\ met \subseteq [key : Key, entry : E]

\* What the readers rest on: the entries shown rise by key, were all there
\* since the file was opened, and leave out nothing, up to the position, that
\* has been there all the time.
ShownOrder ==
  /\ \A j, k \in DOMAIN shown : j < k => shown[j].key < shown[k].key
  /\ \A k \in DOMAIN shown : shown[k].key <= position /\ shown[k] \in met
  /\ there \subseteq Entries /\ (opened => Entries \subseteq met)
  /\ \A s \in there : s.key <= position => \E k \in DOMAIN shown : shown[k] = s
=============================================================================
