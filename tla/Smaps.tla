------------------------------- MODULE Smaps -------------------------------
(***************************************************************************)
(* ProcessInfo::maps(), readSmaps() and the constructor of MMap: the file  *)
(* /proc/<pid>/smaps is cut into one stream per mapping, and each stream   *)
(* parsed.  The process maps and unmaps memory while the file is read.     *)
(*                                                                         *)
(* A block is modelled by three of its lines, which stand for the ways a   *)
(* line is treated: the declaration, Size for the numbers, and VmFlags,    *)
(* which the kernel prints last.                                           *)
(*                                                                         *)
(* A definition f_Variant is a faulty form of f that no specification      *)
(* uses: it is there to see which property would notice the fault.         *)
(***************************************************************************)
EXTENDS SeqFile

CONSTANTS
  Region,    \* the mappings there may be: [offset, size, vmflags]
  Unset,     \* an int that the constructor of MMap leaves as it is
  MaxCalls   \* bound: how often maps() reads

ASSUME SmapsAssumption ==
  /\ \A r \in Region : r.offset \in {"digits", "letter first"} /\ r.size \in Nat
  /\ MaxCalls \in Nat

VARIABLES
  reading,   \* a call of maps() is in the while of readSmaps()
  m_need_update_smaps,
  coming,    \* the lines of the file read() has buffered
  map_stream,
  m_maps,
  calls      \* bound

smapsVars == <<reading, m_need_update_smaps, coming, map_stream, m_maps, calls>>
allVars == <<seqVars, smapsVars>>

-----------------------------------------------------------------------------
\* The kernel prints the offset in hexadecimal, without a sign, and the flags
\* without "-": the declaration is the one line that holds a "-".
Block(s) ==
  << [field |-> "declaration", value |-> [from |-> s.key, offset |-> s.entry.offset]],
     [field |-> "Size", value |-> s.entry.size],
     [field |-> "VmFlags", value |-> s.entry.vmflags] >>

\* MMap(map_stream).  The first line is taken for the declaration; then the
\* last line wins that suits.  A number is one digit and a blank (regex_value):
\* any other value, a number of two digits too, is split into m_vmflags.
LastValue(ss, K) == ss[CHOOSE k \in K : \A j \in K : j <= k].value

OneDigit(line) == line.field = "Size" /\ line.value < 10
Numbers(ss) == {k \in DOMAIN ss : k > 1 /\ OneDigit(ss[k])}
Words(ss) == {k \in DOMAIN ss : k > 1 /\ ~OneDigit(ss[k])}

Declared(ss) == ss # <<>> /\ ss[1].field = "declaration"

MMap(ss) ==
  [from |-> IF Declared(ss) THEN ss[1].value.from ELSE Unset,
   m_size |-> IF Numbers(ss) = {} THEN Unset ELSE LastValue(ss, Numbers(ss)),
   m_vmflags |-> IF Words(ss) = {} THEN Unset ELSE LastValue(ss, Words(ss))]

\* std::stol reads the offset as decimal and throws if there is no digit first.
Throws(ss) == Declared(ss) /\ ss[1].value.offset = "letter first"

-----------------------------------------------------------------------------
UpdateMaps ==
  /\ ~reading /\ ~m_need_update_smaps
  /\ m_need_update_smaps' = TRUE
  /\ UNCHANGED <<seqVars, reading, coming, map_stream, m_maps, calls>>

\* maps(), the flag being up, to the while of readSmaps().
BeginMaps_Keeps ==
  /\ ~reading /\ m_need_update_smaps /\ calls < MaxCalls
  /\ calls' = calls + 1
  /\ \/ Seek /\ reading' = TRUE /\ m_need_update_smaps' = TRUE
     \/ CannotOpen /\ reading' = FALSE /\ m_need_update_smaps' = FALSE
  /\ coming' = <<>> /\ map_stream' = <<>>
  /\ UNCHANGED m_maps

BeginMaps ==
  /\ ~reading /\ m_need_update_smaps /\ calls < MaxCalls
  /\ calls' = calls + 1
  /\ m_maps' = <<>>
  /\ \/ Seek /\ reading' = TRUE /\ m_need_update_smaps' = TRUE
     \/ CannotOpen /\ reading' = FALSE /\ m_need_update_smaps' = FALSE
  /\ coming' = <<>> /\ map_stream' = <<>>

\* The kernel's part of std::getline().
ReadMaps(k) ==
  /\ reading /\ coming = <<>>
  /\ Show(k)
  /\ coming' = Block(Shown(k))
  /\ UNCHANGED <<reading, m_need_update_smaps, map_stream, m_maps, calls>>

\* One round of the while.  A line that declares no new mapping, and the first
\* line of all, go to the stream.
NewDeclaration == Head(coming).field = "declaration" /\ map_stream # <<>>

AddLine ==
  /\ reading /\ coming # <<>> /\ ~NewDeclaration
  /\ coming' = Tail(coming)
  /\ map_stream' = Append(map_stream, Head(coming))
  /\ UNCHANGED <<seqVars, reading, m_need_update_smaps, m_maps, calls>>

\* A new declaration ends the mapping before it.
CutMap_KeepsStream ==
  /\ reading /\ coming # <<>> /\ NewDeclaration /\ ~Throws(map_stream)
  /\ m_maps' = Append(m_maps, MMap(map_stream))
  /\ coming' = Tail(coming)
  /\ map_stream' = Append(map_stream, Head(coming))
  /\ UNCHANGED <<seqVars, reading, m_need_update_smaps, calls>>

CutMap ==
  /\ reading /\ coming # <<>> /\ NewDeclaration /\ ~Throws(map_stream)
  /\ m_maps' = Append(m_maps, MMap(map_stream))
  /\ coming' = Tail(coming)
  /\ map_stream' = <<Head(coming)>>
  /\ UNCHANGED <<seqVars, reading, m_need_update_smaps, calls>>

\* The end of the file ends the last one, or is the whole of an empty file, of
\* which a mapping is made all the same.
EndMaps_DropsLast ==
  /\ reading /\ coming = <<>> /\ AtEnd /\ ~Throws(map_stream)
  /\ reading' = FALSE /\ m_need_update_smaps' = FALSE
  /\ UNCHANGED <<seqVars, coming, map_stream, m_maps, calls>>

EndMaps ==
  /\ reading /\ coming = <<>> /\ AtEnd /\ ~Throws(map_stream)
  /\ m_maps' = Append(m_maps, MMap(map_stream))
  /\ reading' = FALSE /\ m_need_update_smaps' = FALSE
  /\ UNCHANGED <<seqVars, coming, map_stream, calls>>

\* std::invalid_argument leaves maps() with the flag up.
MapsThrow ==
  /\ reading /\ Throws(map_stream)
  /\ IF coming = <<>> THEN AtEnd ELSE NewDeclaration
  /\ reading' = FALSE
  /\ UNCHANGED <<seqVars, m_need_update_smaps, coming, map_stream, m_maps, calls>>

-----------------------------------------------------------------------------
SmapsOwnInit ==
  /\ reading = FALSE
  /\ m_need_update_smaps = TRUE
  /\ coming = <<>> /\ map_stream = <<>>
  /\ m_maps = <<>>
  /\ calls = 0

SmapsInit == SeqInit(Region) /\ SmapsOwnInit

MapUnmap == Alter(Region) /\ UNCHANGED smapsVars

SmapsNext ==
  \/ MapUnmap
  \/ UpdateMaps
  \/ BeginMaps
  \/ \E k \in Key : ReadMaps(k)
  \/ AddLine
  \/ CutMap
  \/ EndMaps
  \/ MapsThrow

SmapsSpec == SmapsInit /\ [][SmapsNext]_allVars

-----------------------------------------------------------------------------
\* What MMap makes of the block of an entry taken alone, a size of two digits
\* that it does not see included: what is asked of a map below is that it is of
\* one block, not that it is right.  And what is made of an empty file.
MapOf(s) ==
  [from |-> s.key,
   m_size |-> IF s.entry.size < 10 THEN s.entry.size ELSE Unset,
   m_vmflags |-> s.entry.vmflags]

NoMap == [from |-> Unset, m_size |-> Unset, m_vmflags |-> Unset]

\* The flag is down, and the last reading did not throw: m_maps is the answer.
MapsAnswered == ~reading /\ ~m_need_update_smaps

\* The stream holds the lines of one block at most: those that are read of the
\* block shown last.
SmapsTypeOK ==
  /\ SeqTypeOK(Region)
  /\ reading \in BOOLEAN /\ m_need_update_smaps \in BOOLEAN
  /\ m_maps \in Seq({NoMap} \cup {MapOf(s) : s \in [key : Key, entry : Region]})
  /\ calls \in 0 .. MaxCalls
  /\ Len(map_stream) <= 3 /\ Len(coming) <= 3

\* A map is one mapping of the process as it was at some moment of the call:
\* nothing of a neighbouring block, of an earlier mapping at the address or of
\* an earlier call is in it, and a size is the mapping's own or was never set.
\* The map of an empty file is the exception.
MapsAreMappings ==
  \A k \in DOMAIN m_maps :
    \/ \E s \in met : m_maps[k] = MapOf(s)
    \/ m_maps = <<NoMap>> /\ shown = <<>>

\* The maps are in the order of their addresses and none is there twice, also
\* when a call that threw is tried again.
MapsRise ==
  \A j, k \in DOMAIN m_maps : j < k => m_maps[j].from < m_maps[k].from

\* What the process has had mapped from the call to its end is in the answer,
\* the last mapping of the file too.
NoMapMissing ==
  MapsAnswered => \A s \in there : \E k \in DOMAIN m_maps : m_maps[k] = MapOf(s)

\* maps() as the listing of the mappings.  An answer holds until updateMaps();
\* that of an empty file is seen as the empty one it should be.
PlaceOf(s) == s.key

MapsView == INSTANCE Snapshot WITH
              Read    <- MapOf,
              Place   <- PlaceOf,
              entries <- Entries,
              phase   <- IF reading THEN "busy"
                         ELSE IF m_need_update_smaps THEN "none" ELSE "answered",
              there   <- IF reading THEN there ELSE {},
              met     <- IF reading THEN met ELSE {},
              answer  <- IF reading \/ shown = <<>> THEN {}
                         ELSE {m_maps[k] : k \in DOMAIN m_maps}

\* However blocks are cut, whatever is mapped meanwhile and however often a
\* call throws and is tried again, maps() gives what one listing may give.
MapsAreAListing == MapsView!Spec
=============================================================================
