---------------------------- MODULE Smaps_proofs ----------------------------
(***************************************************************************)
(* Proofs about Smaps, for every set of addresses and mappings and any     *)
(* number of changes and calls.                                            *)
(***************************************************************************)
EXTENDS Smaps, SeqFile_proofs, SequenceTheorems

-----------------------------------------------------------------------------
\* What MMap makes of one block, and of an empty stream.

Line1(s) == [field |-> "declaration", value |-> [from |-> s.key, offset |-> s.entry.offset]]
Line2(s) == [field |-> "Size", value |-> s.entry.size]
Line3(s) == [field |-> "VmFlags", value |-> s.entry.vmflags]

LEMMA AppendPair ==
  ASSUME NEW a, NEW b
  PROVE  Append(<<a>>, b) = <<a, b>>
<1>1. <<a>> \in Seq({a, b}) /\ <<a, b>> \in Seq({a, b}) /\ Len(<<a, b>>) = 2
  OBVIOUS
<1>2. /\ Append(<<a>>, b) \in Seq({a, b}) /\ Len(Append(<<a>>, b)) = 2
      /\ \A k \in 1 .. 2 : Append(<<a>>, b)[k] = <<a, b>>[k]
  <2>1. Append(<<a>>, b)[1] = a /\ Append(<<a>>, b)[2] = b /\ \A k \in 1 .. 2 : k = 1 \/ k = 2
    BY <1>1
  <2>2. <<a, b>>[1] = a /\ <<a, b>>[2] = b
    OBVIOUS
  <2>3. Append(<<a>>, b) \in Seq({a, b}) /\ Len(Append(<<a>>, b)) = 2
    BY <1>1
  <2> QED BY <2>1, <2>2, <2>3
<1> QED BY ONLY <1>1, <1>2, SeqEqual

LEMMA AppendThird ==
  ASSUME NEW a, NEW b, NEW c
  PROVE  Append(<<a, b>>, c) = <<a, b, c>>
<1> DEFINE S == {a, b, c}
<1>1. <<a, b>> \in Seq(S) /\ <<a, b, c>> \in Seq(S)
  OBVIOUS
<1>2. Append(<<a, b>>, c) \in Seq(S) /\ Len(Append(<<a, b>>, c)) = 3
  BY <1>1
<1>3. Append(<<a, b>>, c)[1] = a /\ Append(<<a, b>>, c)[2] = b /\ Append(<<a, b>>, c)[3] = c
  BY <1>1
<1>4. Len(<<a, b, c>>) = 3 /\ \A k \in 1 .. 3 : k = 1 \/ k = 2 \/ k = 3
  OBVIOUS
<1>5. \A k \in 1 .. 3 : Append(<<a, b>>, c)[k] = <<a, b, c>>[k]
  BY <1>3, <1>4
<1> QED BY ONLY <1>1, <1>2, <1>4, <1>5, SeqEqual

LEMMA BlockLines ==
  ASSUME NEW s
  PROVE  /\ Block(s) = <<Line1(s), Line2(s), Line3(s)>>
         /\ Head(<<Line1(s), Line2(s), Line3(s)>>) = Line1(s)
         /\ Tail(<<Line1(s), Line2(s), Line3(s)>>) = <<Line2(s), Line3(s)>>
         /\ Head(<<Line2(s), Line3(s)>>) = Line2(s) /\ Tail(<<Line2(s), Line3(s)>>) = <<Line3(s)>>
         /\ Head(<<Line3(s)>>) = Line3(s) /\ Tail(<<Line3(s)>>) = <<>>
         /\ Append(<<>>, Line1(s)) = <<Line1(s)>>
         /\ Append(<<Line1(s)>>, Line2(s)) = <<Line1(s), Line2(s)>>
         /\ Append(<<Line1(s), Line2(s)>>, Line3(s)) = <<Line1(s), Line2(s), Line3(s)>>
         /\ Line1(s).field = "declaration" /\ Line2(s).field = "Size" /\ Line3(s).field = "VmFlags"
<1>1. Block(s) = <<Line1(s), Line2(s), Line3(s)>>
  BY DEF Block, Line1, Line2, Line3
<1>2. Line1(s).field = "declaration" /\ Line2(s).field = "Size" /\ Line3(s).field = "VmFlags"
  BY DEF Line1, Line2, Line3
<1>3. ASSUME NEW a, NEW b, NEW c
      PROVE  /\ Head(<<a, b, c>>) = a /\ Tail(<<a, b, c>>) = <<b, c>>
             /\ Head(<<b, c>>) = b /\ Tail(<<b, c>>) = <<c>>
             /\ Head(<<c>>) = c /\ Tail(<<c>>) = <<>> /\ Append(<<>>, a) = <<a>>
  OBVIOUS
<1> QED BY <1>1, <1>2, <1>3, AppendPair, AppendThird

LEMMA MapOfBlock ==
  ASSUME NEW s \in [key : Key, entry : Region]
  PROVE  MMap(Block(s)) = MapOf(s)
<1> DEFINE ss == Block(s)
<1>1. /\ DOMAIN ss = 1 .. 3 /\ ss # <<>>
      /\ ss[1] = Line1(s) /\ ss[2] = Line2(s) /\ ss[3] = Line3(s)
  <2>1. ss = <<Line1(s), Line2(s), Line3(s)>>
    BY BlockLines
  <2>2. ASSUME NEW a, NEW b, NEW c
        PROVE  /\ DOMAIN <<a, b, c>> = 1 .. 3 /\ <<a, b, c>> # <<>>
               /\ <<a, b, c>>[1] = a /\ <<a, b, c>>[2] = b /\ <<a, b, c>>[3] = c
    OBVIOUS
  <2> QED BY <2>1, <2>2
<1>2. Declared(ss) /\ ss[1].value.from = s.key
  BY <1>1 DEF Declared, Line1
<1>3. s.entry.size \in Nat
  BY SmapsAssumption
<1>4. /\ OneDigit(Line2(s)) <=> s.entry.size < 10
      /\ ~OneDigit(Line3(s))
  BY DEF OneDigit, Line2, Line3
<1>5. Numbers(ss) = IF s.entry.size < 10 THEN {2} ELSE {}
  <2>1. \A k \in 1 .. 3 : k > 1 => k = 2 \/ k = 3
    OBVIOUS
  <2> QED BY <1>1, <1>4, <2>1 DEF Numbers
<1>6. Words(ss) = IF s.entry.size < 10 THEN {3} ELSE {2, 3}
  <2>1. \A k \in 1 .. 3 : k > 1 => k = 2 \/ k = 3
    OBVIOUS
  <2> QED BY <1>1, <1>4, <2>1 DEF Words
<1>7. LastValue(ss, {2}) = s.entry.size
  <2>1. (CHOOSE k \in {2} : \A j \in {2} : j <= k) = 2
    OBVIOUS
  <2> QED BY <1>1, <2>1 DEF LastValue, Line2
<1>8. LastValue(ss, {3}) = s.entry.vmflags /\ LastValue(ss, {2, 3}) = s.entry.vmflags
  <2>1. (CHOOSE k \in {3} : \A j \in {3} : j <= k) = 3
    OBVIOUS
  <2>2. (CHOOSE k \in {2, 3} : \A j \in {2, 3} : j <= k) = 3
    <3>1. \E k \in {2, 3} : \A j \in {2, 3} : j <= k
      OBVIOUS
    <3> QED BY <3>1
  <2> QED BY <1>1, <2>1, <2>2 DEF LastValue, Line3
<1>9. {2} # {} /\ {3} # {} /\ {2, 3} # {}
  OBVIOUS
<1> QED BY <1>2, <1>5, <1>6, <1>7, <1>8, <1>9 DEF MMap, MapOf

LEMMA MapOfNothing == MMap(<<>>) = NoMap
<1>1. DOMAIN <<>> = {}
  OBVIOUS
<1>2. Numbers(<<>>) = {} /\ Words(<<>>) = {}
  BY <1>1 DEF Numbers, Words
<1> QED BY <1>2 DEF MMap, Declared, NoMap

-----------------------------------------------------------------------------
\* The invariant.

\* The lines that have been read make up whole blocks, the last of which may be
\* in parts: in map_stream what is read, in coming what is not.
Cut(s) ==
  \/ map_stream = <<Line1(s)>> /\ coming = <<Line2(s), Line3(s)>>
  \/ map_stream = <<Line1(s), Line2(s)>> /\ coming = <<Line3(s)>>
  \/ map_stream = <<Line1(s), Line2(s), Line3(s)>> /\ coming = <<>>

NothingShown == shown = <<>> /\ map_stream = <<>> /\ coming = <<>> /\ m_maps = <<>>

\* Nothing of the block shown last has been read, and the one before it, if
\* there is one, is still in the stream.
BlockWaits ==
  \E n \in Nat \ {0} :
    /\ Len(shown) = n
    /\ coming = <<Line1(shown[n]), Line2(shown[n]), Line3(shown[n])>>
    /\ \/ n = 1 /\ map_stream = <<>> /\ Len(m_maps) = 0
       \/ /\ n > 1 /\ Len(m_maps) = n - 2
          /\ map_stream = <<Line1(shown[n - 1]), Line2(shown[n - 1]), Line3(shown[n - 1])>>

BlockInStream ==
  \E n \in Nat \ {0} : Len(shown) = n /\ Len(m_maps) = n - 1 /\ Cut(shown[n])

Progress ==
  reading => /\ opened /\ m_need_update_smaps
             /\ NothingShown \/ BlockWaits \/ BlockInStream

\* The maps are those of the entries shown, from the first on.
MapsFollow ==
  \/ /\ Len(m_maps) <= Len(shown)
     /\ \A k \in 1 .. Len(m_maps) : m_maps[k] = MapOf(shown[k])
  \/ m_maps = <<NoMap>> /\ shown = <<>> /\ ~reading

SmapsInv ==
  /\ SmapsTypeOK
  /\ ShownOrder
  /\ Progress
  /\ MapsFollow
  /\ NoMapMissing

AnyMap == {NoMap} \cup {MapOf(s) : s \in [key : Key, entry : Region]}

LEMMA SmapsInitHolds == SmapsInit => SmapsInv
<1> SUFFICES ASSUME SmapsInit PROVE SmapsInv
  OBVIOUS
<1>1. SeqTypeOK(Region) /\ ShownOrder /\ shown = <<>> /\ there = {}
  BY SeqInitHolds DEF SmapsInit, SeqInit
<1>2. /\ reading = FALSE /\ m_need_update_smaps = TRUE /\ coming = <<>> /\ map_stream = <<>>
      /\ m_maps = <<>> /\ calls = 0
  BY DEF SmapsInit, SmapsOwnInit
<1>3. <<>> \in Seq(AnyMap) /\ Len(<<>>) = 0
  OBVIOUS
<1>4. SmapsTypeOK
  <2>1. 0 \in 0 .. MaxCalls
    <3>1. MaxCalls \in Nat
      BY SmapsAssumption
    <3> QED BY <3>1
  <2>2. m_maps \in Seq(AnyMap) /\ calls \in 0 .. MaxCalls /\ Len(map_stream) = 0 /\ Len(coming) = 0
    BY <1>2, <1>3, <2>1
  <2>3. reading \in BOOLEAN /\ m_need_update_smaps \in BOOLEAN
    BY <1>2
  <2> QED BY <1>1, <2>2, <2>3 DEF SmapsTypeOK, AnyMap
<1>5. Progress /\ MapsFollow /\ NoMapMissing
  BY <1>1, <1>2, <1>3 DEF Progress, MapsFollow, NoMapMissing
<1> QED BY <1>1, <1>4, <1>5 DEF SmapsInv

\* What the process does leaves the reader alone.
LEMMA MapUnmapStep == SmapsInv /\ (MapUnmap \/ UNCHANGED allVars) => SmapsInv'
<1> SUFFICES ASSUME SmapsInv, MapUnmap \/ UNCHANGED allVars PROVE SmapsInv'
  OBVIOUS
<1>1. SeqTypeOK(Region)' /\ ShownOrder'
  BY SeqTypeStep, ShownOrderStep DEF SmapsInv, SmapsTypeOK, MapUnmap, allVars, SeqNext
<1>2. UNCHANGED smapsVars /\ UNCHANGED <<opened, shown>> /\ there' \subseteq there
  BY DEF MapUnmap, Alter, allVars, seqVars
<1>3. SmapsTypeOK'
  BY <1>1, <1>2 DEF SmapsInv, SmapsTypeOK, smapsVars
<1>4. Progress' /\ MapsFollow'
  BY <1>2 DEF SmapsInv, smapsVars, Progress, NothingShown, BlockWaits, BlockInStream, Cut, MapsFollow
<1>5. NoMapMissing'
  BY <1>2 DEF SmapsInv, smapsVars, NoMapMissing, MapsAnswered
<1> QED BY <1>1, <1>3, <1>4, <1>5 DEF SmapsInv

LEMMA UpdateMapsStep == SmapsInv /\ UpdateMaps => SmapsInv'
<1> SUFFICES ASSUME SmapsInv, UpdateMaps PROVE SmapsInv'
  OBVIOUS
<1>1. /\ ~reading /\ m_need_update_smaps' = TRUE /\ UNCHANGED seqVars
      /\ UNCHANGED <<reading, coming, map_stream, m_maps, calls>> /\ shown' = shown
  BY DEF UpdateMaps, seqVars
<1>2. SeqTypeOK(Region)' /\ ShownOrder'
  BY <1>1, SeqTypeStep, ShownOrderStep DEF SmapsInv, SmapsTypeOK
<1> QED BY <1>1, <1>2 DEF SmapsInv, SmapsTypeOK, Progress, MapsFollow, NoMapMissing, MapsAnswered

LEMMA BeginMapsStep == SmapsInv /\ BeginMaps => SmapsInv'
<1> SUFFICES ASSUME SmapsInv, BeginMaps PROVE SmapsInv'
  OBVIOUS
<1>1. SeqTypeOK(Region)' /\ ShownOrder'
  BY SeqTypeStep, ShownOrderStep DEF SmapsInv, SmapsTypeOK, BeginMaps, SeqNext
<1>2. /\ m_maps' = <<>> /\ coming' = <<>> /\ map_stream' = <<>> /\ shown' = <<>>
      /\ Len(<<>>) = 0
      /\ \/ reading' = TRUE /\ m_need_update_smaps' = TRUE /\ opened' = TRUE
         \/ reading' = FALSE /\ m_need_update_smaps' = FALSE /\ there' = {}
  BY DEF BeginMaps, Seek, CannotOpen
<1>3. calls' \in 0 .. MaxCalls
  <2>1. MaxCalls \in Nat
    BY SmapsAssumption
  <2>2. calls \in 0 .. MaxCalls /\ calls < MaxCalls /\ calls' = calls + 1
    BY DEF SmapsInv, SmapsTypeOK, BeginMaps
  <2> QED BY <2>1, <2>2
<1>4. <<>> \in Seq(AnyMap)
  OBVIOUS
<1>5. SmapsTypeOK'
  <2>1. m_maps' \in Seq(AnyMap) /\ Len(map_stream') <= 3 /\ Len(coming') <= 3
    BY <1>2, <1>4
  <2>2. reading' \in BOOLEAN /\ m_need_update_smaps' \in BOOLEAN
    BY <1>2
  <2> QED BY <1>1, <1>3, <2>1, <2>2 DEF SmapsTypeOK, AnyMap
<1>6. Progress'
  BY <1>2 DEF Progress, NothingShown
<1>7. MapsFollow'
  BY <1>2 DEF MapsFollow
<1>8. NoMapMissing'
  BY <1>2 DEF NoMapMissing, MapsAnswered
<1> QED BY <1>1, <1>5, <1>6, <1>7, <1>8 DEF SmapsInv

LEMMA ReadMapsStep == ASSUME SmapsInv, NEW k \in Key, ReadMaps(k) PROVE SmapsInv'
<1>1. SeqTypeOK(Region)' /\ ShownOrder' /\ SeqTypeOK(Region) /\ Show(k)
  BY SeqTypeStep, ShownOrderStep DEF SmapsInv, SmapsTypeOK, ReadMaps, SeqNext
<1>2. PICK n \in Nat : /\ n = Len(shown) /\ Len(shown') = n + 1
                       /\ \A j \in 1 .. n : shown'[j] = shown[j]
                       /\ shown'[n + 1] = Shown(k)
                       /\ shown' # <<>>
  <2>1. /\ Len(shown) \in Nat /\ Len(shown') = Len(shown) + 1
        /\ \A j \in 1 .. Len(shown) : shown'[j] = shown[j]
        /\ shown'[Len(shown) + 1] = Shown(k)
    BY <1>1, ShowAdds
  <2>2. shown' # <<>>
    <3>1. Len(<<>>) = 0
      OBVIOUS
    <3> QED BY <2>1, <3>1
  <2> QED BY <2>1, <2>2
<1>3. /\ reading /\ coming = <<>> /\ coming' = Block(Shown(k)) /\ opened' = opened
      /\ UNCHANGED <<reading, m_need_update_smaps, map_stream, m_maps, calls>>
  BY DEF ReadMaps, Show
<1>4. coming' = <<Line1(shown'[n + 1]), Line2(shown'[n + 1]), Line3(shown'[n + 1])>>
  BY <1>2, <1>3, BlockLines
<1>5. \/ n = 0 /\ map_stream = <<>> /\ Len(m_maps) = 0
      \/ /\ n > 0 /\ Len(m_maps) = n - 1
         /\ map_stream = <<Line1(shown[n]), Line2(shown[n]), Line3(shown[n])>>
  <2>1. CASE NothingShown
    BY <1>2, <2>1 DEF NothingShown
  <2>2. ~BlockWaits
    BY <1>3 DEF BlockWaits
  <2>3. CASE BlockInStream
    <3>1. n > 0 /\ Len(m_maps) = n - 1 /\ Cut(shown[n])
      BY <1>2, <2>3 DEF BlockInStream
    <3> QED BY <1>3, <3>1 DEF Cut
  <2> QED BY <1>3, <2>1, <2>2, <2>3 DEF SmapsInv, Progress
<1>6. BlockWaits'
  <2>1. n + 1 \in Nat \ {0}
    BY <1>2
  <2>2. CASE n = 0
    BY <1>2, <1>3, <1>4, <1>5, <2>1, <2>2 DEF BlockWaits
  <2>3. CASE n > 0
    <3>1. /\ n + 1 > 1 /\ Len(m_maps') = (n + 1) - 2 /\ (n + 1) - 1 = n
          /\ map_stream' = <<Line1(shown'[n]), Line2(shown'[n]), Line3(shown'[n])>>
      BY <1>2, <1>3, <1>5, <2>3
    <3> QED BY <1>2, <1>4, <2>1, <3>1 DEF BlockWaits
  <2> QED BY <1>5, <2>2, <2>3
<1>7. Progress'
  BY <1>3, <1>6 DEF SmapsInv, Progress
<1>8. SmapsTypeOK'
  <2>1. Len(coming') = 3
    BY <1>4
  <2> QED BY <1>1, <1>3, <2>1 DEF SmapsInv, SmapsTypeOK
<1>9. MapsFollow'
  <2>1. Len(m_maps) <= Len(shown) /\ \A j \in 1 .. Len(m_maps) : m_maps[j] = MapOf(shown[j])
    BY <1>3 DEF SmapsInv, MapsFollow
  <2>2. PICK m \in Nat : m = Len(m_maps)
    BY SeqIndexes DEF SmapsInv, SmapsTypeOK
  <2>3. m <= n /\ \A j \in 1 .. m : j \in 1 .. n
    BY <1>2, <2>1, <2>2
  <2>4. \A j \in 1 .. m : m_maps[j] = MapOf(shown'[j])
    BY <1>2, <2>1, <2>2, <2>3
  <2> QED BY <1>2, <1>3, <2>2, <2>3, <2>4 DEF MapsFollow
<1>10. NoMapMissing'
  BY <1>3 DEF NoMapMissing, MapsAnswered
<1> QED BY <1>1, <1>7, <1>8, <1>9, <1>10 DEF SmapsInv

\* A line that goes to the stream: the first of all, or one that declares nothing.
LEMMA AddLineStep == SmapsInv /\ AddLine => SmapsInv'
<1> SUFFICES ASSUME SmapsInv, AddLine PROVE SmapsInv'
  OBVIOUS
<1>1. /\ reading /\ coming # <<>> /\ ~NewDeclaration
      /\ coming' = Tail(coming) /\ map_stream' = Append(map_stream, Head(coming))
      /\ UNCHANGED <<reading, m_need_update_smaps, m_maps, calls>>
      /\ UNCHANGED seqVars /\ UNCHANGED <<opened, shown>>
  BY DEF AddLine, seqVars
<1>2. SeqTypeOK(Region)' /\ ShownOrder'
  BY <1>1, SeqTypeStep, ShownOrderStep DEF SmapsInv, SmapsTypeOK
<1>3. PICK n \in Nat \ {0} : Len(shown) = n /\ Len(m_maps) = n - 1 /\ Cut(shown[n])'
  <2>1. CASE BlockWaits
    <3>1. PICK n \in Nat \ {0} :
            /\ Len(shown) = n
            /\ coming = <<Line1(shown[n]), Line2(shown[n]), Line3(shown[n])>>
            /\ \/ n = 1 /\ map_stream = <<>> /\ Len(m_maps) = 0
               \/ /\ n > 1 /\ Len(m_maps) = n - 2
                  /\ map_stream = <<Line1(shown[n - 1]), Line2(shown[n - 1]), Line3(shown[n - 1])>>
      BY <2>1 DEF BlockWaits
    <3>2. Head(coming).field = "declaration"
      BY <3>1, BlockLines
    <3>3. map_stream = <<>>
      BY <1>1, <3>2 DEF NewDeclaration
    <3>4. n = 1 /\ Len(m_maps) = n - 1
      BY <3>1, <3>3
    <3>5. map_stream' = <<Line1(shown[n])>> /\ coming' = <<Line2(shown[n]), Line3(shown[n])>>
      BY <1>1, <3>1, <3>3, BlockLines
    <3> QED BY <1>1, <3>1, <3>4, <3>5 DEF Cut
  <2>2. CASE BlockInStream
    <3>1. PICK n \in Nat \ {0} : Len(shown) = n /\ Len(m_maps) = n - 1 /\ Cut(shown[n])
      BY <2>2 DEF BlockInStream
    <3>2. \/ /\ map_stream' = <<Line1(shown[n]), Line2(shown[n])>>
             /\ coming' = <<Line3(shown[n])>>
          \/ /\ map_stream' = <<Line1(shown[n]), Line2(shown[n]), Line3(shown[n])>>
             /\ coming' = <<>>
      <4>1. CASE map_stream = <<Line1(shown[n])>> /\ coming = <<Line2(shown[n]), Line3(shown[n])>>
        BY <1>1, <4>1, BlockLines
      <4>2. CASE /\ map_stream = <<Line1(shown[n]), Line2(shown[n])>>
                 /\ coming = <<Line3(shown[n])>>
        BY <1>1, <4>2, BlockLines
      <4>3. coming # <<>>
        BY <1>1
      <4> QED BY <3>1, <4>1, <4>2, <4>3 DEF Cut
    <3> QED BY <1>1, <3>1, <3>2 DEF Cut
  <2>3. ~NothingShown
    BY <1>1 DEF NothingShown
  <2> QED BY <1>1, <2>1, <2>2, <2>3 DEF SmapsInv, Progress
<1>4. Progress'
  BY <1>1, <1>3 DEF SmapsInv, Progress, BlockInStream
<1>5. SmapsTypeOK'
  <2>1. Len(map_stream') <= 3 /\ Len(coming') <= 3
    <3>1. ASSUME NEW a, NEW b, NEW c
          PROVE  /\ Len(<<>>) <= 3 /\ Len(<<a>>) <= 3 /\ Len(<<b, c>>) <= 3
                 /\ Len(<<a, b>>) <= 3 /\ Len(<<a, b, c>>) <= 3
      OBVIOUS
    <3> QED BY <1>3, <3>1 DEF Cut
  <2> QED BY <1>1, <1>2, <2>1 DEF SmapsInv, SmapsTypeOK
<1>6. MapsFollow' /\ NoMapMissing'
  BY <1>1 DEF SmapsInv, MapsFollow, NoMapMissing, MapsAnswered
<1> QED BY <1>2, <1>4, <1>5, <1>6 DEF SmapsInv

\* A map that is added is that of the next entry shown.
LEMMA MapsGrow ==
  ASSUME SmapsInv, reading, NEW n \in Nat \ {0}, n <= Len(shown), Len(m_maps) = n - 1,
         m_maps' = Append(m_maps, MMap(<<Line1(shown[n]), Line2(shown[n]), Line3(shown[n])>>))
  PROVE  /\ m_maps' \in Seq(AnyMap) /\ Len(m_maps') = n
         /\ \A j \in 1 .. n : m_maps'[j] = MapOf(shown[j])
<1>1. PICK l \in Nat : l = Len(shown) /\ n <= l /\ \A j \in 1 .. l : shown[j] \in [key : Key, entry : Region]
  BY SeqIndexes DEF SmapsInv, SmapsTypeOK, SeqTypeOK
<1>2. n \in 1 .. l
  BY <1>1
<1>3. shown[n] \in [key : Key, entry : Region]
  BY <1>1, <1>2
<1>4. m_maps' = Append(m_maps, MapOf(shown[n]))
  BY <1>3, BlockLines, MapOfBlock
<1>5. m_maps \in Seq(AnyMap) /\ MapOf(shown[n]) \in AnyMap
  BY <1>3 DEF SmapsInv, SmapsTypeOK, AnyMap
<1>6. /\ m_maps' \in Seq(AnyMap) /\ Len(m_maps') = (n - 1) + 1
      /\ \A j \in 1 .. n - 1 : m_maps'[j] = m_maps[j]
      /\ m_maps'[(n - 1) + 1] = MapOf(shown[n])
  BY <1>4, <1>5, SeqOneMore
<1>7. \A j \in 1 .. n - 1 : m_maps[j] = MapOf(shown[j])
  BY DEF SmapsInv, MapsFollow
<1>8. (n - 1) + 1 = n /\ \A j \in 1 .. n : j \in 1 .. n - 1 \/ j = n
  OBVIOUS
<1> QED BY <1>6, <1>7, <1>8

LEMMA CutMapStep == SmapsInv /\ CutMap => SmapsInv'
<1> SUFFICES ASSUME SmapsInv, CutMap PROVE SmapsInv'
  OBVIOUS
<1>1. /\ reading /\ coming # <<>> /\ NewDeclaration
      /\ coming' = Tail(coming) /\ map_stream' = <<Head(coming)>>
      /\ m_maps' = Append(m_maps, MMap(map_stream))
      /\ UNCHANGED <<reading, m_need_update_smaps, calls>>
      /\ UNCHANGED seqVars /\ UNCHANGED <<opened, shown>>
  BY DEF CutMap, seqVars
<1>2. SeqTypeOK(Region)' /\ ShownOrder'
  BY <1>1, SeqTypeStep, ShownOrderStep DEF SmapsInv, SmapsTypeOK
<1>3. ~NothingShown /\ ~BlockInStream
  <2>1. ~NothingShown
    BY <1>1 DEF NothingShown
  <2>2. ASSUME NEW n \in Nat \ {0}, Cut(shown[n]) PROVE FALSE
    BY <1>1, <2>2, BlockLines DEF Cut, NewDeclaration
  <2> QED BY <2>1, <2>2 DEF BlockInStream
<1>4. PICK n \in Nat \ {0} :
        /\ Len(shown) = n
        /\ coming = <<Line1(shown[n]), Line2(shown[n]), Line3(shown[n])>>
        /\ n > 1 /\ Len(m_maps) = n - 2
        /\ map_stream = <<Line1(shown[n - 1]), Line2(shown[n - 1]), Line3(shown[n - 1])>>
  BY <1>1, <1>3 DEF SmapsInv, Progress, BlockWaits, NewDeclaration
<1>5. /\ map_stream' = <<Line1(shown[n])>>
      /\ coming' = <<Line2(shown[n]), Line3(shown[n])>>
  BY <1>1, <1>4, BlockLines
<1>6. PICK m \in Nat \ {0} : m = n - 1
  BY <1>4
<1>7. /\ m <= Len(shown) /\ Len(m_maps) = m - 1
      /\ m_maps' = Append(m_maps, MMap(<<Line1(shown[m]), Line2(shown[m]), Line3(shown[m])>>))
  BY <1>1, <1>4, <1>6
<1>8. /\ m_maps' \in Seq(AnyMap) /\ Len(m_maps') = m
      /\ \A j \in 1 .. m : m_maps'[j] = MapOf(shown[j])
  BY <1>1, <1>7, MapsGrow
<1>9. Progress'
  <2>1. Len(m_maps') = n - 1 /\ Cut(shown[n])'
    BY <1>1, <1>5, <1>6, <1>8 DEF Cut
  <2> QED BY <1>1, <1>4, <2>1 DEF SmapsInv, Progress, BlockInStream
<1>10. SmapsTypeOK'
  <2>1. ASSUME NEW a, NEW b PROVE Len(<<a>>) <= 3 /\ Len(<<a, b>>) <= 3
    OBVIOUS
  <2> QED BY <1>1, <1>2, <1>5, <1>8, <2>1 DEF SmapsInv, SmapsTypeOK, AnyMap
<1>11. MapsFollow'
  BY <1>1, <1>7, <1>8 DEF MapsFollow
<1>12. NoMapMissing'
  BY <1>1 DEF NoMapMissing, MapsAnswered
<1> QED BY <1>2, <1>9, <1>10, <1>11, <1>12 DEF SmapsInv

\* The stream at the end of the file is the last block shown.
LEMMA LastMap ==
  ASSUME SmapsInv, EndMaps, BlockInStream
  PROVE  \E n \in Nat \ {0} :
           /\ Len(shown) = n /\ m_maps' \in Seq(AnyMap) /\ Len(m_maps') = n
           /\ \A j \in 1 .. n : m_maps'[j] = MapOf(shown[j])
<1>1. reading /\ coming = <<>> /\ m_maps' = Append(m_maps, MMap(map_stream))
  BY DEF EndMaps
<1>2. PICK n \in Nat \ {0} : Len(shown) = n /\ Len(m_maps) = n - 1 /\ Cut(shown[n])
  BY DEF BlockInStream
<1>3. map_stream = <<Line1(shown[n]), Line2(shown[n]), Line3(shown[n])>>
  BY <1>1, <1>2 DEF Cut
<1>4. n <= Len(shown)
  BY <1>2
<1>5. m_maps' = Append(m_maps, MMap(<<Line1(shown[n]), Line2(shown[n]), Line3(shown[n])>>))
  BY <1>1, <1>3
<1> QED BY <1>1, <1>2, <1>4, <1>5, MapsGrow

LEMMA EndMapsStep == SmapsInv /\ EndMaps => SmapsInv'
<1> SUFFICES ASSUME SmapsInv, EndMaps PROVE SmapsInv'
  OBVIOUS
<1>1. /\ reading /\ coming = <<>> /\ AtEnd
      /\ m_maps' = Append(m_maps, MMap(map_stream))
      /\ reading' = FALSE /\ m_need_update_smaps' = FALSE
      /\ UNCHANGED <<coming, map_stream, calls>>
      /\ UNCHANGED seqVars /\ UNCHANGED <<shown, there>>
  BY DEF EndMaps, seqVars
<1>2. SeqTypeOK(Region)' /\ ShownOrder'
  BY <1>1, SeqTypeStep, ShownOrderStep DEF SmapsInv, SmapsTypeOK
<1>3. \A s \in there : \E k \in DOMAIN shown : shown[k] = s
  BY <1>1, AllShown DEF SmapsInv, SmapsTypeOK
<1>4. CASE NothingShown
  <2>1. m_maps' = <<NoMap>> /\ shown = <<>> /\ DOMAIN shown = {}
    BY <1>1, <1>4, MapOfNothing DEF NothingShown
  <2>2. m_maps' \in Seq(AnyMap)
    <3>1. NoMap \in AnyMap
      BY DEF AnyMap
    <3> QED BY <2>1, <3>1
  <2>3. SmapsTypeOK'
    BY <1>1, <1>2, <2>2 DEF SmapsInv, SmapsTypeOK, AnyMap
  <2>4. Progress' /\ MapsFollow'
    BY <1>1, <2>1 DEF Progress, MapsFollow
  <2>5. NoMapMissing'
    BY <1>1, <1>3, <2>1 DEF NoMapMissing
  <2> QED BY <1>2, <2>3, <2>4, <2>5 DEF SmapsInv
<1>5. CASE BlockInStream
  <2>1. PICK n \in Nat \ {0} :
          /\ Len(shown) = n /\ m_maps' \in Seq(AnyMap) /\ Len(m_maps') = n
          /\ \A j \in 1 .. n : m_maps'[j] = MapOf(shown[j])
    BY <1>5, LastMap
  <2>2. SmapsTypeOK'
    BY <1>1, <1>2, <2>1 DEF SmapsInv, SmapsTypeOK, AnyMap
  <2>3. Progress' /\ MapsFollow'
    BY <1>1, <2>1 DEF Progress, MapsFollow
  <2>4. NoMapMissing'
    <3>1. DOMAIN shown = 1 .. n /\ DOMAIN m_maps' = 1 .. n
      BY <2>1, SeqIndexes DEF SmapsInv, SmapsTypeOK, SeqTypeOK
    <3>2. \A s \in there : \E k \in DOMAIN m_maps' : m_maps'[k] = MapOf(s)
      BY <1>3, <2>1, <3>1
    <3> QED BY <1>1, <3>2 DEF NoMapMissing
  <2> QED BY <1>2, <2>2, <2>3, <2>4 DEF SmapsInv
<1>6. ~BlockWaits
  BY <1>1 DEF BlockWaits
<1> QED BY <1>1, <1>4, <1>5, <1>6 DEF SmapsInv, Progress

LEMMA MapsThrowStep == SmapsInv /\ MapsThrow => SmapsInv'
<1> SUFFICES ASSUME SmapsInv, MapsThrow PROVE SmapsInv'
  OBVIOUS
<1>1. /\ reading /\ reading' = FALSE
      /\ UNCHANGED <<m_need_update_smaps, coming, map_stream, m_maps, calls>>
      /\ UNCHANGED seqVars /\ UNCHANGED <<shown, there>>
  BY DEF MapsThrow, seqVars
<1>2. SeqTypeOK(Region)' /\ ShownOrder'
  BY <1>1, SeqTypeStep, ShownOrderStep DEF SmapsInv, SmapsTypeOK
<1>3. m_need_update_smaps
  BY <1>1 DEF SmapsInv, Progress
<1> QED BY <1>1, <1>2, <1>3
     DEF SmapsInv, SmapsTypeOK, Progress, MapsFollow, NoMapMissing, MapsAnswered

LEMMA SmapsInvHolds == SmapsSpec => []SmapsInv
<1>1. SmapsInv /\ [SmapsNext]_allVars => SmapsInv'
  BY MapUnmapStep, UpdateMapsStep, BeginMapsStep, ReadMapsStep, AddLineStep, CutMapStep,
     EndMapsStep, MapsThrowStep DEF SmapsNext
<1> QED BY <1>1, SmapsInitHolds, PTL DEF SmapsSpec

-----------------------------------------------------------------------------
\* SmapsTypeOK: the stream never holds more than a block, and every map is that
\* of some mapping or of an empty file.
THEOREM SmapsTypes == SmapsSpec => []SmapsTypeOK
<1>1. SmapsInv => SmapsTypeOK
  BY DEF SmapsInv
<1> QED BY <1>1, SmapsInvHolds, PTL

\* MapsAreMappings: no map has anything of a neighbour or of an earlier reading.
THEOREM SmapsSound == SmapsSpec => []MapsAreMappings
<1>1. SmapsInv => MapsAreMappings
  <2> SUFFICES ASSUME SmapsInv, NEW k \in DOMAIN m_maps, ~(m_maps = <<NoMap>> /\ shown = <<>>)
               PROVE  \E s \in met : m_maps[k] = MapOf(s)
    BY DEF MapsAreMappings
  <2>1. /\ DOMAIN m_maps = 1 .. Len(m_maps) /\ Len(m_maps) \in Nat
        /\ DOMAIN shown = 1 .. Len(shown) /\ Len(shown) \in Nat
    BY SeqIndexes DEF SmapsInv, SmapsTypeOK, SeqTypeOK
  <2>2. Len(m_maps) <= Len(shown) /\ m_maps[k] = MapOf(shown[k])
    BY <2>1 DEF SmapsInv, MapsFollow
  <2>3. k \in DOMAIN shown
    BY <2>1, <2>2
  <2>4. shown[k] \in met
    BY <2>3 DEF SmapsInv, ShownOrder
  <2> QED BY <2>2, <2>4
<1> QED BY <1>1, SmapsInvHolds, PTL

\* MapsRise: the maps are in order, each once, however often the call is tried.
THEOREM SmapsRise == SmapsSpec => []MapsRise
<1>1. SmapsInv => MapsRise
  <2> SUFFICES ASSUME SmapsInv, NEW j \in DOMAIN m_maps, NEW k \in DOMAIN m_maps, j < k
               PROVE  m_maps[j].from < m_maps[k].from
    BY DEF MapsRise
  <2>1. /\ DOMAIN m_maps = 1 .. Len(m_maps) /\ Len(m_maps) \in Nat
        /\ DOMAIN shown = 1 .. Len(shown) /\ Len(shown) \in Nat
    BY SeqIndexes DEF SmapsInv, SmapsTypeOK, SeqTypeOK
  <2>2. m_maps # <<NoMap>>
    <3> SUFFICES ASSUME m_maps = <<NoMap>> PROVE FALSE
      OBVIOUS
    <3>1. Len(m_maps) = 1
      OBVIOUS
    <3> QED BY <2>1, <3>1
  <2>3. /\ Len(m_maps) <= Len(shown)
        /\ m_maps[j] = MapOf(shown[j]) /\ m_maps[k] = MapOf(shown[k])
    BY <2>1, <2>2 DEF SmapsInv, MapsFollow
  <2>4. j \in DOMAIN shown /\ k \in DOMAIN shown
    BY <2>1, <2>3
  <2>5. shown[j].key < shown[k].key
    BY <2>4 DEF SmapsInv, ShownOrder
  <2> QED BY <2>3, <2>5 DEF MapOf
<1> QED BY <1>1, SmapsInvHolds, PTL

\* NoMapMissing: what stays mapped during the call is in the answer.
THEOREM SmapsComplete == SmapsSpec => []NoMapMissing
<1>1. SmapsInv => NoMapMissing
  BY DEF SmapsInv
<1> QED BY <1>1, SmapsInvHolds, PTL

-----------------------------------------------------------------------------
\* maps() is a listing.

LEMMA MapsBegin == SmapsInit => MapsView!Init
BY DEF SmapsInit, SmapsOwnInit, MapsView!Init

\* What a step in the while, of the reader or of the kernel for it, is to who
\* waits for the answer.
LEMMA MapsInside ==
  ASSUME reading, reading', UNCHANGED <<table, there, met>>
  PROVE  UNCHANGED MapsView!snapshotVars
BY DEF MapsView!snapshotVars, Entries, Shown

LEMMA MapsReturn ==
  ASSUME SmapsInv, EndMaps
  PROVE  \E A \in SUBSET met : MapsView!Return(A)
<1>0. PICK A : A = {shown[k] : k \in DOMAIN shown}
  OBVIOUS
<1>1. /\ reading /\ ~reading' /\ ~m_need_update_smaps' /\ coming = <<>> /\ AtEnd
      /\ UNCHANGED <<table, shown, there, met>>
  BY DEF EndMaps, seqVars
<1>2. /\ A \subseteq met /\ there \subseteq A
      /\ \A s, t \in A : s.key = t.key => s = t
  <2>1. SeqTypeOK(Region) /\ ShownOrder
    BY DEF SmapsInv, SmapsTypeOK
  <2>2. DOMAIN shown \subseteq DOMAIN shown
    OBVIOUS
  <2>3. /\ A \subseteq met
        /\ \A s, t \in A : s.key = t.key => s = t
        /\ AtEnd => there \subseteq A
    BY ONLY <1>0, <2>1, <2>2, ShownAreListing
  <2> QED BY <1>1, <2>3
<1>3. (IF shown = <<>> THEN {} ELSE {m_maps'[k] : k \in DOMAIN m_maps'}) = {MapOf(s) : s \in A}
  <2>1. CASE shown = <<>>
    BY <1>0, <2>1
  <2>2. CASE shown # <<>>
    <3>1. BlockInStream
      BY <1>1, <2>2 DEF SmapsInv, Progress, NothingShown, BlockWaits
    <3>2. PICK n \in Nat \ {0} :
            /\ Len(shown) = n /\ m_maps' \in Seq(AnyMap) /\ Len(m_maps') = n
            /\ \A j \in 1 .. n : m_maps'[j] = MapOf(shown[j])
      BY <3>1, LastMap
    <3>3. DOMAIN m_maps' = 1 .. n /\ DOMAIN shown = 1 .. n
      BY <3>2, SeqIndexes DEF SmapsInv, SmapsTypeOK, SeqTypeOK
    <3> QED BY <1>0, <2>2, <3>2, <3>3
  <2> QED BY <2>1, <2>2
<1>4. MapsView!Return(A)
  BY <1>1, <1>2, <1>3 DEF MapsView!Return, MapsView!End, PlaceOf, Entries, Shown
<1> QED BY <1>2, <1>4

LEMMA MapsThrown ==
  ASSUME SmapsInv, MapsThrow
  PROVE  \E A \in SUBSET met : MapsView!Throw(A)
<1>0. PICK A : A = {shown[k] : k \in DOMAIN m_maps}
  OBVIOUS
<1>1. /\ reading /\ ~reading' /\ m_need_update_smaps'
      /\ m_maps' = m_maps /\ UNCHANGED <<table, shown, there, met>>
  BY DEF MapsThrow, seqVars, SmapsInv, Progress
<1>2. /\ DOMAIN m_maps \subseteq DOMAIN shown
      /\ \A k \in DOMAIN m_maps : m_maps[k] = MapOf(shown[k])
  <2>1. /\ DOMAIN m_maps = 1 .. Len(m_maps) /\ Len(m_maps) \in Nat
        /\ DOMAIN shown = 1 .. Len(shown) /\ Len(shown) \in Nat
    BY SeqIndexes DEF SmapsInv, SmapsTypeOK, SeqTypeOK
  <2>2. /\ Len(m_maps) <= Len(shown)
        /\ \A k \in 1 .. Len(m_maps) : m_maps[k] = MapOf(shown[k])
    BY <1>1 DEF SmapsInv, MapsFollow
  <2> QED BY <2>1, <2>2
<1>3. A \subseteq met /\ \A s, t \in A : s.key = t.key => s = t
  <2>1. SeqTypeOK(Region) /\ ShownOrder
    BY DEF SmapsInv, SmapsTypeOK
  <2> QED BY ONLY <1>0, <1>2, <2>1, ShownAreListing
<1>4. (IF shown = <<>> THEN {} ELSE {m_maps[k] : k \in DOMAIN m_maps}) = {MapOf(s) : s \in A}
  <2>1. shown = <<>> => DOMAIN m_maps = {}
    <3>1. DOMAIN <<>> = {}
      OBVIOUS
    <3> QED BY <1>2, <3>1
  <2> QED BY <1>0, <1>2, <2>1
<1>5. MapsView!Throw(A)
  BY <1>1, <1>3, <1>4 DEF MapsView!Throw, MapsView!End, PlaceOf, Entries, Shown
<1> QED BY <1>3, <1>5

LEMMA MapsStep == SmapsInv /\ [SmapsNext]_allVars => [MapsView!Next]_(MapsView!snapshotVars)
<1> SUFFICES ASSUME SmapsInv, [SmapsNext]_allVars
             PROVE  [MapsView!Next]_(MapsView!snapshotVars)
  OBVIOUS
<1>0. reading \in BOOLEAN /\ m_need_update_smaps \in BOOLEAN
  BY DEF SmapsInv, SmapsTypeOK
<1>1. CASE MapUnmap
  <2>1. /\ there' = there \cap Entries' /\ met' = met \cup Entries'
        /\ UNCHANGED <<reading, m_need_update_smaps, m_maps, shown>>
    BY <1>1 DEF MapUnmap, Alter, smapsVars
  <2>2. MapsView!Alter
    BY <1>0, <2>1 DEF MapsView!Alter
  <2> QED BY <2>2 DEF MapsView!Next
<1>2. CASE UpdateMaps
  <2>1. MapsView!Dismiss
    BY <1>0, <1>2 DEF UpdateMaps, seqVars, MapsView!Dismiss, Entries, Shown
  <2> QED BY <2>1 DEF MapsView!Next
<1>3. CASE BeginMaps
  <2>1. ~reading /\ m_need_update_smaps /\ Entries' = Entries
    BY <1>3 DEF BeginMaps, Seek, CannotOpen, Entries, Shown
  <2>2. CASE Seek /\ reading' = TRUE
    <3>1. MapsView!Begin
      BY <2>1, <2>2 DEF Seek, MapsView!Begin
    <3> QED BY <3>1 DEF MapsView!Next
  <2>3. CASE CannotOpen /\ reading' = FALSE /\ m_need_update_smaps' = FALSE
    <3>1. MapsView!CannotOpen
      BY <2>1, <2>3 DEF CannotOpen, MapsView!CannotOpen
    <3> QED BY <3>1 DEF MapsView!Next
  <2> QED BY <1>3, <2>2, <2>3 DEF BeginMaps
<1>4. ASSUME NEW k \in Key, ReadMaps(k) PROVE UNCHANGED MapsView!snapshotVars
  BY <1>4, MapsInside DEF ReadMaps, Show
<1>5. CASE AddLine \/ CutMap
  BY <1>5, MapsInside DEF AddLine, CutMap, seqVars
<1>6. CASE EndMaps
  <2>1. (\E A \in SUBSET met : MapsView!Return(A)) /\ reading
    BY <1>6, MapsReturn DEF EndMaps
  <2> QED BY <2>1 DEF MapsView!Next
<1>7. CASE MapsThrow
  <2>1. (\E A \in SUBSET met : MapsView!Throw(A)) /\ reading
    BY <1>7, MapsThrown DEF MapsThrow
  <2> QED BY <2>1 DEF MapsView!Next
<1>8. CASE UNCHANGED allVars
  BY <1>8 DEF allVars, seqVars, smapsVars, MapsView!snapshotVars, Entries, Shown
<1> QED BY <1>1, <1>2, <1>3, <1>4, <1>5, <1>6, <1>7, <1>8 DEF SmapsNext

\* MapsAreAListing: whatever is mapped and unmapped between two lines, what
\* maps() gives is made of mappings there were during the call, one for each
\* address, and leaves out none that stayed; the object keeps it until
\* updateMaps(), and a call that threw leaves no more than a part of it.
THEOREM SmapsListing == SmapsSpec => MapsAreAListing
<1> QED BY MapsBegin, MapsStep, SmapsInvHolds, PTL DEF SmapsSpec, MapsAreAListing, MapsView!Spec
=============================================================================
