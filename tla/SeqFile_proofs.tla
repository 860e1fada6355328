--------------------------- MODULE SeqFile_proofs ---------------------------
(***************************************************************************)
(* Proofs about SeqFile that both readers need: whatever happens to the    *)
(* table, what has been shown rises by key, was there, and leaves out      *)
(* nothing that has been there all the time.                               *)
(***************************************************************************)
EXTENDS SeqFile, TLAPS

LEMMA SeqIndexes ==
  ASSUME NEW S, NEW s \in Seq(S)
  PROVE  DOMAIN s = 1 .. Len(s) /\ Len(s) \in Nat /\ \A k \in 1 .. Len(s) : s[k] \in S
OBVIOUS

LEMMA SeqOneMore ==
  ASSUME NEW S, NEW s \in Seq(S), NEW e \in S
  PROVE  /\ Append(s, e) \in Seq(S)
         /\ Len(s) \in Nat /\ Len(Append(s, e)) = Len(s) + 1
         /\ \A k \in 1 .. Len(s) : Append(s, e)[k] = s[k]
         /\ Append(s, e)[Len(s) + 1] = e
OBVIOUS

LEMMA EntriesType ==
  ASSUME NEW E, table \in [Key -> E \cup {None}]
  PROVE  Entries \subseteq [key : Key, entry : E]
BY DEF Entries, Shown

LEMMA SeqInitHolds ==
  ASSUME NEW E, SeqInit(E)
  PROVE  SeqTypeOK(E) /\ ShownOrder
<1>1. <<>> \in Seq([key : Key, entry : E])
  OBVIOUS
<1>2. opened = FALSE /\ shown = <<>> /\ there = {} /\ met = {} /\ changes = 0 /\ position = 0
      /\ table \in [Key -> E \cup {None}]
  BY DEF SeqInit
<1>3. 0 \in 0 .. MaxChanges
  BY SeqAssumption
<1>4. DOMAIN shown = {}
  BY <1>2
<1>5. SeqTypeOK(E)
  BY <1>1, <1>2, <1>3 DEF SeqTypeOK
<1>6. ShownOrder
  BY <1>2, <1>4 DEF ShownOrder
<1> QED BY <1>5, <1>6

\* What it means that an entry is shown.
LEMMA ShowAdds ==
  ASSUME NEW E, SeqTypeOK(E), NEW k \in Key, Show(k)
  PROVE  /\ Shown(k) \in [key : Key, entry : E] /\ Shown(k) \in Entries /\ Shown(k).key = k
         /\ shown' \in Seq([key : Key, entry : E])
         /\ Len(shown) \in Nat /\ Len(shown') = Len(shown) + 1
         /\ DOMAIN shown = 1 .. Len(shown) /\ DOMAIN shown' = 1 .. Len(shown) + 1
         /\ \A j \in 1 .. Len(shown) : shown'[j] = shown[j]
         /\ shown'[Len(shown) + 1] = Shown(k)
<1>1. Shown(k) \in Entries /\ Shown(k).key = k /\ shown' = Append(shown, Shown(k))
  BY DEF Show, Entries, Shown
<1>2. Shown(k) \in [key : Key, entry : E] /\ shown \in Seq([key : Key, entry : E])
  BY <1>1, EntriesType DEF SeqTypeOK
<1>3. /\ shown' \in Seq([key : Key, entry : E])
      /\ Len(shown) \in Nat /\ Len(shown') = Len(shown) + 1
      /\ \A j \in 1 .. Len(shown) : shown'[j] = shown[j]
      /\ shown'[Len(shown) + 1] = Shown(k)
  BY <1>1, <1>2, SeqOneMore
<1>4. DOMAIN shown = 1 .. Len(shown) /\ DOMAIN shown' = 1 .. Len(shown')
  BY <1>2, <1>3, SeqIndexes
<1> QED BY <1>1, <1>2, <1>3, <1>4

LEMMA SeqTypeStep ==
  ASSUME NEW E, SeqTypeOK(E), SeqNext(E) \/ UNCHANGED seqVars
  PROVE  SeqTypeOK(E)'
<1> USE DEF SeqTypeOK
<1>1. CASE UNCHANGED seqVars
  BY <1>1 DEF seqVars
<1>2. CASE Alter(E)
  <2>1. table' \in [Key -> E \cup {None}] /\ changes' \in 0 .. MaxChanges
    BY <1>2, SeqAssumption DEF Alter
  <2>2. Entries' \subseteq [key : Key, entry : E]
    BY <2>1 DEF Entries, Shown
  <2> QED BY <1>2, <2>1, <2>2 DEF Alter
<1>3. CASE Seek \/ CannotOpen
  <2>1. <<>> \in Seq([key : Key, entry : E])
    OBVIOUS
  <2> QED BY <1>3, <2>1, EntriesType DEF Seek, CannotOpen
<1>4. ASSUME NEW k \in Key, Show(k) PROVE SeqTypeOK(E)'
  <2>1. shown' \in Seq([key : Key, entry : E])
    BY <1>4, ShowAdds
  <2> QED BY <1>4, <2>1 DEF Show
<1> QED BY <1>1, <1>2, <1>3, <1>4 DEF SeqNext

LEMMA ShownOrderStep ==
  ASSUME NEW E, SeqTypeOK(E), ShownOrder, SeqNext(E) \/ UNCHANGED seqVars
  PROVE  ShownOrder'
<1>0. /\ shown \in Seq([key : Key, entry : E]) /\ position \in Nat
      /\ there \subseteq [key : Key, entry : E] /\ Key \subseteq Nat
      /\ Entries \subseteq [key : Key, entry : E]
  BY SeqAssumption, EntriesType DEF SeqTypeOK
<1>1. CASE UNCHANGED seqVars
  BY <1>1 DEF seqVars, ShownOrder, Entries, Shown
<1>2. CASE Alter(E)
  BY <1>2 DEF Alter, ShownOrder
<1>3. CASE Seek \/ CannotOpen
  <2>1. DOMAIN shown' = {} /\ position' = 0 /\ there' \subseteq Entries /\ Entries' = Entries
        /\ (opened' => Entries \subseteq met')
    BY <1>3 DEF Seek, CannotOpen, Entries, Shown
  <2>2. \A s \in there' : ~(s.key <= 0)
    <3> SUFFICES ASSUME NEW s \in there' PROVE ~(s.key <= 0)
      OBVIOUS
    <3>1. s.key \in Nat \ {0}
      BY <1>0, <2>1, SeqAssumption
    <3> QED BY <3>1
  <2> QED BY <2>1, <2>2 DEF ShownOrder
<1>4. ASSUME NEW k \in Key, Show(k) PROVE ShownOrder'
  <2>1. PICK n \in Nat : n = Len(shown)
    BY <1>0, SeqIndexes
  <2>2. /\ Shown(k) \in Entries /\ Shown(k).key = k
        /\ DOMAIN shown = 1 .. n /\ DOMAIN shown' = 1 .. n + 1
        /\ \A j \in 1 .. n : shown'[j] = shown[j] /\ shown[j] \in [key : Key, entry : E]
        /\ shown'[n + 1] = Shown(k)
    BY <1>0, <1>4, <2>1, ShowAdds, SeqIndexes
  <2>3. /\ position' = k /\ k > position /\ k \in Nat
        /\ UNCHANGED <<opened, there, met>> /\ Entries' = Entries
    BY <1>0, <1>4 DEF Show, Entries, Shown
  <2>4. \A j \in 1 .. n + 1 : j \in 1 .. n \/ j = n + 1
    BY <2>1
  <2>5. \A j \in 1 .. n : shown[j].key \in Nat /\ shown[j].key <= position /\ shown[j] \in met
    BY <1>0, <2>2 DEF ShownOrder
  <2>6. ASSUME NEW i \in 1 .. n + 1, NEW j \in 1 .. n + 1, i < j
        PROVE  shown'[i].key < shown'[j].key
    <3>1. i \in 1 .. n
      BY <2>1, <2>6
    <3>2. CASE j \in 1 .. n
      BY <2>2, <2>6, <3>1, <3>2 DEF ShownOrder
    <3>3. CASE j = n + 1
      <4>1. shown[i].key < k
        BY <1>0, <2>3, <2>5, <3>1
      <4> QED BY <2>2, <3>1, <3>3, <4>1
    <3> QED BY <2>4, <3>2, <3>3
  <2>7. Shown(k) \in met
    <3>1. Entries \subseteq met
      BY <1>4 DEF ShownOrder, Show
    <3> QED BY <2>2, <3>1
  <2>8. ASSUME NEW j \in 1 .. n + 1 PROVE shown'[j].key <= k /\ shown'[j] \in met
    <3>1. CASE j \in 1 .. n
      BY <1>0, <2>2, <2>3, <2>5, <3>1
    <3>2. CASE j = n + 1
      BY <2>2, <2>3, <2>7, <3>2
    <3> QED BY <2>4, <3>1, <3>2
  <2>9. ASSUME NEW s \in there, s.key <= k PROVE \E j \in 1 .. n + 1 : shown'[j] = s
    <3>1. s \in Entries /\ s.key \in Key /\ s.key \in Nat
      BY <1>0 DEF ShownOrder
    <3>2. CASE s.key <= position
      <4>1. PICK j \in 1 .. n : shown[j] = s
        BY <2>2, <3>2 DEF ShownOrder
      <4> QED BY <2>1, <2>2, <4>1
    <3>3. CASE s.key > position
      <4>1. table[s.key] # None /\ s = Shown(s.key)
        BY <3>1 DEF Entries, Shown
      <4>2. k <= s.key
        BY <1>4, <3>1, <3>3, <4>1 DEF Show
      <4>3. s.key = k
        BY <1>0, <2>3, <2>9, <3>1, <4>2
      <4> QED BY <2>1, <2>2, <4>1, <4>3
    <3>4. s.key <= position \/ s.key > position
      BY <1>0, <3>1
    <3> QED BY <3>2, <3>3, <3>4
  <2>10. there' \subseteq Entries' /\ (opened' => Entries' \subseteq met')
    BY <2>3 DEF ShownOrder
  <2> QED BY <2>2, <2>3, <2>6, <2>8, <2>9, <2>10 DEF ShownOrder
<1> QED BY <1>1, <1>2, <1>3, <1>4 DEF SeqNext

\* At the end of the file nothing that has been there all the time is left out.
LEMMA AllShown ==
  ASSUME NEW E, SeqTypeOK(E), ShownOrder, AtEnd
  PROVE  \A s \in there : \E k \in DOMAIN shown : shown[k] = s
<1> SUFFICES ASSUME NEW s \in there PROVE \E k \in DOMAIN shown : shown[k] = s
  OBVIOUS
<1>1. s \in Entries
  BY DEF ShownOrder
<1>2. s.key \in Key /\ table[s.key] # None
  BY <1>1 DEF Entries, Shown
<1>3. ~(s.key > position)
  BY <1>2 DEF AtEnd
<1>4. s.key \in Nat /\ position \in Nat
  <2>1. Key \subseteq Nat
    BY SeqAssumption
  <2>2. position \in Key \/ position = 0
    BY DEF SeqTypeOK
  <2>3. position \in Key => position \in Nat
    BY <2>1
  <2>4. position = 0 => position \in Nat
    OBVIOUS
  <2> QED BY <1>2, <2>1, <2>2, <2>3, <2>4, Zenon
<1>5. s.key <= position
  BY <1>3, <1>4
<1> QED BY <1>5 DEF ShownOrder

\* Indexes of a sequence whose keys rise are told apart by their keys.
LEMMA RisingApart ==
  ASSUME NEW n \in Nat, NEW keyAt, \A i \in 1 .. n : keyAt[i] \in Nat,
         \A i, j \in 1 .. n : i < j => keyAt[i] < keyAt[j],
         NEW j \in 1 .. n, NEW k \in 1 .. n, keyAt[j] = keyAt[k]
  PROVE  j = k
<1>1. j < k \/ k < j \/ j = k
  BY SMT
<1>2. ~(keyAt[j] < keyAt[k]) /\ ~(keyAt[k] < keyAt[j])
  BY SMT
<1> QED BY <1>1, <1>2

LEMMA ShownApart ==
  ASSUME NEW E, SeqTypeOK(E), ShownOrder, NEW j \in DOMAIN shown, NEW k \in DOMAIN shown,
         shown[j].key = shown[k].key
  PROVE  j = k
<1>1. PICK n \in Nat : DOMAIN shown = 1 .. n
  BY SeqIndexes DEF SeqTypeOK
<1> DEFINE keyAt == [i \in 1 .. n |-> shown[i].key]
<1>2. \A i \in 1 .. n : keyAt[i] \in Nat
  <2>1. shown \in Seq([key : Key, entry : E])
    BY DEF SeqTypeOK
  <2>2. \A i \in DOMAIN shown : shown[i] \in [key : Key, entry : E]
    BY ONLY <2>1, SeqIndexes
  <2>3. Key \subseteq Nat
    BY SeqAssumption
  <2> QED BY <1>1, <2>2, <2>3
<1>3. \A a, b \in 1 .. n : a < b => keyAt[a] < keyAt[b]
  BY <1>1 DEF ShownOrder
<1>4. \A a, b \in 1 .. n : keyAt[a] = keyAt[b] => a = b
  BY ONLY n \in Nat, <1>2, <1>3, RisingApart
<1> QED BY <1>1, <1>4

\* The entries shown up to one of them are such as a listing may be made of;
\* at the end of the file they are all it has to be made of.
LEMMA ShownAreListing ==
  ASSUME NEW E, SeqTypeOK(E), ShownOrder,
         NEW D, D \subseteq DOMAIN shown,
         NEW A, A = {shown[k] : k \in D}
  PROVE  /\ A \subseteq met
         /\ \A s, t \in A : s.key = t.key => s = t
         /\ AtEnd /\ D = DOMAIN shown => there \subseteq A
<1>1. A \subseteq met
  BY DEF ShownOrder
<1>2. \A s, t \in A : s.key = t.key => s = t
  <2> SUFFICES ASSUME NEW j \in D, NEW k \in D, shown[j].key = shown[k].key
               PROVE  shown[j] = shown[k]
    OBVIOUS
  <2> QED BY ShownApart
<1>3. ASSUME AtEnd, D = DOMAIN shown PROVE there \subseteq A
  BY <1>3, AllShown
<1> QED BY <1>1, <1>2, <1>3
=============================================================================
