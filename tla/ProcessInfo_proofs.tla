------------------------- MODULE ProcessInfo_proofs -------------------------
(***************************************************************************)
(* Proofs about ProcessInfo, for every set of processes, objects, values   *)
(* and keys and for every bound.                                           *)
(***************************************************************************)
EXTENDS ProcessInfo, TLAPS

USE DEF Special

\* Laying one set of entries over another, as the [] of an unordered_map does
\* in readFd() and readEnviron(), keeps the type of the values.
LEMMA OverType ==
  ASSUME NEW S, NEW V, NEW T, NEW m \in [T -> V], NEW c \in [S -> V]
  PROVE  Over(c, m) \in [S \cup T -> V]
BY DEF Over

LEMMA EntriesOver ==
  ASSUME NEW V, NEW c \in UNION {[S -> V] : S \in SUBSET Key},
         NEW m \in UNION {[S -> V] : S \in SUBSET Key}
  PROVE  Over(c, m) \in UNION {[S -> V] : S \in SUBSET Key}
<1>1. PICK S \in SUBSET Key : c \in [S -> V] OBVIOUS
<1>2. PICK T \in SUBSET Key : m \in [T -> V] OBVIOUS
<1>3. Over(c, m) \in [S \cup T -> V] BY <1>1, <1>2, OverType
<1> QED BY <1>3

LEMMA EntriesWiden ==
  ASSUME NEW V, NEW W, V \subseteq W, NEW c \in UNION {[S -> V] : S \in SUBSET Key}
  PROVE  c \in UNION {[S -> W] : S \in SUBSET Key}
<1>1. PICK S \in SUBSET Key : c \in [S -> V] OBVIOUS
<1>2. c \in [S -> W] BY <1>1
<1> QED BY <1>2

\* Each read* function stores values its members can hold.
LEMMA ReadType ==
  ASSUME NEW f \in Files, NEW m \in Member(f), NEW c \in Content(f) \cup {NoFile},
         now \in Nat, ~Throws(f, c)
  PROVE  read(f, m, c) \in Member(f)
<1> USE ConstantsAssumption
<1>1. CASE c = NoFile
  <2>1. CASE f = "stat"
    BY <1>1, <2>1 DEF read, readStat, Member
  <2>2. CASE f = "status"
    BY <1>1, <2>2 DEF read, readStatus, Member
  <2>3. CASE f = "io"
    BY <1>1, <2>3 DEF read, readIo, Member
  <2>4. CASE f \notin {"stat", "status", "io"}
    BY <1>1, <2>4 DEF read, readLink, readCmdline, readEnviron, readFd, readWchan,
                      Member, Files
  <2> QED BY <2>1, <2>2, <2>3, <2>4
<1>2. CASE c \in Content(f) /\ c # NoFile
  <2>1. CASE f = "stat"
    BY <1>2, <2>1 DEF read, readStat, Member, Content
  <2>2. CASE f = "status"
    <3>1. c.uid \in Val BY <1>2, <2>2 DEF Content, Throws
    <3> QED BY <1>2, <2>2, <3>1 DEF read, readStatus, Member
  <2>3. CASE f = "io"
    BY <1>2, <2>3 DEF read, readIo, Member, Content
  <2>4. CASE f = "environ"
    <3>1. m \in Entries /\ c \in Entries BY <1>2, <2>4 DEF Member, Content
    <3>2. Over(c, m) \in Entries BY <3>1, EntriesOver DEF Entries
    <3> QED BY <1>2, <2>4, <3>2 DEF read, readEnviron, Member
  <2>5. CASE f = "fd"
    <3>1. m \in Links /\ c \in Entries BY <1>2, <2>5 DEF Member, Content
    <3>2. c \in Links BY <3>1, EntriesWiden DEF Entries, Links
    <3>3. Over(c, m) \in Links BY <3>1, <3>2, EntriesOver DEF Links
    <3> QED BY <1>2, <2>5, <3>3 DEF read, readFd, Member
  <2>6. CASE f \in {"cwd", "exe", "root", "cmdline", "wchan"}
    BY <1>2, <2>6 DEF read, readLink, readCmdline, readWchan, Member, Content
  <2> QED BY <2>1, <2>2, <2>3, <2>4, <2>5, <2>6 DEF Files
<1> QED BY <1>1, <1>2

LEMMA FreshType == ASSUME NEW f \in Files PROVE FreshMember(f) \in Member(f)
<1>1. <<>> \in Entries /\ <<>> \in Links
  <2>1. \A V : <<>> \in [{} -> V] OBVIOUS
  <2> QED BY <2>1 DEF Entries, Links
<1>2. CASE f = "stat" BY <1>2 DEF FreshMember, Member
<1>3. CASE f = "status" BY <1>3 DEF FreshMember, Member
<1>4. CASE f = "io" BY <1>4 DEF FreshMember, Member
<1>5. CASE f \in {"environ", "fd"} BY <1>1, <1>5 DEF FreshMember, Member
<1>6. CASE f \in {"cwd", "exe", "root", "cmdline", "wchan"}
  BY <1>6 DEF FreshMember, Member
<1> QED BY <1>2, <1>3, <1>4, <1>5, <1>6 DEF Files

LEMMA NewbornType == ASSUME NEW f \in Files PROVE NewbornFile(f) \in Content(f)
<1> USE ConstantsAssumption
<1>1. <<>> \in Entries
  <2>1. <<>> \in [{} -> Val] OBVIOUS
  <2> QED BY <2>1 DEF Entries
<1>2. CASE f = "stat" BY <1>2 DEF NewbornFile, Content
<1>3. CASE f = "status" BY <1>3 DEF NewbornFile, Content
<1>4. CASE f = "io" BY <1>4 DEF NewbornFile, Content
<1>5. CASE f \in {"environ", "fd"} BY <1>1, <1>5 DEF NewbornFile, Content
<1>6. CASE f \in {"cwd", "exe", "root", "cmdline", "wchan"}
  BY <1>6 DEF NewbornFile, Content
<1> QED BY <1>2, <1>3, <1>4, <1>5, <1>6 DEF Files
-----------------------------------------------------------------------------
\* The ways the files and the objects change, one lemma each.

LEMMA SetFilesType ==
  ASSUME FileOK, SeenOK, NEW p \in Pid, NEW fs, NEW M, SetFilesThrough(p, M, fs),
         M \subseteq Content("fd") \cup {NoFile},
         DOMAIN fs = Files, \A f \in Files : fs[f] \in Content(f) \cup {NoFile}
  PROVE  FileOK' /\ SeenOK'
<1>1. FileOK' BY DEF FileOK, SetFilesThrough
<1>2. SeenOK'
  <2>1. DOMAIN seen' = Obj /\ \A o \in Obj : DOMAIN seen'[o] = Files
    BY DEF SetFilesThrough
  <2>2. ASSUME NEW o \in Obj, NEW f \in Files
        PROVE  seen'[o][f] \subseteq Content(f) \cup {NoFile}
    <3>1. \/ seen'[o][f] = seen[o][f] \cup {fs[f]} \cup (IF f = "fd" THEN M ELSE {})
          \/ seen'[o][f] = seen[o][f]
      BY DEF SetFilesThrough
    <3> QED BY <3>1 DEF SeenOK
  <2> QED BY <2>1, <2>2 DEF SeenOK
<1> QED BY <1>1, <1>2

LEMMA RefreshType ==
  ASSUME TypeOK, NEW o \in Obj, NEW f \in Files, NEW c \in Content(f) \cup {NoFile},
         ~Throws(f, c), Refresh(o, f, c)
  PROVE  /\ MemOK' /\ SeenOK'
         /\ dirty' \in [Obj -> SUBSET Files]
<1>1. MemOK'
  <2>1. read(f, mem[o][f], c) \in Member(f) BY ReadType DEF TypeOK, MemOK
  <2> QED BY <2>1 DEF TypeOK, MemOK, Refresh
<1>2. SeenOK' BY DEF TypeOK, SeenOK, Refresh
<1>3. dirty' \in [Obj -> SUBSET Files] BY DEF TypeOK, Refresh
<1> QED BY <1>1, <1>2, <1>3

\* What the scan of fd/ stores.
LEMMA ScanType ==
  ASSUME TypeOK, NEW o \in Obj, NEW M, ScanFd(o, M)
  PROVE  /\ pidof[o] \in Pid /\ MemOK' /\ dirty' \in [Obj -> SUBSET Files]
         /\ UNCHANGED <<spawns, now, pidof, fault>>
<1>1. pidof[o] \in Pid BY DEF ScanFd, Held, TypeOK
<1>2. PICK r \in Links : mem' = [mem EXCEPT ![o]["fd"] = readFd(@, r)]
  BY DEF ScanFd, Scanned
<1>3. mem[o]["fd"] \in Links BY DEF TypeOK, MemOK, Files, Member
<1>4. readFd(mem[o]["fd"], r) \in Member("fd")
  BY <1>3, EntriesOver DEF readFd, Links, Member
<1>5. MemOK' BY <1>2, <1>4 DEF TypeOK, MemOK
<1>6. dirty' \in [Obj -> SUBSET Files] BY DEF ScanFd, TypeOK
<1> QED BY <1>1, <1>5, <1>6 DEF ScanFd

LEMMA OpenedType ==
  ASSUME FileOK, NEW p \in Pid, NEW f \in Files, NEW c \in Opened(p, f)
  PROVE  c \in Content(f) \cup {NoFile}
BY DEF FileOK, Opened

LEMMA InitType == Init => TypeOK
<1> SUFFICES ASSUME Init PROVE TypeOK OBVIOUS
<1> USE ConstantsAssumption DEF Init
<1>1. FileOK BY DEF FileOK, NoFiles
<1>2. MemOK BY FreshType DEF MemOK
<1>3. SeenOK BY DEF SeenOK
<1>4. /\ alive \in [Pid -> BOOLEAN] /\ fault \in BOOLEAN
      /\ pidof \in [Obj -> Pid \cup {NoPid}]
      /\ dirty \in [Obj -> SUBSET Files]
  OBVIOUS
<1>5. spawns \in [Pid -> 0 .. MaxSpawns] /\ changes \in 0 .. MaxChanges /\ now \in Nat
  OBVIOUS
<1> QED BY <1>1, <1>2, <1>3, <1>4, <1>5 DEF TypeOK

LEMMA KernelType == TypeOK /\ Kernel => TypeOK'
<1> SUFFICES ASSUME TypeOK, Kernel PROVE TypeOK' OBVIOUS
<1> USE ConstantsAssumption
<1>1. ASSUME NEW p \in Pid, Spawn(p) PROVE TypeOK'
  <2>1. DOMAIN NewbornFiles = Files /\
        \A f \in Files : NewbornFiles[f] \in Content(f) \cup {NoFile}
    BY NewbornType DEF NewbornFiles
  <2>2. FileOK' /\ SeenOK' BY <1>1, <2>1, SetFilesType DEF Spawn, SetFiles, TypeOK
  <2>3. MemOK' BY <1>1 DEF Spawn, objectVars, TypeOK, MemOK
  <2> QED BY <1>1, <2>2, <2>3 DEF Spawn, objectVars, TypeOK
<1>2. ASSUME NEW p \in Pid, Exit(p) PROVE TypeOK'
  <2>1. FileOK' /\ SeenOK' BY <1>2, SetFilesType DEF Exit, SetFiles, TypeOK, NoFiles
  <2>2. MemOK' BY <1>2 DEF Exit, objectVars, TypeOK, MemOK
  <2> QED BY <1>2, <2>1, <2>2 DEF Exit, objectVars, TypeOK
<1>3. ASSUME NEW p \in Pid, NEW f \in Getters, NEW c \in Contents(f), Change(p, f, c)
      PROVE  TypeOK'
  <2> DEFINE fs == [file[p] EXCEPT ![f] = c]
  <2>1. DOMAIN fs = Files /\ \A g \in Files : fs[g] \in Content(g) \cup {NoFile}
    BY DEF TypeOK, FileOK, Contents
  <2>2. SetFilesThrough(p, {}, fs) BY <1>3 DEF Change, SetFiles
  <2>3. FileOK' /\ SeenOK'
    <3> HIDE DEF fs
    <3> QED BY <2>1, <2>2, SetFilesType DEF TypeOK
  <2>4. MemOK' BY <1>3 DEF Change, objectVars, TypeOK, MemOK
  <2> QED BY <1>3, <2>3, <2>4 DEF Change, objectVars, TypeOK
<1>4. CASE Tick BY <1>4 DEF Tick, objectVars, TypeOK, FileOK, MemOK, SeenOK
<1> QED BY <1>1, <1>2, <1>3, <1>4 DEF Kernel

LEMMA ClientType == TypeOK /\ Client => TypeOK'
<1> SUFFICES ASSUME TypeOK, Client PROVE TypeOK' OBVIOUS
<1> USE ConstantsAssumption DEF kernelVars
<1>1. ASSUME NEW o \in Obj, NEW p \in Pid, Construct(o, p) PROVE TypeOK'
  <2>1. MemOK' BY <1>1, FreshType DEF Construct, TypeOK, MemOK
  <2>2. FileOK' /\ SeenOK' BY <1>1 DEF Construct, TypeOK, FileOK, SeenOK
  <2> QED BY <1>1, <2>1, <2>2 DEF Construct, TypeOK
<1>2. ASSUME NEW o \in Obj, NEW q \in Obj, Copy(o, q) PROVE TypeOK'
  <2>1. MemOK' BY <1>2 DEF Copy, TypeOK, MemOK
  <2>2. FileOK' /\ SeenOK' BY <1>2 DEF Copy, TypeOK, FileOK, SeenOK
  <2> QED BY <1>2, <2>1, <2>2 DEF Copy, TypeOK
<1>3. ASSUME NEW o \in Obj, Destroy(o) PROVE TypeOK'
  <2>1. MemOK' BY <1>3, FreshType DEF Destroy, TypeOK, MemOK
  <2>2. FileOK' /\ SeenOK' BY <1>3 DEF Destroy, TypeOK, FileOK, SeenOK
  <2> QED BY <1>3, <2>1, <2>2 DEF Destroy, TypeOK
<1>4. ASSUME NEW o \in Obj, needUpdate(o) PROVE TypeOK'
  <2>1. pidof[o] \in Pid BY <1>4 DEF needUpdate, Held, TypeOK
  <2>2. FileOK' /\ SeenOK' BY <1>4, <2>1 DEF needUpdate, TypeOK, FileOK, SeenOK
  <2> QED BY <1>4, <2>2 DEF needUpdate, TypeOK, MemOK
<1>5. ASSUME NEW o \in Obj, NEW f \in Getters, Get(o, f) PROVE TypeOK'
  <2>1. PICK c \in Opened(pidof[o], f) : ~Throws(f, c) /\ Refresh(o, f, c)
    BY <1>5 DEF Get
  <2>2. pidof[o] \in Pid BY <1>5 DEF Get, Held, TypeOK
  <2>3. c \in Content(f) \cup {NoFile} BY <2>2, OpenedType DEF TypeOK
  <2>4. MemOK' /\ SeenOK' /\ dirty' \in [Obj -> SUBSET Files]
    BY <2>1, <2>3, RefreshType
  <2>5. FileOK' BY <2>1 DEF Refresh, TypeOK, FileOK
  <2> QED BY <1>5, <2>1, <2>4, <2>5 DEF Get, Refresh, TypeOK
<1>6. ASSUME NEW o \in Obj, GetStatusThrows(o) PROVE TypeOK'
  <2>1. PICK c \in Opened(pidof[o], "status") :
          /\ Throws("status", c)
          /\ \E m \in Thrown(mem[o]["status"], c) :
               mem' = [mem EXCEPT ![o]["status"] = m]
    BY <1>6 DEF GetStatusThrows
  <2>2. pidof[o] \in Pid BY <1>6 DEF GetStatusThrows, Held, TypeOK
  <2>3. c \in Content("status") \cup {NoFile} BY <2>2, OpenedType DEF TypeOK, Files
  <2>4. Thrown(mem[o]["status"], c) \subseteq Member("status")
    <3>1. mem[o]["status"] \in Member("status") BY DEF TypeOK, MemOK, Files
    <3>2. c.uid \in Val \cup {Huge} BY <2>1, <2>3 DEF Throws, Content
    <3>3. ASSUME NEW v \in Val
          PROVE  [mem[o]["status"] EXCEPT !.uids = Append(@, v)] \in Member("status")
      <4>1. mem[o]["status"].uids \in Seq(Val) BY <3>1 DEF Member
      <4>2. Append(mem[o]["status"].uids, v) \in Seq(Val) BY <4>1
      <4> QED BY <3>1, <4>2 DEF Member
    <3>4. CASE c.uid = Huge BY <3>1, <3>3, <3>4 DEF Thrown
    <3>5. CASE c.uid # Huge BY <3>2, <3>3, <3>5 DEF Thrown
    <3> QED BY <3>4, <3>5
  <2>5. MemOK' BY <2>1, <2>4 DEF TypeOK, MemOK
  <2>6. FileOK' /\ SeenOK' BY <1>6 DEF GetStatusThrows, TypeOK, FileOK, SeenOK
  <2> QED BY <1>6, <2>5, <2>6 DEF GetStatusThrows, TypeOK
<1>7. ASSUME NEW o \in Obj, userName(o) PROVE TypeOK'
  <2>1. fault' \in BOOLEAN BY <1>7 DEF userName
  <2>2. CASE \E c \in Opened(pidof[o], "status") :
               ~Throws("status", c) /\ Refresh(o, "status", c)
    <3>1. PICK c \in Opened(pidof[o], "status") :
            ~Throws("status", c) /\ Refresh(o, "status", c)
      BY <2>2
    <3>2. pidof[o] \in Pid BY <1>7 DEF userName, Held, TypeOK
    <3>3. c \in Content("status") \cup {NoFile} BY <3>2, OpenedType DEF TypeOK, Files
    <3>4. MemOK' /\ SeenOK' /\ dirty' \in [Obj -> SUBSET Files]
      BY <3>1, <3>3, RefreshType DEF Files
    <3>5. FileOK' BY <3>1 DEF Refresh, TypeOK, FileOK
    <3> QED BY <2>1, <3>1, <3>4, <3>5 DEF Refresh, TypeOK
  <2>3. CASE UNCHANGED <<kernelVars, objectVars, seen>>
    BY <2>1, <2>3 DEF objectVars, TypeOK, FileOK, MemOK, SeenOK
  <2> QED BY <1>7, <2>2, <2>3 DEF userName
<1>8. ASSUME NEW o \in Obj, NEW n \in 1 .. MaxChanges, NEW h \in [1 .. n -> Contents("fd")],
             GetFdWhileChanging(o, n, h)
      PROVE  TypeOK'
  <2> DEFINE p == pidof[o]
             M == {file[p]["fd"]} \cup {h[i] : i \in 1 .. n}
             fs == [file[p] EXCEPT !["fd"] = h[n]]
  <2>1. ScanFd(o, M) /\ SetFilesThrough(p, M, fs) BY <1>8 DEF GetFdWhileChanging
  <2>2. /\ p \in Pid /\ MemOK' /\ dirty' \in [Obj -> SUBSET Files]
        /\ UNCHANGED <<spawns, now, pidof, fault>>
    <3> HIDE DEF M
    <3> QED BY <2>1, ScanType
  <2>3. M \subseteq Content("fd") \cup {NoFile}
    BY <2>2 DEF Contents, TypeOK, FileOK, Files
  <2>4. DOMAIN fs = Files /\ \A g \in Files : fs[g] \in Content(g) \cup {NoFile}
    BY <2>2, <2>3 DEF TypeOK, FileOK
  <2>5. FileOK' /\ SeenOK'
    <3> HIDE DEF fs, M
    <3> QED BY <2>1, <2>2, <2>3, <2>4, SetFilesType DEF TypeOK
  <2>6. alive' = alive /\ changes' \in 0 .. MaxChanges
    BY <1>8 DEF GetFdWhileChanging, TypeOK
  <2> QED BY <2>2, <2>5, <2>6 DEF TypeOK
<1>9. ASSUME NEW o \in Obj, NEW n \in 0 .. MaxChanges, NEW h \in [1 .. n -> Contents("fd")],
             GetFdWhileExiting(o, n, h)
      PROVE  TypeOK'
  <2> DEFINE p == pidof[o]
             M == {file[p]["fd"], NoFile} \cup {h[i] : i \in 1 .. n}
  <2>1. ScanFd(o, M) /\ SetFilesThrough(p, M, NoFiles) BY <1>9 DEF GetFdWhileExiting
  <2>2. /\ p \in Pid /\ MemOK' /\ dirty' \in [Obj -> SUBSET Files]
        /\ UNCHANGED <<spawns, now, pidof, fault>>
    <3> HIDE DEF M
    <3> QED BY <2>1, ScanType
  <2>3. M \subseteq Content("fd") \cup {NoFile}
    BY <2>2 DEF Contents, TypeOK, FileOK, Files
  <2>4. FileOK' /\ SeenOK'
    <3> HIDE DEF M
    <3> QED BY <2>1, <2>2, <2>3, SetFilesType DEF TypeOK, NoFiles
  <2>5. changes' \in 0 .. MaxChanges BY <1>9 DEF GetFdWhileExiting, TypeOK
  <2>6. alive' \in [Pid -> BOOLEAN] BY <1>9 DEF GetFdWhileExiting, TypeOK
  <2> QED BY <2>2, <2>4, <2>5, <2>6 DEF TypeOK
<1> QED BY <1>1, <1>2, <1>3, <1>4, <1>5, <1>6, <1>7, <1>8, <1>9 DEF Client

LEMMA StepType == TypeOK /\ [Next]_vars => TypeOK'
<1>1. TypeOK /\ UNCHANGED vars => TypeOK'
  BY DEF vars, kernelVars, objectVars, TypeOK, FileOK, MemOK, SeenOK
<1> QED BY <1>1, KernelType, ClientType DEF Next

\* Whatever is read, in whatever order, every member keeps its type.
THEOREM TypeCorrect == Spec => []TypeOK
<1> QED BY InitType, StepType, PTL DEF Spec
-----------------------------------------------------------------------------
\* How a file's flag comes to be down after a step: the answer was there
\* before, in this object or in the one it is a copy of; or the step read the
\* file; or it scanned fd/ while the directory was changing.

Kept(o, f) ==
  \E q \in Obj : /\ Clean(q, f)
                 /\ mem'[o][f] = mem[q][f] /\ seen'[o][f] = seen[q][f]

WasRead(o, f) ==
  \E c \in Content(f) \cup {NoFile} :
    c \in seen'[o][f] /\ ~Throws(f, c) /\ mem'[o][f] = read(f, mem[o][f], c)

WasScanned(o, f) ==
  f = "fd" /\ \/ NoFile \in seen'[o][f]
              \/ \A k \in Key : ShowsLink(mem'[o][f], k, seen'[o][f])

LEMMA SetFilesKeeps ==
  ASSUME NEW p \in Pid, NEW fs, SetFiles(p, fs), mem' = mem, pidof' = pidof,
         dirty' = dirty, NEW o \in Obj, NEW f \in Files, Clean(o, f)'
  PROVE  Kept(o, f)
BY DEF SetFiles, SetFilesThrough, Clean, Kept

LEMMA RefreshAnswers ==
  ASSUME TypeOK, NEW r \in Obj, NEW g \in Files, NEW c \in Content(g) \cup {NoFile},
         ~Throws(g, c), Refresh(r, g, c), NEW o \in Obj, NEW f \in Files, Clean(o, f)'
  PROVE  Kept(o, f) \/ WasRead(o, f)
<1>1. CASE o = r /\ f = g
  BY <1>1 DEF TypeOK, MemOK, SeenOK, Refresh, WasRead
<1>2. CASE ~(o = r /\ f = g)
  BY <1>2 DEF TypeOK, MemOK, SeenOK, Refresh, Kept, Clean
<1> QED BY <1>1, <1>2

\* A scan of fd/ under the contents M: a descriptor that all of them have was
\* found, with a link of one of them; the object's flag was up, so that its
\* history gets them all.
LEMMA ScanAnswers ==
  ASSUME TypeOK, NEW r \in Obj, NEW M, NEW fs, ScanFd(r, M),
         SetFilesThrough(pidof[r], M, fs),
         NEW o \in Obj, NEW f \in Files, Clean(o, f)'
  PROVE  Kept(o, f) \/ WasScanned(o, f)
<1>1. pidof[r] \in Pid /\ "fd" \in dirty[r] /\ "fd" \in Files
  BY DEF ScanFd, Held, TypeOK, Files
<1>2. PICK s \in Scanned(M) : mem' = [mem EXCEPT ![r]["fd"] = readFd(@, s)]
  BY DEF ScanFd
<1>3. CASE o = r /\ f = "fd"
  <2>1. mem'[o][f] = Over(s, mem[o][f])
    <3>1. s # NoFile BY ConstantsAssumption DEF Scanned
    <3> QED BY <1>1, <1>2, <1>3, <3>1 DEF TypeOK, MemOK, readFd
  <2>2. M \subseteq seen'[o][f]
    BY <1>1, <1>3 DEF SetFilesThrough, TypeOK, ScanFd, Held
  <2>3. ASSUME NoFile \notin M, NEW k \in Key
        PROVE  ShowsLink(mem'[o][f], k, seen'[o][f])
    <3>1. CASE \E c \in M : k \notin DOMAIN c BY <2>2, <3>1 DEF ShowsLink
    <3>2. CASE \A c \in M : k \in DOMAIN c
      <4>1. k \in DOMAIN s /\ \E c \in M : s[k] = c[k] BY <2>3, <3>2 DEF Scanned
      <4>2. k \in DOMAIN mem'[o][f] /\ mem'[o][f][k] = s[k] BY <2>1, <4>1 DEF Over
      <4> QED BY <2>2, <4>1, <4>2 DEF ShowsLink
    <3> QED BY <3>1, <3>2
  <2> QED BY <1>3, <2>2, <2>3 DEF WasScanned
<1>4. CASE ~(o = r /\ f = "fd")
  <2>1. f \notin dirty[o] /\ pidof[o] # NoPid
    BY <1>4 DEF ScanFd, Clean, TypeOK
  <2>2. seen'[o][f] = seen[o][f] BY <2>1 DEF SetFilesThrough
  <2>3. mem'[o][f] = mem[o][f] BY <1>2, <1>4 DEF TypeOK, MemOK
  <2> QED BY <2>1, <2>2, <2>3 DEF Kept, Clean
<1> QED BY <1>3, <1>4

LEMMA StepAnswers ==
  ASSUME TypeOK, Next, NEW o \in Obj, NEW f \in Getters, Clean(o, f)'
  PROVE  Kept(o, f) \/ WasRead(o, f) \/ WasScanned(o, f)
<1>0. f \in Files BY ConstantsAssumption
<1>1. CASE Kernel
  BY <1>0, <1>1, SetFilesKeeps, ConstantsAssumption
     DEF Kernel, Spawn, Exit, Change, Tick, objectVars, Kept, Clean
<1>2. ASSUME NEW r \in Obj, NEW p \in Pid, Construct(r, p)
      PROVE  Kept(o, f)
  BY <1>0, <1>2 DEF Construct, Kept, Clean, TypeOK, MemOK, SeenOK
<1>3. ASSUME NEW r \in Obj, NEW q \in Obj, Copy(r, q)
      PROVE  Kept(o, f)
  <2>1. CASE o = q
    BY <1>3, <2>1 DEF Copy, Kept, Clean, TypeOK, MemOK, SeenOK
  <2>2. CASE o # q
    BY <1>3, <2>2 DEF Copy, Kept, Clean, TypeOK, MemOK, SeenOK
  <2> QED BY <2>1, <2>2
<1>4. ASSUME NEW r \in Obj, Destroy(r)
      PROVE  Kept(o, f)
  BY <1>4 DEF Destroy, Kept, Clean, TypeOK, MemOK, SeenOK
<1>5. ASSUME NEW r \in Obj, needUpdate(r)
      PROVE  Kept(o, f)
  BY <1>0, <1>5 DEF needUpdate, Kept, Clean, TypeOK, MemOK, SeenOK
<1>6. ASSUME NEW r \in Obj, NEW g \in Getters, Get(r, g)
      PROVE  Kept(o, f) \/ WasRead(o, f)
  <2>1. PICK c \in Opened(pidof[r], g) : ~Throws(g, c) /\ Refresh(r, g, c)
    BY <1>6 DEF Get
  <2>2. pidof[r] \in Pid /\ g \in Files
    BY <1>6, ConstantsAssumption DEF Get, Held, TypeOK
  <2>3. c \in Content(g) \cup {NoFile} BY <2>2, OpenedType DEF TypeOK
  <2> QED BY <1>0, <2>1, <2>2, <2>3, RefreshAnswers
<1>7. ASSUME NEW r \in Obj, GetStatusThrows(r)
      PROVE  Kept(o, f)
  BY <1>7 DEF GetStatusThrows, Kept, Clean, TypeOK, MemOK, SeenOK
<1>8. ASSUME NEW r \in Obj, userName(r)
      PROVE  Kept(o, f) \/ WasRead(o, f)
  <2>1. CASE \E c \in Opened(pidof[r], "status") :
               ~Throws("status", c) /\ Refresh(r, "status", c)
    <3>1. PICK c \in Opened(pidof[r], "status") :
            ~Throws("status", c) /\ Refresh(r, "status", c)
      BY <2>1
    <3>2. pidof[r] \in Pid BY <1>8 DEF userName, Held, TypeOK
    <3>3. c \in Content("status") \cup {NoFile} BY <3>2, OpenedType DEF TypeOK, Files
    <3> QED BY <1>0, <3>1, <3>3, RefreshAnswers DEF Files
  <2>2. CASE UNCHANGED <<kernelVars, objectVars, seen>>
    BY <2>2 DEF objectVars, Kept, Clean
  <2> QED BY <1>8, <2>1, <2>2 DEF userName
<1>9. ASSUME NEW r \in Obj, NEW n \in 1 .. MaxChanges, NEW h \in [1 .. n -> Contents("fd")],
             GetFdWhileChanging(r, n, h)
      PROVE  Kept(o, f) \/ WasScanned(o, f)
  <2> DEFINE M == {file[pidof[r]]["fd"]} \cup {h[i] : i \in 1 .. n}
             fs == [file[pidof[r]] EXCEPT !["fd"] = h[n]]
  <2>1. ScanFd(r, M) /\ SetFilesThrough(pidof[r], M, fs) BY <1>9 DEF GetFdWhileChanging
  <2> HIDE DEF M, fs
  <2> QED BY <1>0, <2>1, ScanAnswers
<1>10. ASSUME NEW r \in Obj, NEW n \in 0 .. MaxChanges, NEW h \in [1 .. n -> Contents("fd")],
              GetFdWhileExiting(r, n, h)
       PROVE  Kept(o, f) \/ WasScanned(o, f)
  <2> DEFINE M == {file[pidof[r]]["fd"], NoFile} \cup {h[i] : i \in 1 .. n}
  <2>1. ScanFd(r, M) /\ SetFilesThrough(pidof[r], M, NoFiles)
    BY <1>10 DEF GetFdWhileExiting
  <2> HIDE DEF M
  <2> QED BY <1>0, <2>1, ScanAnswers
<1> QED BY <1>1, <1>2, <1>3, <1>4, <1>5, <1>6, <1>7, <1>8, <1>9, <1>10 DEF Next, Client
-----------------------------------------------------------------------------
\* The theorems.

\* What a read of contents that can be parsed leaves in the members says
\* what those contents say.
LEMMA ReadShows ==
  ASSUME NEW f \in Files, NEW m \in Member(f), NEW c \in Content(f), c # NoFile,
         ~Throws(f, c)
  PROVE  IF f = "fd" THEN \A k \in Key : ShowsLink(read(f, m, c), k, {c})
         ELSE Unparsable(f, c) \/ Shows(f, read(f, m, c), c)
<1>1. CASE f = "stat"
  BY <1>1 DEF read, readStat, Member, Content, Unparsable, Shows
<1>2. CASE f = "status"
  <2>1. m.uids \in Seq(Val) /\ c.uid \in Val /\ c.vm \in Val \cup {Nothing}
    BY <1>2 DEF Member, Content, Throws
  <2>2. LET u == Append(m.uids, c.uid) IN u # <<>> /\ u[Len(u)] = c.uid BY <2>1
  <2>3. read(f, m, c) = [uids |-> Append(m.uids, c.uid),
                         vm   |-> IF c.vm \in Val THEN c.vm ELSE m.vm]
    BY <1>2 DEF read, readStatus
  <2> QED BY <1>2, <2>1, <2>2, <2>3 DEF Shows
<1>3. CASE f = "io"
  BY <1>3 DEF read, readIo, Shows
<1>4. CASE f = "environ"
  BY <1>4 DEF read, readEnviron, Over, Shows
<1>5. CASE f = "fd"
  BY <1>5 DEF read, readFd, Over, ShowsLink
<1>6. CASE f \in {"cwd", "exe", "root", "cmdline", "wchan"}
  BY <1>6 DEF read, readLink, readCmdline, readWchan, Shows
<1> QED BY <1>1, <1>2, <1>3, <1>4, <1>5, <1>6 DEF Files

LEMMA FreshStep == TypeOK /\ CleanIsFresh /\ [Next]_vars => CleanIsFresh'
<1> SUFFICES ASSUME TypeOK, CleanIsFresh, [Next]_vars PROVE CleanIsFresh' OBVIOUS
<1>1. CASE UNCHANGED vars
  BY <1>1 DEF vars, objectVars, CleanIsFresh, Clean
<1>2. CASE Next
  <2> SUFFICES ASSUME NEW o \in Obj, NEW f \in Getters,
                      Clean(o, f)', NoFile \notin seen'[o][f]
               PROVE  IF f = "fd" THEN \A k \in Key : ShowsLink(mem'[o][f], k, seen'[o][f])
                      ELSE \E c \in seen'[o][f] : Unparsable(f, c) \/ Shows(f, mem'[o][f], c)
    BY DEF CleanIsFresh
  <2>1. f \in Files BY ConstantsAssumption
  <2>2. CASE Kept(o, f) BY <2>2 DEF Kept, CleanIsFresh
  <2>3. CASE WasRead(o, f)
    <3>1. PICK c \in Content(f) \cup {NoFile} :
            c \in seen'[o][f] /\ ~Throws(f, c) /\ mem'[o][f] = read(f, mem[o][f], c)
      BY <2>3 DEF WasRead
    <3>2. mem[o][f] \in Member(f) BY <2>1 DEF TypeOK, MemOK
    <3>3. IF f = "fd" THEN \A k \in Key : ShowsLink(mem'[o][f], k, {c})
          ELSE Unparsable(f, c) \/ Shows(f, mem'[o][f], c)
      BY <2>1, <3>1, <3>2, ReadShows
    <3> QED BY <3>1, <3>3 DEF ShowsLink
  <2>4. CASE WasScanned(o, f) BY <2>4 DEF WasScanned
  <2> QED BY <1>2, <2>2, <2>3, <2>4, StepAnswers
<1> QED BY <1>1, <1>2

\* A getter's answer is what its file said at one moment since the last
\* needUpdate(), that of fds() descriptor by descriptor: for every number of
\* objects and processes.
THEOREM FreshAnswers == Spec => []CleanIsFresh
<1>1. Init => CleanIsFresh BY DEF Init, CleanIsFresh, Clean
<1> QED BY <1>1, FreshStep, TypeCorrect, PTL DEF Spec

LEMMA AliveStep == TypeOK /\ StateProvesAlive /\ [Next]_vars => StateProvesAlive'
<1> SUFFICES ASSUME TypeOK, StateProvesAlive, [Next]_vars PROVE StateProvesAlive'
  OBVIOUS
<1>1. CASE UNCHANGED vars
  BY <1>1 DEF vars, objectVars, StateProvesAlive, Clean
<1>2. CASE Next
  <2> SUFFICES ASSUME NEW o \in Obj, "stat" \in Getters, Clean(o, "stat")',
                      mem'[o]["stat"].state # Empty
               PROVE  seen'[o]["stat"] # {NoFile}
    BY DEF StateProvesAlive
  <2>1. CASE Kept(o, "stat") BY <2>1 DEF Kept, StateProvesAlive
  <2>2. CASE WasRead(o, "stat")
    <3>1. PICK c \in Content("stat") \cup {NoFile} :
            /\ c \in seen'[o]["stat"]
            /\ mem'[o]["stat"] = read("stat", mem[o]["stat"], c)
      BY <2>2 DEF WasRead
    <3>2. mem[o]["stat"] \in Member("stat") BY DEF TypeOK, MemOK, Files
    <3>3. c # NoFile BY <3>1, <3>2 DEF read, readStat, Member
    <3> QED BY <3>1, <3>3
  <2> QED BY <1>2, <2>1, <2>2, StepAnswers DEF WasScanned
<1> QED BY <1>1, <1>2

\* A state() that is not empty is never left over from an earlier round.
THEOREM StateIsProof == Spec => []StateProvesAlive
<1>1. Init => StateProvesAlive BY DEF Init, StateProvesAlive, Clean
<1> QED BY <1>1, AliveStep, TypeCorrect, PTL DEF Spec

LEMMA LeftBehindStep ==
  TypeOK /\ NothingLeftBehind /\ [Next]_vars => NothingLeftBehind'
<1> SUFFICES ASSUME TypeOK, NothingLeftBehind, [Next]_vars PROVE NothingLeftBehind'
  OBVIOUS
<1>1. CASE UNCHANGED vars
  BY <1>1 DEF vars, objectVars, NothingLeftBehind, Clean
<1>2. CASE Next
  <2> SUFFICES ASSUME NEW o \in Obj, NEW f \in Getters,
                      f \in {"cwd", "exe", "root", "cmdline"}, Clean(o, f)'
               PROVE  \/ NoFile \in seen'[o][f] /\ mem'[o][f] = Empty
                      \/ mem'[o][f] \in seen'[o][f]
    BY DEF NothingLeftBehind
  <2>1. CASE Kept(o, f) BY <2>1 DEF Kept, NothingLeftBehind
  <2>2. CASE WasRead(o, f)
    BY <2>2 DEF WasRead, read, readLink, readCmdline
  <2> QED BY <1>2, <2>1, <2>2, StepAnswers DEF WasScanned
<1> QED BY <1>1, <1>2

\* cwd(), exe(), root() and cmdline() never answer from an earlier round.
THEOREM NoLeftovers == Spec => []NothingLeftBehind
<1>1. Init => NothingLeftBehind BY DEF Init, NothingLeftBehind, Clean
<1> QED BY <1>1, LeftBehindStep, TypeCorrect, PTL DEF Spec

\* Once the fault has happened only the kernel moves, and it does not touch
\* what the object has read.
LEMMA FaultStep ==
  TypeOK /\ TypeOK' /\ CleanIsFresh' /\ FaultMeansUnreadable /\ [Next]_vars
    => FaultMeansUnreadable'
<1> SUFFICES ASSUME TypeOK, TypeOK', CleanIsFresh', FaultMeansUnreadable, [Next]_vars,
                    fault'
             PROVE  \E o \in Obj : Clean(o, "status")' /\ NoFile \in seen'[o]["status"]
  BY DEF FaultMeansUnreadable
<1>1. CASE UNCHANGED vars
  BY <1>1 DEF vars, objectVars, FaultMeansUnreadable, Clean
<1>2. CASE Kernel
  <2>1. fault' = fault /\ pidof' = pidof /\ dirty' = dirty
    BY <1>2 DEF Kernel, Spawn, Exit, Change, Tick, objectVars
  <2>2. PICK o \in Obj : Clean(o, "status") /\ NoFile \in seen[o]["status"]
    BY <2>1 DEF FaultMeansUnreadable
  <2>3. seen'[o]["status"] = seen[o]["status"]
    <3>1. ASSUME NEW p \in Pid, NEW fs, SetFiles(p, fs)
          PROVE  seen'[o]["status"] = seen[o]["status"]
      BY <2>2, <3>1 DEF SetFiles, SetFilesThrough, Clean, Files
    <3> QED BY <1>2, <3>1 DEF Kernel, Spawn, Exit, Change, Tick
  <2> QED BY <2>1, <2>2, <2>3 DEF Clean
<1>3. CASE Client
  <2>1. PICK r \in Obj : userName(r)
    BY <1>3 DEF Client, Construct, Copy, Destroy, needUpdate, Get, GetStatusThrows,
                GetFdWhileChanging, GetFdWhileExiting, ScanFd, Held
  <2>2. mem'[r]["status"].uids = <<>> BY <2>1 DEF userName
  <2>3. Clean(r, "status")' /\ "status" \in Getters
    BY <2>1 DEF userName, Refresh, objectVars, Clean, Held, TypeOK, Files
  <2>4. NoFile \in seen'[r]["status"]
    <3>1. \A c : ~(Unparsable("status", c) \/ Shows("status", mem'[r]["status"], c))
      BY <2>2 DEF Unparsable, Shows
    <3> QED BY <2>3, <3>1 DEF CleanIsFresh
  <2> QED BY <2>3, <2>4
<1> QED BY <1>1, <1>2, <1>3 DEF Next

\* userName() is undefined only for an object whose status file could not be
\* opened in this round.
THEOREM FaultsAreUnreadable == Spec => []FaultMeansUnreadable
<1>1. Init => FaultMeansUnreadable BY DEF Init, FaultMeansUnreadable
<1> QED BY <1>1, FaultStep, TypeCorrect, FreshAnswers, PTL DEF Spec

LEMMA StableStep ==
  ASSUME TypeOK, [Next]_vars, NEW o \in Obj, NEW f \in Files, Clean(o, f), Clean(o, f)'
  PROVE  mem'[o][f] = mem[o][f]
<1>1. CASE UNCHANGED vars BY <1>1 DEF vars, objectVars
<1>2. CASE Kernel
  BY <1>2 DEF Kernel, Spawn, Exit, Change, Tick, objectVars
<1>3. ASSUME NEW r \in Obj, NEW p \in Pid, Construct(r, p) PROVE mem'[o][f] = mem[o][f]
  BY <1>3 DEF Construct, Clean, TypeOK, MemOK
<1>4. ASSUME NEW r \in Obj, NEW q \in Obj, Copy(r, q) PROVE mem'[o][f] = mem[o][f]
  BY <1>4 DEF Copy, Clean, TypeOK, MemOK
<1>5. ASSUME NEW r \in Obj, Destroy(r) PROVE mem'[o][f] = mem[o][f]
  BY <1>5 DEF Destroy, Clean, TypeOK, MemOK
<1>6. ASSUME NEW r \in Obj, needUpdate(r) PROVE mem'[o][f] = mem[o][f]
  BY <1>6 DEF needUpdate
<1>7. ASSUME NEW r \in Obj, NEW g \in Files, NEW c, Refresh(r, g, c)
      PROVE  mem'[o][f] = mem[o][f]
  BY <1>7 DEF Refresh, Clean, TypeOK, MemOK
<1>8. ASSUME NEW r \in Obj, GetStatusThrows(r) PROVE mem'[o][f] = mem[o][f]
  BY <1>8 DEF GetStatusThrows, Clean, TypeOK, MemOK
<1>9. ASSUME NEW r \in Obj, userName(r) PROVE mem'[o][f] = mem[o][f]
  BY <1>7, <1>9 DEF userName, objectVars, Files
<1>10. ASSUME NEW r \in Obj, NEW M, ScanFd(r, M) PROVE mem'[o][f] = mem[o][f]
  BY <1>10 DEF ScanFd, Clean, TypeOK, MemOK
<1>11. ASSUME NEW r \in Obj, NEW n, NEW h,
              GetFdWhileChanging(r, n, h) \/ GetFdWhileExiting(r, n, h)
       PROVE  mem'[o][f] = mem[o][f]
  BY <1>10, <1>11 DEF GetFdWhileChanging, GetFdWhileExiting
<1>12. ASSUME NEW r \in Obj, NEW g \in Getters, Get(r, g) PROVE mem'[o][f] = mem[o][f]
  BY <1>7, <1>12, ConstantsAssumption DEF Get
<1> QED BY <1>1, <1>2, <1>3, <1>4, <1>5, <1>6, <1>8, <1>9, <1>11, <1>12
        DEF Next, Client

\* Between two needUpdate() calls an answer does not change, whatever other
\* objects and the processes do.
THEOREM StableAnswers == Spec => StableUntilNeedUpdate
<1>1. TypeOK /\ [Next]_vars =>
        [\A o \in Obj : \A f \in Files :
           Clean(o, f) /\ Clean(o, f)' => mem'[o][f] = mem[o][f]]_vars
  BY StableStep
<1> QED BY <1>1, TypeCorrect, PTL DEF Spec, StableUntilNeedUpdate
=============================================================================
