---------------------------- MODULE ProcessInfo ----------------------------
(***************************************************************************)
(* class ProcessInfo (src/processinfo.h, src/processinfo.cpp): a lazy view *)
(* of /proc/<pid>.  Each object keeps, for every file of that directory it *)
(* knows, a parsed copy and a m_need_update_* flag; a getter reads its     *)
(* file only when the flag is up, and needUpdate() raises every flag.      *)
(*                                                                         *)
(* The kernel's side (processes that start, change and exit, and what      *)
(* their /proc files say) is external.  Several objects may watch one pid. *)
(* A file is read at one moment; only fd/ is a directory whose links are   *)
(* read one by one.  maps(), which reads smaps block by block, is in       *)
(* Smaps; the usage figures computed from these copies in ProcessUsage.    *)
(*                                                                         *)
(* A definition f_Variant is a faulty form of f that no specification      *)
(* uses: it is there to see which property would notice the fault.         *)
(***************************************************************************)
EXTENDS Integers, Sequences

CONSTANTS
  Pid,         \* process ids
  Obj,         \* slots for the ProcessInfo objects the client holds
  Getters,     \* the files whose getters the client calls
  Val,         \* what one field, link, line or entry of a file can say
  FirstVal,    \* what they say when the process starts
  Key,         \* descriptor numbers in fd/, variable names in environ
  MaxSpawns,   \* bound: how many processes get the same pid in turn
  MaxChanges,  \* bound: changes of file contents by the kernel
  MaxNow,      \* bound: what the system clock may say
  MaxUids,     \* bound: length of m_uids
  OpenMayFail  \* may an open() fail although the file is there (EMFILE), or
               \* the process exit between the open and the first read

CONSTANTS
  NoPid,   \* an unused object slot
  NoFile,  \* the file cannot be opened: no such process, or no permission
  Nothing, \* the file opens but has no line: no address space (a kernel
           \* thread, a zombie), or the process is gone by then
  Huge,    \* an id, or a memory size in kB, that std::stoi cannot hold
  Unset,   \* the indeterminate value of a member nothing has written
  Empty,   \* an empty std::string, or an empty container
  Junk     \* a parsed value that is not the one the kernel wrote there

Files == {"stat", "status", "io", "cwd", "exe", "root", "cmdline",
          "environ", "fd", "wchan"}

\* Files another user's process may not let this one open.
Private == {"io", "cwd", "exe", "root", "environ", "fd"}

Entries == UNION {[S -> Val] : S \in SUBSET Key}

\* What readFd() may store: a link that could not be read is empty.
Links == UNION {[S -> Val \cup {Empty}] : S \in SUBSET Key}

\* The entries of c, and those of m under other keys.
Over(c, m) == [k \in DOMAIN c \cup DOMAIN m |-> IF k \in DOMAIN c THEN c[k] ELSE m[k]]

\* What the kernel may put into file f.  A stat line is one value of Val for
\* all its fields, and the command name may hold a blank.
Content(f) ==
  CASE f = "stat"   -> [comm : {"plain", "blank"}, line : Val]
    [] f = "status" -> [uid : Val \cup {Huge}, vm : Val \cup {Nothing, Huge}]
    [] f = "io"     -> [rb : Val, wb : Val]
    [] f \in {"environ", "fd"} -> Entries
    [] f = "wchan"  -> Val \cup {Nothing}
    [] OTHER        -> Val

\* The parsed copy an object keeps of file f.  m_io also holds last_read.
Member(f) ==
  CASE f = "stat"   -> [name  : Val \cup {Empty, Junk}, state : Val \cup {Empty, Junk},
                        ppid  : Val \cup {Unset, Junk}, rest  : Val \cup {Unset}]
    [] f = "status" -> [uids : Seq(Val), vm : Val \cup {Unset}]
    [] f = "io"     -> [rb : Val \cup {Unset}, wb : Val \cup {Unset}, at : Nat]
    [] f = "environ" -> Entries
    [] f = "fd"     -> Links
    [] OTHER        -> Val \cup {Empty}

Special == {NoPid, NoFile, Nothing, Huge, Unset, Empty, Junk}

ASSUME ConstantsAssumption ==
  /\ Getters \subseteq Files
  /\ FirstVal \in Val
  /\ NoPid \notin Pid
  /\ Special \cap Val = {}
  /\ \A f \in Files : NoFile \notin Content(f)
  /\ NoFile \notin Links
  /\ \A f \in {"stat", "io"} : Nothing \notin Content(f)
  /\ \A v \in {Unset, Empty, Junk, Nothing} : v # NoFile
  /\ MaxSpawns \in Nat /\ MaxChanges \in Nat /\ MaxNow \in Nat /\ MaxUids \in Nat
  /\ OpenMayFail \in BOOLEAN

VARIABLES
  file,     \* kernel: [Pid -> [Files -> content or NoFile]]
  alive,    \* kernel: is there a process with this pid now
  spawns,   \* kernel: how many processes have had this pid
  changes,  \* kernel: content changes so far (bounded by MaxChanges)
  now,      \* kernel: the system clock; 0 is the epoch
  pidof,    \* the object's m_pid, or NoPid for an unused slot
  dirty,    \* the files whose m_need_update_* flag is up
  mem,      \* the object's members, by the file they come from
  fault,    \* undefined behaviour has happened: userName() indexed no uid
  seen      \* history: what each file held from the object's last needUpdate()
            \* to the getter call that read it

kernelVars == <<file, alive, spawns, changes, now>>
objectVars == <<pidof, dirty, mem>>
vars == <<kernelVars, objectVars, fault, seen>>

-----------------------------------------------------------------------------
\* The kernel (external).

NewbornFile(f) ==
  CASE f = "stat"   -> [comm |-> "plain", line |-> FirstVal]
    [] f = "status" -> [uid |-> FirstVal, vm |-> FirstVal]
    [] f = "io"     -> [rb |-> FirstVal, wb |-> FirstVal]
    [] f \in {"environ", "fd"} -> <<>>
    [] OTHER        -> FirstVal

\* Files no getter of this client reads are left out.
NewbornFiles == [f \in Files |-> IF f \in Getters THEN NewbornFile(f) ELSE NoFile]
NoFiles == [f \in Files |-> NoFile]

\* The files of p now read fs, after fd/ has gone through the contents M; an
\* object that watches p may yet read them.
SetFilesThrough(p, M, fs) ==
  /\ file' = [file EXCEPT ![p] = fs]
  /\ seen' = [o \in Obj |-> [f \in Files |->
                IF pidof[o] = p /\ f \in dirty[o]
                THEN seen[o][f] \cup {fs[f]} \cup (IF f = "fd" THEN M ELSE {})
                ELSE seen[o][f]]]

SetFiles(p, fs) == SetFilesThrough(p, {}, fs)

Spawn(p) ==
  /\ ~alive[p]
  /\ spawns[p] < MaxSpawns
  /\ alive' = [alive EXCEPT ![p] = TRUE]
  /\ spawns' = [spawns EXCEPT ![p] = @ + 1]
  /\ SetFiles(p, NewbornFiles)
  /\ UNCHANGED <<changes, now, objectVars, fault>>

Exit(p) ==
  /\ alive[p]
  /\ alive' = [alive EXCEPT ![p] = FALSE]
  /\ SetFiles(p, NoFiles)
  /\ UNCHANGED <<spawns, changes, now, objectVars, fault>>

\* The process runs, execs, opens or closes a file, changes its user...
Change(p, f, c) ==
  /\ alive[p]
  /\ f \in Getters
  /\ changes < MaxChanges
  /\ changes' = changes + 1
  /\ SetFiles(p, [file[p] EXCEPT ![f] = c])
  /\ UNCHANGED <<alive, spawns, now, objectVars, fault>>

Contents(f) == (Content(f) \ (IF f = "wchan" THEN {Nothing} ELSE {}))
                 \cup (IF f \in Private THEN {NoFile} ELSE {})

\* The clock goes on, or somebody sets it, back too.
Tick ==
  /\ "io" \in Getters
  /\ \E t \in 1 .. MaxNow : t # now /\ now' = t
  /\ UNCHANGED <<file, alive, spawns, changes, objectVars, fault, seen>>

-----------------------------------------------------------------------------
\* The read* functions: the new members, from the old ones and what the open
\* file says (or NoFile).

\* An unopened ifstream leaves every target of >> alone, except that m_state
\* is assigned from a local that stayed empty.  A blank in the command name
\* shifts the words: m_state gets a part of the name, the extraction into
\* m_ppid fails and stores 0, and everything after it keeps its old value.
readStat_StateKept(m, c) ==
  IF c = NoFile THEN m
  ELSE IF c.comm = "blank"
       THEN [name |-> Junk, state |-> Junk, ppid |-> Junk, rest |-> m.rest]
       ELSE [name |-> c.line, state |-> c.line, ppid |-> c.line, rest |-> c.line]

readStat(m, c) ==
  IF c = NoFile THEN [m EXCEPT !.state = Empty]
  ELSE IF c.comm = "blank"
       THEN [name |-> Junk, state |-> Junk, ppid |-> Junk, rest |-> m.rest]
       ELSE [name |-> c.line, state |-> c.line, ppid |-> c.line, rest |-> c.line]

\* std::stoi throws out of readStatus() on an id or a size of 2^31 or more.
\* vm stands for the lines behind Uid:, the Gid: line among them.
Throws(f, c) == f = "status" /\ c # NoFile /\ Huge \in {c.uid, c.vm}

\* What it has stored by then: a part of the ids, or all of them.
Thrown(m, c) ==
  IF c.uid = Huge THEN {m} \cup {[m EXCEPT !.uids = Append(@, v)] : v \in Val}
  ELSE {[m EXCEPT !.uids = Append(@, c.uid)]}

\* The four ids of the Uid: line are pushed behind those already there (one
\* entry of uids stands for the four, or for those pushed before a throw); a
\* Vm line that is absent leaves its member alone.
readStatus_Unchecked(m, c) ==
  IF c = NoFile THEN m
  ELSE [uids |-> Append(m.uids, c.uid), vm |-> c.vm]

readStatus_NoUid(m, c) ==
  IF c = NoFile THEN m
  ELSE [uids |-> IF c.vm = Nothing THEN m.uids ELSE Append(m.uids, c.uid),
        vm   |-> IF c.vm \in Val THEN c.vm ELSE m.vm]

readStatus(m, c) ==
  IF c = NoFile THEN m
  ELSE [uids |-> Append(m.uids, c.uid),
        vm   |-> IF c.vm \in Val THEN c.vm ELSE m.vm]

\* last_read is taken whether or not the file could be opened.
readIo(m, c) ==
  IF c = NoFile THEN [m EXCEPT !.at = now]
  ELSE [rb |-> c.rb, wb |-> c.wb, at |-> now]

\* readCwd, readExe, readRoot: read_symlink answers an empty path on error.
readLink_KeptOnError(m, c) == IF c = NoFile THEN m ELSE c

readLink(m, c) == IF c = NoFile THEN Empty ELSE c

\* m_cmdline is cleared before the file is read.
readCmdline(m, c) == IF c = NoFile THEN Empty ELSE c

\* m_environ is not cleared: variables that are gone stay.
readEnviron(m, c) == IF c = NoFile THEN m ELSE Over(c, m)

\* m_fds is not cleared either: descriptors that were closed stay.  c holds
\* the links as they were read.
readFd_OldWins(m, c) == IF c = NoFile THEN m ELSE Over(m, c)

readFd(m, c) == IF c = NoFile THEN m ELSE Over(c, m)

\* getline() on an unopened file leaves its string alone; with nothing to
\* read it clears it.
readWchan(m, c) ==
  CASE c = NoFile  -> m
    [] c = Nothing -> Empty
    [] OTHER       -> c

read(f, m, c) ==
  CASE f = "stat"    -> readStat(m, c)
    [] f = "status"  -> readStatus(m, c)
    [] f = "io"      -> readIo(m, c)
    [] f \in {"cwd", "exe", "root"} -> readLink(m, c)
    [] f = "cmdline" -> readCmdline(m, c)
    [] f = "environ" -> readEnviron(m, c)
    [] f = "fd"      -> readFd(m, c)
    [] f = "wchan"   -> readWchan(m, c)

-----------------------------------------------------------------------------
\* The object's operations.

Held(o) == pidof[o] # NoPid /\ ~fault

\* Members as ProcessInfo(pid_t) leaves them: no file is read, strings and
\* containers are empty, last_read is the epoch, the rest is indeterminate.
FreshMember(f) ==
  CASE f = "stat"   -> [name |-> Empty, state |-> Empty, ppid |-> Unset, rest |-> Unset]
    [] f = "status" -> [uids |-> <<>>, vm |-> Unset]
    [] f = "io"     -> [rb |-> Unset, wb |-> Unset, at |-> 0]
    [] f \in {"environ", "fd"} -> <<>>
    [] OTHER        -> Empty

\* ProcessInfo(pid): the pid was listed in /proc (or sent in an event) at
\* some moment; the process may be gone by now.
Construct(o, p) ==
  /\ pidof[o] = NoPid /\ ~fault
  /\ spawns[p] > 0
  /\ pidof' = [pidof EXCEPT ![o] = p]
  /\ dirty' = [dirty EXCEPT ![o] = Files]
  /\ mem' = [mem EXCEPT ![o] = [f \in Files |-> FreshMember(f)]]
  /\ seen' = [seen EXCEPT ![o] = [f \in Files |-> {file[p][f]}]]
  /\ UNCHANGED <<kernelVars, fault>>

\* The copy constructor is the default one: flags and members alike.
Copy(o, q) ==
  /\ Held(o) /\ pidof[q] = NoPid
  /\ pidof' = [pidof EXCEPT ![q] = pidof[o]]
  /\ dirty' = [dirty EXCEPT ![q] = dirty[o]]
  /\ mem' = [mem EXCEPT ![q] = mem[o]]
  /\ seen' = [seen EXCEPT ![q] = seen[o]]
  /\ UNCHANGED <<kernelVars, fault>>

Destroy(o) ==
  /\ Held(o)
  /\ pidof' = [pidof EXCEPT ![o] = NoPid]
  /\ dirty' = [dirty EXCEPT ![o] = {}]
  /\ mem' = [mem EXCEPT ![o] = [f \in Files |-> FreshMember(f)]]
  /\ seen' = [seen EXCEPT ![o] = [f \in Files |-> {}]]
  /\ UNCHANGED <<kernelVars, fault>>

needUpdate_ForgetsAFlag(o) ==
  /\ Held(o)
  /\ dirty' = [dirty EXCEPT ![o] = @ \cup (Files \ {"stat", "environ"})]
  /\ seen' = [seen EXCEPT ![o] = [f \in Files |-> {file[pidof[o]][f]}]]
  /\ UNCHANGED <<kernelVars, pidof, mem, fault>>

needUpdate(o) ==
  /\ Held(o)
  /\ dirty' = [dirty EXCEPT ![o] = Files]
  /\ seen' = [seen EXCEPT ![o] = [f \in Files |-> {file[pidof[o]][f]}]]
  /\ UNCHANGED <<kernelVars, pidof, mem, fault>>

\* What opening file f of process p can give.
Opened(p, f) ==
  {file[p][f]} \cup (IF OpenMayFail THEN {NoFile} \cup ({Nothing} \cap Content(f)) ELSE {})

\* The part every getter shares: if the flag is up, read and lower it.
Refresh_EveryTime(o, f, c) ==
  /\ mem' = [mem EXCEPT ![o][f] = read(f, @, c)]
  /\ dirty' = [dirty EXCEPT ![o] = @ \ {f}]
  /\ seen' = [seen EXCEPT ![o][f] = @ \cup {c}]
  /\ UNCHANGED <<kernelVars, pidof>>

Refresh(o, f, c) ==
  /\ f \in dirty[o]
  /\ mem' = [mem EXCEPT ![o][f] = read(f, @, c)]
  /\ dirty' = [dirty EXCEPT ![o] = @ \ {f}]
  /\ seen' = [seen EXCEPT ![o][f] = @ \cup {c}]
  /\ UNCHANGED <<kernelVars, pidof>>

\* name(), ppid(), cwd(), fds(), ...: any getter of file f that returns.
Get(o, f) ==
  /\ Held(o) /\ f \in Getters
  /\ \E c \in Opened(pidof[o], f) :
       /\ ~Throws(f, c)
       /\ f = "status" /\ c # NoFile => Len(mem[o][f].uids) < MaxUids
       /\ Refresh(o, f, c)
  /\ UNCHANGED fault

\* A status getter when std::stoi throws: the exception leaves readStatus()
\* after ids were pushed, and the flag stays up.
GetStatusThrows_LowersFlag(o) ==
  /\ Held(o) /\ "status" \in Getters \cap dirty[o]
  /\ Len(mem[o]["status"].uids) < MaxUids
  /\ \E c \in Opened(pidof[o], "status") :
       /\ Throws("status", c)
       /\ \E m \in Thrown(mem[o]["status"], c) :
            mem' = [mem EXCEPT ![o]["status"] = m]
  /\ dirty' = [dirty EXCEPT ![o] = @ \ {"status"}]
  /\ UNCHANGED <<kernelVars, pidof, seen, fault>>

GetStatusThrows(o) ==
  /\ Held(o) /\ "status" \in Getters \cap dirty[o]
  /\ Len(mem[o]["status"].uids) < MaxUids
  /\ \E c \in Opened(pidof[o], "status") :
       /\ Throws("status", c)
       /\ \E m \in Thrown(mem[o]["status"], c) :
            mem' = [mem EXCEPT ![o]["status"] = m]
  /\ UNCHANGED <<kernelVars, pidof, dirty, seen, fault>>

\* userName() when it does not throw: refresh, then index m_uids[0].
userName(o) ==
  /\ Held(o) /\ "status" \in Getters
  /\ \/ \E c \in Opened(pidof[o], "status") :
          /\ ~Throws("status", c)
          /\ c # NoFile => Len(mem[o]["status"].uids) < MaxUids
          /\ Refresh(o, "status", c)
     \/ "status" \notin dirty[o] /\ UNCHANGED <<kernelVars, objectVars, seen>>
  /\ fault' = (mem'[o]["status"].uids = <<>>)

\* What readFd() may have found in fd/ while it held the contents in M, one
\* after the other: each name is listed and its link read at moments of their
\* own.  A descriptor that was there all along is found, one that was there at
\* some moment may be; its link is one it had at some moment, or empty if it
\* could not be read when its turn came.
Scanned(M) ==
  LET With == [k \in Key |-> {c \in M \ {NoFile} : k \in DOMAIN c}]
      Link == [k \in Key |-> {c[k] : c \in With[k]}
                               \cup (IF With[k] = M THEN {} ELSE {Empty})]
  IN {r \in Links : \A k \in Key : IF k \in DOMAIN r THEN With[k] # {} /\ r[k] \in Link[k]
                                                     ELSE With[k] # M}

\* fds() of an fd/ that could be opened and holds the contents in M meanwhile.
ScanFd(o, M) ==
  /\ Held(o) /\ "fd" \in Getters \cap dirty[o]
  /\ file[pidof[o]]["fd"] # NoFile
  /\ \E r \in Scanned(M) : mem' = [mem EXCEPT ![o]["fd"] = readFd(@, r)]
  /\ dirty' = [dirty EXCEPT ![o] = @ \ {"fd"}]
  /\ UNCHANGED <<spawns, now, pidof, fault>>

\* The process opens, closes and duplicates descriptors, or hides them: fd/
\* goes on to h[1], ..., h[n] before the scan is over.
GetFdWhileChanging(o, n, h) ==
  LET p == pidof[o]
      M == {file[p]["fd"]} \cup {h[i] : i \in 1 .. n}
  IN
  /\ changes + n <= MaxChanges
  /\ ScanFd(o, M)
  /\ changes' = changes + n
  /\ SetFilesThrough(p, M, [file[p] EXCEPT !["fd"] = h[n]])
  /\ UNCHANGED alive

\* It does so and then exits: links can no longer be read, or the directory
\* iterator throws and the catch block ends the scan.  That the pid is given
\* again within the scan is left out.
GetFdWhileExiting(o, n, h) ==
  LET p == pidof[o]
      M == {file[p]["fd"], NoFile} \cup {h[i] : i \in 1 .. n}
  IN
  /\ changes + n <= MaxChanges
  /\ ScanFd(o, M)
  /\ changes' = changes + n
  /\ alive' = [alive EXCEPT ![p] = FALSE]
  /\ SetFilesThrough(p, M, NoFiles)

-----------------------------------------------------------------------------
Init ==
  /\ file = [p \in Pid |-> NoFiles]
  /\ alive = [p \in Pid |-> FALSE]
  /\ spawns = [p \in Pid |-> 0]
  /\ changes = 0
  /\ now = 1
  /\ pidof = [o \in Obj |-> NoPid]
  /\ dirty = [o \in Obj |-> {}]
  /\ mem = [o \in Obj |-> [f \in Files |-> FreshMember(f)]]
  /\ fault = FALSE
  /\ seen = [o \in Obj |-> [f \in Files |-> {}]]

Kernel ==
  \/ \E p \in Pid : Spawn(p)
  \/ \E p \in Pid : Exit(p)
  \/ \E p \in Pid, f \in Getters : \E c \in Contents(f) : Change(p, f, c)
  \/ Tick

Client ==
  \/ \E o \in Obj, p \in Pid : Construct(o, p)
  \/ \E o, q \in Obj : Copy(o, q)
  \/ \E o \in Obj : Destroy(o)
  \/ \E o \in Obj : needUpdate(o)
  \/ \E o \in Obj, f \in Getters : Get(o, f)
  \/ \E o \in Obj : GetStatusThrows(o)
  \/ \E o \in Obj : userName(o)
  \/ \E o \in Obj, n \in 1 .. MaxChanges : \E h \in [1 .. n -> Contents("fd")] :
       GetFdWhileChanging(o, n, h)
  \/ \E o \in Obj, n \in 0 .. MaxChanges : \E h \in [1 .. n -> Contents("fd")] :
       GetFdWhileExiting(o, n, h)

Next == Kernel \/ Client

\* What a client of the cache and the kernel may do; the computed getters of
\* ProcessUsage are shown to do nothing else to it.
Spec == Init /\ [][Next]_vars

-----------------------------------------------------------------------------
FileOK ==
  /\ DOMAIN file = Pid
  /\ \A p \in Pid : /\ DOMAIN file[p] = Files
                    /\ \A f \in Files : file[p][f] \in Content(f) \cup {NoFile}

MemOK ==
  /\ DOMAIN mem = Obj
  /\ \A o \in Obj : /\ DOMAIN mem[o] = Files
                    /\ \A f \in Files : mem[o][f] \in Member(f)

SeenOK ==
  /\ DOMAIN seen = Obj
  /\ \A o \in Obj : /\ DOMAIN seen[o] = Files
                    /\ \A f \in Files : seen[o][f] \subseteq Content(f) \cup {NoFile}

\* The kernel's files, the parsed copies and the history hold what the types
\* of the parsed files and of the class's members allow.
TypeOK ==
  /\ FileOK
  /\ alive \in [Pid -> BOOLEAN]
  /\ spawns \in [Pid -> 0 .. MaxSpawns]
  /\ changes \in 0 .. MaxChanges
  /\ now \in Nat
  /\ pidof \in [Obj -> Pid \cup {NoPid}]
  /\ dirty \in [Obj -> SUBSET Files]
  /\ MemOK
  /\ fault \in BOOLEAN
  /\ SeenOK

\* Does member m say what content c of file f says?  Of the environment, which
\* accumulates, only that nothing of c is missing; of m_uids, that the ids
\* pushed last are those of c.
Shows(f, m, c) ==
  CASE f = "stat"   -> m = [name |-> c.line, state |-> c.line, ppid |-> c.line, rest |-> c.line]
    [] f = "status" -> /\ m.uids # <<>> /\ m.uids[Len(m.uids)] = c.uid
                       /\ m.vm = c.vm \/ c.vm = Nothing
    [] f = "io"     -> m.rb = c.rb /\ m.wb = c.wb
    [] f = "environ" -> \A k \in DOMAIN c : k \in DOMAIN m /\ m[k] = c[k]
    [] f = "wchan"  -> m = IF c = Nothing THEN Empty ELSE c
    [] OTHER        -> m = c

\* A content the code does not parse to what it says.
Unparsable(f, c) == f = "stat" /\ c.comm = "blank"

\* One of the contents in S has no descriptor k, or the link that m has for it.
ShowsLink(m, k, S) == \E c \in S : k \in DOMAIN c => k \in DOMAIN m /\ m[k] = c[k]

Clean(o, f) == pidof[o] # NoPid /\ f \notin dirty[o]

\* What a getter answers once its flag is down is what the file said at some
\* moment since the last needUpdate(), and not an older value, unless the file
\* could not be opened or parsed then; a flag is never down after a read that
\* threw.  The answer of fds() need not be of one moment: each descriptor by
\* itself, if it was open all the time, has a link that it had in this round.
CleanIsFresh ==
  \A o \in Obj : \A f \in Getters :
    Clean(o, f) /\ NoFile \notin seen[o][f] =>
      IF f = "fd" THEN \A k \in Key : ShowsLink(mem[o][f], k, seen[o][f])
      ELSE \E c \in seen[o][f] : Unparsable(f, c) \/ Shows(f, mem[o][f], c)

\* cwd(), exe(), root() and cmdline() never answer with what an earlier round
\* left behind: empty if the file could not be opened, or what it held in this
\* round.
NothingLeftBehind ==
  \A o \in Obj : \A f \in Getters \cap {"cwd", "exe", "root", "cmdline"} :
    Clean(o, f) => \/ NoFile \in seen[o][f] /\ mem[o][f] = Empty
                   \/ mem[o][f] \in seen[o][f]

\* A state() that is not empty proves that the process was there in this
\* round: after an exit the other stat getters go on with the old line, and
\* the empty state is the only sign the caller gets.
StateProvesAlive ==
  \A o \in Obj :
    "stat" \in Getters /\ Clean(o, "stat") /\ mem[o]["stat"].state # Empty =>
      seen[o]["stat"] # {NoFile}

\* Between two needUpdate() calls every getter of a file repeats its answer,
\* whichever other getters run and whatever the process does meanwhile.
StableUntilNeedUpdate ==
  [][\A o \in Obj : \A f \in Files :
       Clean(o, f) /\ Clean(o, f)' => mem'[o][f] = mem[o][f]]_vars

\* userName() indexes an empty m_uids only for an object that has not found
\* a readable status file in this round.
FaultMeansUnreadable ==
  fault => \E o \in Obj : Clean(o, "status") /\ NoFile \in seen[o]["status"]

=============================================================================
