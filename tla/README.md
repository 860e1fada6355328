# libsysinfo in TLA+

This directory holds a TLA+ model of libsysinfo, the library that reads `/proc`
and the kernel's process events: what its objects keep, what a client may call
in which order, and what the kernel may do meanwhile. TLC checks the model on
small instances, and TLAPS proves the most important properties for all of them.

Paths below are those of the repository (`src/processinfo.cpp`, `tests/...`).

## 1. The system and its parts

| Part | Where | State | Operations | Modelled in |
|---|---|---|---|---|
| The cache of `ProcessInfo` | `src/processinfo.{h,cpp}` | per object: the pid, eleven flags `m_need_update_*`, the parsed members | constructor, copy, destructor, `needUpdate()`, some seventy getters over ten files (the eleventh, `smaps`, is below), `userName()` | `ProcessInfo` |
| Usage figures | `src/processinfo.cpp:1337-1477` | three more flags and results per object; the static `map_pid_oldstate` | `cpuUsage()`, `ioReadUsage()`, `ioWriteUsage()`, `ioTotalUsage()` | `ProcessUsage` |
| `ProcConnector` | `src/procconnector.{h,cpp}` | a netlink socket, a thread, a vector of callbacks | constructor, `addCallback()`, `listen()`, the event loop, destructor | `ProcConnector` |
| Process listing | `src/sysinfo.cpp:135-180` | none between calls | `processListPid()`, `processCount()`, `processList()` | `ProcessList` |
| CPU information | `src/sysinfo.cpp:15-131` | none between calls | `readCPUInfo()`, `getNbCPUs()`, `getNbCores()` | `CpuInfo` |
| Memory maps | `src/mmap.cpp`, `readSmaps()` | `m_maps` and its flag | `maps()`, `MMap(stringstream&)` | `Smaps` |
| Sockets | `src/sysinfo.cpp:183-260` | none | `getSocketUNIX()`, `getSocketTCP()` | left out, see section 6 |
| `readCgroup()`, `readLimits()`, `readStack()` | `src/processinfo.cpp` | - | private, called by nothing | left out |

How they interact. Every object of `ProcessInfo` reads the files of `/proc`,
which the kernel and the process itself change at any moment. A usage figure is
the difference between what its object has just read, through the same lazy
getters, and what an earlier call, perhaps of another object, left in the map.
A callback of `ProcConnector` runs in the listening thread and is where a client
learns of new and ended processes. The listing makes one `ProcessInfo` per
directory of `/proc`. `maps()` and `readCPUInfo()` read files of many blocks,
one per mapping or processor, whose table changes while they are read.

What is hard about it:

* *lazy reading*: each file is read at another moment, the process may change,
  exit or be replaced by another one with its pid between any two of them;
* *partial failure*: a file that cannot be opened leaves some members cleared,
  some as they were, and one (`m_state`) overwritten; three parsers throw halfway;
* *shared baselines*: `map_pid_oldstate` is shared by all objects of a pid, is
  keyed by a number the kernel reuses, and serves two kinds of usage;
* *threads*: the loop of `listen(false)` runs beside its owner, who may add a
  callback, listen again or destroy the object;
* *walks*: a directory or a file of blocks changes between two entries of it, and
  what separates one entry from the next is left to a test of one line.

The list of hazards, each at its line, is in `PROJECT.json`; the properties
below are aimed at them.

## 2. Modules

```
ProcessUsage --EXTENDS--> ProcessInfo <--EXTENDS-- ProcessList
     |                         |                       |
MC_ProcessUsage         MC_ProcessInfo          MC_ProcessList        (TLC)
ProcessUsage_proofs --> ProcessInfo_proofs <-- ProcessList_proofs     (TLAPS)
     ^
ProcessBilling_proofs

ProcConnector --INSTANCE--> ProcFeed        Smaps --> SeqFile <-- CpuInfo
     |                                        |          |           |
MC_ProcConnector                              +---- MC_Readers ------+   (TLC)
ProcConnector_proofs        Smaps_proofs --> SeqFile_proofs <-- CpuInfo_proofs

Smaps, CpuInfo, ProcessList --INSTANCE--> Snapshot
```

`ProcessInfo`, `ProcFeed` and `Snapshot` are the abstract specifications:
`ProcessUsage` is shown to use the objects of `ProcessInfo` only
through the operations of these (of `ProcessList` that is plain from its actions), `ProcConnector` to implement `ProcFeed`, and the
three functions that list something to implement `Snapshot`. `SeqFile` is what the two
readers of files made of blocks have in common.

Definitions named `f_Variant` beside a definition `f` are faulty forms of it
that no specification uses; substituted for `f` they show that a property would
notice the fault.

### ProcessInfo

The kernel's side is external: `file[p][f]` is what file `f` of process `p`
holds, or `NoFile`. `Spawn`, `Exit`, `Change` and `Tick` may run between any two
actions of the client. `Tick` sets the clock to any time, back as well as on, as
`system_clock` allows. A value is a member of a small set `Val`. For `stat` one
value stands for all fields of the line (the properties ask whether a member is
from this line or another), beside whether the command name holds a blank. For
`status` the model keeps the uid line and one memory line, which may be absent
(`Nothing`); either may be too large for `std::stoi` (`Huge`).

The object's side follows the class:

| TLA+ | code |
|---|---|
| `dirty[o]` | the set of files whose `m_need_update_*` is true |
| `mem[o][f]` | the members filled from file `f`; `Unset` is an indeterminate value |
| `Construct`, `Copy`, `Destroy`, `needUpdate` | the functions of these names |
| `Get(o, f)` | any getter of `f` whose flag is up: `if (m_need_update_f) { readF(); m_need_update_f = false; }`. With the flag down a getter changes nothing |
| `readStat` ... `readWchan` | the functions of these names, as functions from the old members and the content; `Get` applies them through `read` |
| `GetStatusThrows` | a getter that leaves `readStatus()` by `std::out_of_range`, at an id after some of the ids were pushed, or at a size after all were (`Thrown`) |
| `GetFdWhileChanging`, `GetFdWhileExiting` | `readFd()` while descriptors are opened, closed and duplicated under it, and the process exits; `Scanned` is what the links it reads one by one may add up to |
| `userName`, `fault` | `userName()`; `fault` is the use of `m_uids[0]` of an empty vector |

What distinguishes the read functions is kept: which clear first, which
accumulate, which leave the old value when the file does not open, and that
`m_state` alone is overwritten then. A file is read at one moment, which is right of
those the kernel makes up for one `read()`; of a long `environ` or command line it is
an abstraction. The exception is the directory `fd`, where each link is a system call
of its own: the scan sees a set of contents, all those the directory goes through
meanwhile, and takes each link from any of them. That the pid is given to another
process within one scan is left out. A file that opens and then gives nothing because the
process has gone is one of the outcomes of `Opened`. `maps()`, which reads its file block
by block and may throw, is in `Smaps` only. `seen[o][f]` is a history variable:
everything file `f` held from the object's last `needUpdate()` to its reading. A round
below is the time from one `needUpdate()` to the next.

Properties:

* `CleanIsFresh`: a member whose flag is down is what the file said at some moment of
  this round. It is what makes the flags right: a flag that is not raised, or that is
  lowered by a reading that threw, a member that is not replaced or an accumulating map
  that keeps an old entry over a new one breaks it. Of `fds()` it is said descriptor by
  descriptor: one that was open all along has a link it had in this round; the whole
  may be what `fd` never was at any one moment. It excepts a file that could not be
  opened in the round and what the code cannot parse (`Unparsable`).
* `NothingLeftBehind`: the getters that clear before reading (`cwd`, `exe`, `root`,
  `cmdline`) never answer with an earlier round's value, also when the file cannot be
  read.
* `StateProvesAlive`: after the process has gone all other stat getters repeat
  the old line; an empty `state()` is the one sign a caller gets, and it is
  reliable.
* `StableUntilNeedUpdate`: an answer, once given, is repeated to the next
  `needUpdate()`, whatever other getters run. Usages depend on it.
* `FaultMeansUnreadable`: `userName()` reads beyond its vector only for an
  object that could read no status file in this round.

### ProcessUsage

It extends `ProcessInfo` with the flags and results of the computed getters, the
map (`oldstate`), the machine's cpu time (`cpuTotal`) and the `cpuUsage()` that
is under way. `cpuUsage()` is two actions, because the kernel runs between the
reading of `/proc/stat` (`BeginCpuUsage`) and that of the process's stat file
(`EndCpuUsage`). The io usages read one file and are one action each.
`IoTotalUsage` is both, in either order, as C++ leaves the order of the operands
open. A rate is kept as the quotient it is computed from (`Reading`), subtraction
is modulo `Word`, and an indeterminate operand makes an indeterminate result.
The factor `100 * nb_core` and the unit of the clock are left out.

`cpuTotal` is what the code adds up, the columns user, nice, system and idle of
`/proc/stat`; iowait, irq, softirq and steal are not in it (`src/processinfo.cpp:1450`).
Time in the first and last of these is nobody's, and is left out of the model too. But
kernels charge a tick in an interrupt to the process it fell into as well: with
`InterruptTicks` a process may run for a tick that `cpuTotal` does not show. Then the
process may outrun the machine as the code sees it, and `BaselineAligned`,
`UsageWithinMachine` and `AlignedAgain` are neither checked nor claimed; `usage_cpu` and
the theorems with `CpuOnly` have `InterruptTicks = FALSE`. The sums do not need it.

`billed` is a history variable, the sum of all usages of a kind reported for a process.
A usage made from an indeterminate value makes the sum indeterminate (`Unset`) for good,
and no bound is claimed of such a sum: the code reports the old counters of nobody
subtracted from the new ones, which may be anything.

* `BaselineAligned`: the two old values of an entry belong together (`Aligned`): the
  process has not run for more ticks since than the machine.
* `UsageWithinMachine`: a step property: no `cpuUsage()` reports more than the
  machine did in the interval, but for the ticks that fall between the two
  readings of the call. An old value ahead of the new one would wrap around here.
* `AlignedAgain`: a step property about the hazard that the map is keyed by a number
  the kernel reuses. The entry a dead process left is out of step with the next process
  of its pid: its counters begin again at 0. The call that subtracts it reports
  nonsense, but leaves an aligned entry, and from then on no step of anybody spoils
  it while that process lives.
* `NoTickCountedTwice`, `NoByteCountedTwice`: what all calls of all objects
  report for a process adds up to no more than it ran or transferred, unless the sum is
  indeterminate.
* `NoIndeterminateUsage`, `SumsDeterminate`: no usage, and no sum of usages, is made from
  a value nothing has written. For whom that is so is said by the theorems of section 5;
  for a client that mixes cpu and io usages it is not (run `usage_mixed`).
* `WatchInv`: what keeps the two sums true for a client that has one object of each
  process at a time (`WatchedSpec`, `OneWatcher`): what has been billed is in the
  entry (`Ledger`), the entry is not ahead of a copy that may be used again
  (`UpToDate`), and no copy is ahead of what the file says.
* `CpuInv`: what keeps the cpu entries together; see section 5.
* `Spec`: the specification of `ProcessInfo` as a property: whatever the computed
  getters do to the cache is something the cache's own operations do.

`UsageWithinMachine` and `AlignedAgain` hold of every process of a pid, the former
of a later one as soon as its entry is aligned. The others speak of the first process
(`Countable`): until the first usage of a later one they do not hold, and what that
usage was is lost in the sums.

### ProcConnector

One object, its owner thread `Main` and the threads `Worker` that `listen(false)`
starts. The socket's queue is bounded; an event that finds it full is dropped and
makes the next `recv()` fail, once, with `ENOBUFS`, which is what the kernel does.
The constructor is two actions (`connect`, `subscribe`) because it can fail between
them, the destructor two (`CloseSocket`, `DeleteThread`) because the thread runs
between them, and `processEvent()` is `Receive` or `ReceiveFails`, then one `Call`
per callback, then `Again`. An exception that leaves a thread, and the deletion of
a joinable `std::thread`, set `status` to `"aborted"`; `addCallback()` while a loop
iterates the vector may make it `"undefined"` (if the vector moves its elements).

* `HandedInOrder`: every callback gets every event received since it was added,
  once, in order, as long as no two loops run at once.
* `HandedOnce`: not even two loops hand a callback an event twice.
* `LossIsReported`: a dropped event is seen: the error is waiting, or has ended a
  loop or the program, unless the object was destroyed first. What counts as seen stays
  so: of a second loss, after an error that has ended a loop, the property says nothing.
* `EventuallyHanded`: liveness, see section 4.
* `FeedSpec`: the connector implements `ProcFeed`. That module has no sockets,
  threads or loops: a log, and for each subscriber the part of the log it has been
  given. While the feed is orderly nothing enters the log before every subscriber
  has had all of it; once disturbed, only "never twice, nothing from before its
  subscription" is left. The mapping (`Feed` in `ProcConnector`) takes the events
  received for the log, the callbacks for the subscribers, and "one loop at a time
  so far" for orderly; a second loop that begins maps to `Disturb`.

### ProcessList

It extends `ProcessInfo` with a walk over the directory `/proc`, one entry per
step. The kernel's side is external: it hands over what is no process first and
then the processes by rising pid, from the pid after the last one on, in batches
that `readdir()` buffers (`getdents`). `Skip` and `Take` are the two outcomes of a
round of the `for` of `processListPid()`, `EndOfDirectory` its end, `Make` a round
of the `for` of `processList()`, which is the constructor of `ProcessInfo`; `Drop`
is the client destroying the list. `there` and `met` are history variables: the
processes that lived all through the walk, and those that lived at some moment.

* `ListedOnce`, `ListedIfThere`, `ListedWereMet`: what a caller may conclude from
  a list of pids. A process that was there all the time is in it, one that never was
  is not, and nothing is in it twice, even when a pid is used again in the walk.
* `OneObjectPerPid`: `processList()` makes one object of its own for each pid,
  though some have died. Its catch blocks never run: the constructor reads nothing.
* `WalkIsAListing`: the walk implements `Snapshot`.
* `WalkEnds`: liveness, see section 4. What ends the walk is that batches never go back
  to a pid; the run bounds the processes that start, a pid at a time, by `MaxSpawns`, so
  it does not show a walk that runs beside endless starts.

### SeqFile, Smaps, CpuInfo

`SeqFile` is external: a table with an entry or nothing at each key, which changes
(`Alter`), and a reader whom the kernel shows whole entries by rising key (`Show`).
`Smaps` and `CpuInfo` extend it with what the library does line by line: to the
stream of the current mapping (`AddLine`, `CutMap`, `EndMaps`, `MapsThrow`), and to
`cur_cpuinfo` (`KeyLine`, `BlankLine`, `KeyThrows`). A block has one line for each way a
line is treated: three for a mapping, six for a processor. A processor without a topology
has no lines for its ids, so that `cur_cpuinfo` keeps the 0 of `cpu_info_t()`; a stepping
the kernel does not know is printed as "unknown", at which `std::stoi()` throws out of
`readCPUInfo()` and the answer is lost, as it would be for any other number. The kernel's part of
`std::getline()` is an action of its own, so the table may change between any two
lines. `MMap` is an operator on the lines of a stream, and keeps what is odd about
the code: an empty file makes one map, a size of two digits is not seen by
`regex_value` and leaves `m_size` unset, an offset that begins with a letter throws.

* `MapsAreMappings`, `InfosAreProcessors`: an element of the answer is one entry
  of the table as it was at some moment of the call; nothing of a neighbour, of an
  earlier call or of an earlier entry at the same place is in it. What the element of an
  entry is, is what the code makes of its block taken alone (`MapOf`, `InfoOf`), the size
  it does not see included: the properties are about where an element comes from.
* `NoMapMissing`, `NoProcessorMissing`: what is there all the time is in the answer.
* `MapsRise`: maps are in order and none is there twice, also when a call that
  threw is tried again.
* `CoresCounted`, `PackagesCounted`: what `getNbCores()` and `getNbCPUs()` count.
  The second takes a thread whose core id is 0 for a package; the property says
  under which premise that is right; hyperthreading does not meet it, nor does a block
  without ids.
* `MapsAreAListing`, `CpusAreAListing`: the readers implement `Snapshot`.

### Snapshot

What a caller of `maps()`, `readCPUInfo()` or `processListPid()` may rely on, with no
buffers, lines or batches: entries that change at any moment, a call, and its answer.
The answer need not be a picture of one moment. It is made of entries that were there
at some moment of the call (`met`), at most one for each place, and leaves out none that
was there all the time (`there`); it holds until the next call or until the caller gives
it up (`Dismiss`). A call may throw and leave a part of an answer, which then nobody
takes for one, or find that the file does not open.

Each reader maps to it by a view of its own state (`MapsView`, `CpusView`, `WalkView`).
The answer is the set of what the vector holds, and is hidden while a call is under way.
For `maps()`, the phase is "answered" when the flag is down and the call over, so that
`needUpdate()` is `Dismiss`; the map an empty file makes is taken for the empty answer
it should be. For the walk, `entries` are the pids of the living. That the answers
come in order, and each entry once in the vector and not only in the set, is said by
`MapsRise` and `ListedOnce`.

## 3. Runs

All bounds are constants of the cfg files.

| Run | Instance | Shows |
|---|---|---|
| `cache_reuse` | 2 objects, 1 pid, 2 processes in turn, 2 changes, files `stat`, `environ` | `CleanIsFresh`, `StateProvesAlive`, `StableUntilNeedUpdate` |
| `cache_failures` | 1 object, 1 process, 2 changes, any open may fail; files `stat`, `cmdline` and `cwd`, or `status` (2 readings of uids) and `io` | `TypeOK`, `CleanIsFresh`, `FaultMeansUnreadable`, `NothingLeftBehind` |
| `cache_fds` | 1 object, 2 processes in turn, 2 changes, also within a scan of 2 descriptors, any open may fail; files `fd` and `wchan` | `CleanIsFresh` |
| `usage_cpu` | 2 objects, 1 pid, 2 processes in turn, 3 changes, 3 ticks of the machine, up to 2 of a process | `UsageTypeOK`, `CpuInv` (with `BaselineAligned`), `NoTickCountedTwice`, `NoIndeterminateUsage`, `UsageWithinMachine`, `AlignedAgain` |
| `usage_watched` | 1 object, made and destroyed at will, 1 process, 1 change, 1 tick of the machine and interrupts, a clock of 2 values set on and back, all computed getters and those of `stat` mixed, any open may fail | `WatchInv` (with the bound of `NoTickCountedTwice`), `NoByteCountedTwice`, `Spec` |
| `connector_delivery` | 2 threads and the owner, 4 events, a queue of 2, 2 callbacks, failures | `TypeOK`, `HandedInOrder`, `HandedOnce`, `LossIsReported`, `FeedSpec`, `EventuallyHanded` |
| `list_walk` | 3 pids, 2 processes in turn for each, 2 listings, 3 objects, any batches | `ListTypeOK`, `ListedOnce`, `ListedIfThere`, `ListedWereMet`, `OneObjectPerPid`, `WalkIsAListing`, `WalkEnds` |
| `readers` | a table of 3 keys, 2 calls of each reader; 3 kinds of mapping, one of which throws, 3 changes; 5 kinds of processor, one without ids and one that throws, 2 changes | `MapsAreMappings`, `MapsRise`, `NoMapMissing`, `InfosAreProcessors`, `NoProcessorMissing`, `CoresCounted`, `PackagesCounted`, `MapsAreAListing`, `CpusAreAListing` |

Four runs find a violation, where the code does not do what the repository says:

| Run | What happens |
|---|---|
| `cache_realuid` | `readStatus()` pushes the uids behind the old ones, so `m_uids[0]`, the "real uid" of `src/processinfo.cpp:636`, stays that of the first reading |
| `usage_iototal` | each operand of `ioTotalUsage()` moves the entry the other subtracts from, so the figure `tests/io_read_usage.cpp:20` prints loses one term |
| `usage_mixed` | an io usage inserts an entry without cpu values; the "old value" of `src/processinfo.cpp:1464` is then indeterminate; a cpu usage that comes first likewise leaves the io counters of the first io usage indeterminate |
| `connector_ends` | the program of `tests/test_procconnector.cpp:49-55` ends in `std::terminate`: its destructor deletes a joinable thread |

Why the bounds are enough. A stale answer needs two rounds and one change between them;
two changes and two processes leave room for one of each inside and between rounds, and
the fields of one file are all replaced by the same step. Objects meet only in the map,
so two of them, with a call of one between two of the other, show every order; three
ticks are one before the first baseline, one between and one inside a call. A spoiled
entry takes a process that has run, one call for it, another process and two calls for
that one: two processes and three changes leave one tick to the first and room for one
of the second before and after its first call. Two loops are the least that can overlap,
two callbacks the least that can be at different places, and four events overflow a
queue of two after two have been taken. Three pids or keys are the least that have one
before the reader's place, one at it and one after, and three changes reach all of them
(of processors, of which there are five kinds, two: what comes online in one place and
goes in another);
a second listing or call starts from what the first one left. Where there is a proof
(section 5) it removes the bounds.

In `cache_failures` a behaviour is about the files whose members are replaced or about
those whose members accumulate (the constraint `OneKindOfFile`), and `fd/` is in another
run: each property speaks of one file at a time, and a getter touches the flag and
the member of its own file only.

In `usage_watched` there is one slot for objects, so every behaviour of `UsageSpec` is
one of `WatchedSpec`; a client of `WatchedSpec` never has two objects of a process, and
one slot that is emptied and filled again shows all that two would. A byte or a tick
counted twice needs one change and two usages after it; the two values of the clock are
one interval on and one back. The run leaves out a plain getter of the io file beside the
computed ones, and more than one change; the theorems about `WatchedSpec` have neither
bound. The run's `VIEW` (`WithoutResults`) leaves out the
variables that record results and histories: no guard reads them, and the run's
properties do not ask for their values. That of `usage_cpu` (`WithoutHistory`) leaves
out the two histories its properties do not ask for, `seen` and `owed`; `UsageTypeOK`
asks for their types, which the theorem proves.

Objects and threads are interchangeable, which the symmetry sets use; the run that
checks a liveness property uses none. `Word` is 16 where the code has 2^64: what matters
is that every counter is below it and a difference may wrap. `CHECK_DEADLOCK FALSE` is
set because the bounds, and a program that has ended, make behaviours stop.

## 4. Fairness

Safety is proved without fairness. Two runs use some:

* `EventuallyHanded` needs `FairSpec`: weak fairness of `Loop(t)` for every thread.
  The code justifies it: a thread that is in the loop is never disabled for good by
  another one, there is no lock, `recv()` blocks only while the queue is empty and
  nothing is reported, and callbacks are assumed to return.
* `WalkEnds` needs `FairListSpec`: weak fairness of `Walk`, the steps that
  `processListPid()` and `processList()` take by themselves. Nothing in them waits.

Nothing is assumed of the kernel's sending or changing things, nor that a client
ever calls.

## 5. What is proved

All theorems hold for all values of the constants that satisfy the named
assumptions of the modules: `ConstantsAssumption` and `UsageAssumption` (the
sentinels differ from the values, `Getters` are known files, counters lie below
`Word`), `ConnectorAssumption`, `ListAssumption`, `SeqAssumption`,
`SmapsAssumption`, `CpuAssumption`.

`ProcessInfo_proofs`: `TypeCorrect`, then `FreshAnswers`, `NoLeftovers`,
`StateIsProof`, `FaultsAreUnreadable`, `StableAnswers`. Lemma `StepAnswers` says of
any step and any file that is clean after it that it was clean before and kept its
member and its history, or that this step read one content, now in the history, or
scanned `fd`. Each invariant is then one argument about what a read function does
with one content, or with links each taken from one of the contents scanned, and needs
`TypeOK` as its only strengthening. They are about the ten files of the module, each
read as said in section 2; `maps()` is not among them.

`ProcessUsage_proofs`:

* `UsageTypeCorrect`, and `UsageRefines`: `UsageSpec => Spec`. A computed getter
  uses the cache only through `Through`, which is `Get` or nothing, so the
  theorems about the cache hold of it as well.
* `CpuInvariant`, and from it `CpuBaselines`, `CpuBilledOnce`, `CpuWithinMachine`,
  `CpuAlignedAgain`, for clients that call `cpuUsage()` and no other getter of the stat
  file, on any number of objects, while `/proc/stat` opens and no tick of a process is in
  an interrupt column (`CpuOnly`).
  `BaselineAligned` alone is not inductive: the call under way holds a total from
  earlier, so `CpuInv` adds that it is not older than the entry's (`CallIsLater`), that
  an object whose usage is due will really read its stat file (`DueIsDirty`; with a
  stale line the old values would drift apart), and that what has been billed is below
  the baseline (`BilledBelowBaseline`). Lemma `CpuRateValue` shows that no subtraction
  wraps around.
* `CpuAlignedAgain` is about a pid that any number of processes have in turn. Of an entry
  that a dead process left the invariant says no more than that its machine total is not
  ahead of the machine (`EntriesNotAhead`), and of a call under way that its total is
  not behind the entry's, whoever left it; that is true of every entry of such a client.
  It is enough for what the call leaves behind (`EndAligns`): a total taken earlier
  and the ticks read now. `KernelKeepsAligned` says that each step of the kernel moves
  both sides by the same tick or only the machine's. `CpuWithinMachine` then holds of
  the next call.

`ProcessBilling_proofs` is about what all usages of a process add up to, which a chain
keeps below what the file says: what was billed is in the entry of the pid, the entry
is not ahead of the copy a usage is computed from, and no copy is ahead of the file.
A computed usage bills at most the link between the entry and the copy, and moves the
entry up to the copy; lemmas `Computes...` and `ComputingKeepsBills` say so once for
`cpuUsage()`, the io usages and the two halves of `ioTotalUsage()`, for any object
whose copy is not behind the entry. The premise is what a client can spoil: a second
object with an older copy of the counters lies below the entry, and the subtraction
wraps around. It holds for two kinds of client:

* `WatchedInvariant`, `WatchedTicks`, `WatchedBytes`, `WatchedRefines`: at most one
  object of each process at a time (`WatchedSpec`), any mix of cpu, io and plain
  getters, any failing open. The object that moved the entry is the only one that
  will use it again. TLC checks the invariant, `WatchInv`, in `usage_watched`. If such a
  client is told an indeterminate usage (it mixes cpu and io usages, or an open fails
  before the first good reading), the theorems say nothing more of that sum.
* `FreshTicks`, `FreshBytes`: any number of objects, whose client reads the stat file
  through one getter only and the io file through one getter only (`FreshOnly`), while
  files open. A usage that is due then reads the file again (`DueWillRead`), so its copy is
  the newest there is. With a failing open it would compute from an old copy. The same
  is excepted.

`OneFileDeterminate`: a client that computes cpu usages or io usages but not both
(`OneFile`), on any number of objects, beside any plain getters, while files open,
gets no usage made from a value nothing has written. The invariant `KnownInv` follows
the origin of values: an entry's values for that file are written, since whoever
inserted it had read the file; a clean file has written members; and a computed usage
is made from two such, so the sums are determinate too (`SumsDeterminate`). That the
premise is needed is the finding of `usage_mixed`. TLC checks `NoIndeterminateUsage` in
`usage_cpu`. With it the exception of the sums falls: `WatchedSums` and `FreshSums` say
that a client with `OneFile` and one object at a time, or with `OneFile` and `FreshOnly`,
is told of no more ticks or bytes than there were, over all the usages it was told.

`ProcConnector_proofs`: `ConnectorTypes`, `CallbacksSeeAllInOrder`,
`CallbackSeesEventOnce`, `LossesAreReported`, and `ConnectorIsAFeed`, for any number
of threads, callbacks and events. `OrderInv` strengthens the order of delivery to
something inductive: the log and the queue rise (`Rising`), while undisturbed at most
one thread is in the loop (`Solo`), a thread in its `for` holds an event of the log
(`LoopsHold`) that no other thread holds (`DistinctGot`), and each callback has had
all of the log but what the running `for` still owes it (`InOrder`, `Owed`). The
refinement is then one case per action: `Receive` publishes, `Call` gives the event
at the position `OrderInv` says is next, `addCallback` subscribes, the start of a
second loop disturbs, all else stutters.

`ProcessList_proofs`: `ListTypeCorrect`, `ListObjects`, and `ListRises`,
`ListComplete`, `ListSound` from `WalkOrder`, which says for a walk under way that what
is listed lies below what is buffered, that below what is still to come (`ScanOrder`),
and that a process that has been there all the time is listed, buffered or still to
come (`ScanSets`). `WalkListing` is the refinement of `Snapshot`.

`SeqFile_proofs` has the lemmas the two readers share: the types, that `ShownOrder`
is inductive, which is the table's part of both invariants, that no key is shown twice
(`ShownApart`), and `ShownAreListing`: the entries shown so far are such as an
answer of `Snapshot` may be made of, and at the end of the file such as it must be.

`Smaps_proofs`: `SmapsTypes`, `SmapsSound`, `SmapsRise`, `SmapsComplete`. `Progress` in
`SmapsInv` says where in the file the reader is: nothing is shown yet, or the stream is
all of the last block but one and the last block waits, or the stream and the buffered
lines make up the last block. `MapsFollow` ties the maps to the blocks shown.

The refinements `SmapsListing`, `CpusListing` and `WalkListing` have one case per action
under the invariant of the reader. What the kernel alters is `Alter`; a step inside the
call, reading or parsing lines included, maps to a stutter; the last step of the call
(`EndMaps`, `EndRead`, `EndOfDirectory`) is `Return` of the entries shown or of the pids
listed, `MapsThrow` is `Throw` of those whose maps were made (`LastMap` says what the
last block adds), and `KeyThrows` is `Throw` of none.
It is there that the invariants are needed: for at most one entry per
place, for nobody left out, and for each element being what is made of its entry.

`CpuInfo_proofs`: `CpuTypes`, `CpuSound`, `CpuComplete`, `CpuCoresCounted`,
`CpuPackagesCounted`, from `CpuInv`, built the same way with one case per line read.
`CpuTypes` has beside the types that what is half read, when a line is taken, has nothing
of two processors (`HalfReadIsOne`).
The counts are a matter of cardinalities. The keys of the blocks shown are distinct
(they rise), so their number is that of a set between the keys of `there` and those of
`met`. Under the premise of `PackagesCounted` the elements whose core id is 0 and the
packages correspond one to one: an element's package is one that is there, two such
elements of a package would be one processor shown twice, and the one processor with
core id 0 of a package is shown.

Every invariant, action property and refinement of the passing runs is stated by a
theorem. The types of the two readers (`SmapsTypes`, `CpuTypes`) are proved and not run.
Some theorems have a premise on the client (`CpuOnly`, `OneWatcher`,
`FreshOnly`, `OneFile`), which says exactly for whom they hold. Not claimed, because it
is not so: `UsageWithinMachine`, `AlignedAgain` and `BaselineAligned` for a client that
calls other stat getters before `cpuUsage()` or whose `/proc/stat` does not open, where
only the ticks are known to be billed once; and anything for one that has several
objects of a process and reads a file through different getters.

Out of the prover's reach: liveness under fairness
(`EventuallyHanded`, `WalkEnds`), `ENABLED`, and what a recursive definition computes
for every input.

## 6. What is not modelled, and the plan

Left out for good:

* `readCgroup()`, `readLimits()` and `readStack()`, which nothing calls; the wording of
  output; the build; the default constructor of `ProcessInfo`, used nowhere.
* The sockets. `getSocketUNIX()` and `getSocketTCP()` keep no state and treat every
  line of the file by itself with one regular expression; what is hard about them is in
  the expressions: a class of digits where the kernel prints hexadecimal
  (`src/sysinfo.cpp:196`), entries from 1000 on (`:234`), the byte order of an address
  (`:244`). A model would be the regular expressions once more. The walk of `SeqFile`
  would not fit, since the kernel finds its place in the socket tables by counting and
  may repeat or skip an entry.
* Of `MMap`, the permissions, the category and the numbers other than `Size`, which are
  assigned like it; of `/proc/cpuinfo`, the keys that are assigned like `physical id` or
  `stepping`.
  What the code does to the text of a line (trimming at `src/sysinfo.cpp:42`, keys with
  an underscore at `src/mmap.cpp:14`) is not modelled.
* Reading a file of `/proc` other than `fd` takes one step in `ProcessInfo`. Of the files
  whose parsing depends on the order of lines, `Smaps` and `CpuInfo` have the steps.

What could still be said:

* For the io usages of a later process of a pid, what `AlignedAgain` says of `cpuUsage()`:
  their entry is replaced as a whole too, with the clock in place of the machine's ticks.
* Two threads in the usage functions at once, on the map's find, insert and update.
  Nothing but undefined behaviour follows from them, and nothing in the repository
  allows them.
