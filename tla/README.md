# Verification of the operating system exercises

The repository is a collection of C programs for an operating system course:
each program under `src/assignments`, `src/ipc` and `src/thread` stands on its
own, and what makes them interesting is what they share: files, semaphores,
memory segments, pipes and a counter. This directory holds TLA+ models of them,
the TLC configurations that check the models on small instances, and proofs that
TLAPS checks for every value of the constants.

Nine components are modelled: the student record store (as1), the block file
(as7), the semaphore ring and the semaphore lock (as5), the shared variable (as4),
threads on a counter, pipes, Collatz over shared memory, and two of the fork
exercises (as2). Each has a module of its own; `StudentTable` and `Turns` are the
abstract specifications two of them implement.

## 1. Inventory

For each component: its state, its operations, how its parts interact, what is
hard about it, and what makes it correct.

### Student record store: `assignments/as1/as1_os.c` (modelled)

- State: a data file (a count, then records of roll number, name length, name),
  an index file (a count, then one offset per record, -1 for a deleted one), and
  the descriptors the process has left open.
- Operations: the menu options 0 initialize, 1 add, 2 delete, 3 print by roll
  number, 4 modify (delete, then add), 5 compact, 6 print one, 7 compact and
  sort, 8 print all.
- Interaction: one process, two files. Each option opens both, and every option
  trusts the count that another one wrote.
- Hard: the counts of both files and the slots are written one after the other,
  so a kill in between leaves files that disagree, and so does option 0 when it
  can open one file only; modify opens the data file
  with O_APPEND, so its `lseek` is void; option 6 leaks two descriptors;
  compaction reads eight bytes into an int, may store past an array, and writes
  back what its arrays held; sort
  ignores roll numbers from MIN_ROLL on; search does not look at the result of
  `read`.
- Correct if: as long as no option ended half-way, the counts agree with the live
  slots, no two records overlap, and each option changes the table of records as
  its name says; afterwards whole records are still kept, and options return.

### Block file with a free list: `assignments/as7_10mar/as7.c` (modelled)

- State: a header (used count, free count, first free block), a link word per
  block, a static buffer, descriptors.
- Operations: `init_File_dd`, `get_freeblock`, `free_block`; `check_fs` has no
  body and `main` is empty.
- Hard: the links are written before the header; links are one region off;
  `return` before `close`; reads that fail leave the buffer of the last call and
  what was on the stack, which later calls take for block numbers.
- Correct if: no block is given to two callers, the list ends and holds only
  blocks nobody has, a freed block comes back.

### Semaphore ring: `assignments/as5/p1.c`, `p2.c`, `p3.c` (modelled)

- State: four System V semaphores, the adjustments SEM_UNDO keeps per process,
  and where each program is.
- Operations: semget, SETALL (p1), semop, the end of a process.
- Interaction: three programs started by hand, in any order, on one set of
  semaphores that outlives them.
- Hard: SEM_UNDO on semaphores that other programs move; SETALL on a ring that
  runs; programs killed and started again.
- Correct if: one section at a time, in the order p1, p2 (first), p3, p2
  (second), for ever.

### Semaphore lock: `assignments/as5/sample.c` (modelled)

- State: one System V semaphore, adjustments, the queue of waiting processes.
- Operations: SETVAL, fork, P, V, the end of a process.
- Hard: processes killed in the section; a parent that asks for the lock again
  at once; several launches on one key.
- Correct if: one process in the section, no lock lost with a killed process,
  every wait ends.

### Shared variable handshake: `assignments/as4` (modelled)

- State: a System V segment of two words, `flag` and `n`; the loops of a parent and
  its child; pending signals; whether the segment has been removed.
- Operations: shmget, fork, execve (part2.c), shmat, one round of each loop, wait,
  IPC_RMID, the handler of SIGINT, the end of a process.
- Interaction: parent and child through the segment without a lock, and through the
  handler, which kills the whole group.
- Hard: the parent sets `flag` before it writes `n`, the child reads `n` after it has
  cleared `flag`, and the compiler may swap either; Ctrl-C between any two steps,
  before the segment is known or after execve has dropped the handler.
- Correct if: every number is taken once and in order, or is at most one off where
  the race allows it; both end; the segment goes away.

### Threads: `thread/mutexes.c`, `thread/raceCond.c` (modelled)

- State: a counter, a lock, a semaphore of m slots, the threads.
- Operations: create, join, report; wait, lock, load, store, unlock, signal.
- Hard: the unlocked counter loses updates, and the compiler may move the load and
  the store out of the loop; a semaphore of no slots.
- Correct if: at most m are inside, the sum is exact under the lock, main ends.

### Pipes: `ipc/pipes.c`, `assignments/as6_17feb/prob1.c` (modelled)

- State: the pipe, who has which end open, the parent's file, what the child has.
- Operations: pipe, fork, close, open, read, write, the ends of processes.
- Hard: the end of file comes only when every write end is closed, and in pipes.c only
  the end of the parent closes its own; a full pipe stops the writer; either side may
  be killed; files are missing or cannot be read.
- Correct if: every byte arrives once, the child ends after the last one and not
  before, and both always end.

### Collatz over shared memory: `ipc/shared_memory.c` (modelled)

- State: the segments, the one the name stands for, what each run has mapped.
- Operations: open, fork, the loop of the child, -1 at its end, wait, print, unlink.
- Hard: one name for all runs; both processes of a run unlink it; 1024 numbers of 32
  bits and no check of either; what an earlier run left.
- Correct if: a run prints its own sequence, and the name does not stay.

### Fork exercises: `assignments/as2` (as2_2.c, as2_3.c modelled)

- State: an array, copied or passed on by fork(); what each process has printed and
  not yet written.
- Operations: fork, the search for the largest, the swap, exit, wait.
- Hard: the exit status of as2_3.c keeps eight bits of an index; as2_2.c does not wait,
  and fork() copies what `printf` still holds.
- Correct if: the array is sorted and loses nothing, and each line is printed once
  and with the number of its rank.

as2_1.c, as2_4.c and as2_5.c are not modelled: two processes read or write one open
file through buffers of the C library, and what they show is the size of those.

### Fork and exec exercises: `assignments/as3` (not modelled)

Straight-line fork and exec, the command loop of `forkNexec4.c`, which runs one
child at a time, and `as6_17feb/sample.c`, whose child never ends. Nothing is shared
in them but the terminal.

### Draft of the block file: `as7_10mar/prob1.c` (not modelled)

Does not compile; `as7.c` is its successor.

`PROJECT.json` lists the hazards of all of them at their lines.

## 2. Modules

| Module | What it is |
|---|---|
| `StudentTable` | what the record store promises: a table of records, and what each option may do to it |
| `StudentStore` | the record store, write by write; implements `StudentTable` |
| `StudentStoreProofs` | theorems about it |
| `BlockFile` | the block file |
| `Turns` | what the ring promises: sections that take turns |
| `SemRing`, `SemRingProofs` | the ring; implements `Turns`, proved |
| `SemLock`, `SemLockProofs` | the lock of sample.c, theorems about it |
| `SharedVar`, `SharedVarProofs` | the handshake of as4 with Ctrl-C, theorems about it |
| `Counter`, `CounterProofs` | the threads, with and without a lock, theorems about them |
| `Pipe`, `PipeProofs` | both programs that use a pipe, theorems about them |
| `ForkSort`, `ForkSortProofs` | as2_2.c and as2_3.c, theorems about them |
| `CollatzShm` | two runs of shared_memory.c |
| `FileMemoryProofs` | theorems about `BlockFile` and `CollatzShm` |
| `MCStudentStore`, `MCBlockFile`, `MCCollatzShm` | give TLC the sets with negative numbers, which a `.cfg` cannot hold: what uninitialized memory contains |

The constants of a module are parameters of the program (the roll numbers a user
types, the number of blocks, the limits of the system, how the compiler laid out
the stack, what unwritten memory holds) and bounds on what TLC explores. The other
modules get numbers and small sets directly from their `.cfg`.

### `StudentStore`

| State | Code |
|---|---|
| `data` | the data file, one cell per write: a count, a roll number, a length, a name |
| `hdr`, `slots` | the index file: its count (`NoHdr` when empty) and its offsets |
| `fds` | descriptors that option 6 leaked |
| `op` | the option that runs, between which two of its writes, and its locals |
| `crashes` | how often the process was killed |
| `torn` | auxiliary: since option 0 last began, an option ended half-way: it was killed, or it exited after its first write |

Each `write()`, and each `open()` with O_TRUNC, is an action; reads happen in the
action that uses them, since no other process has the files. The options:

- 0: `InitTruncData`, `InitTruncIdx`, `InitCount`, `InitIndexHeader`. The data file
  is truncated before the index file is opened, so with one descriptor left it is
  truncated and the process exits: no kill, and yet the files no longer agree. The
  default limit of 1024 less the three standard descriptors is odd, so option 6, which
  leaks two, leads there. `MaxFds` is odd in the passing run and any number in the proofs.
- 1: `Add` (the count of the data file, then), `InputIndexHeader`, `InputSlot`,
  `InputRoll`, `InputNameLen`, `InputName`.
- 2: `Delete`, `DeleteIndexHeader`, `DeleteCount`.
- 4: `Modify`, the steps of a deletion, `ModifyInput`, and the steps of an
  insertion. Its `app` says that the data file is open with O_APPEND: both counts
  land behind the records.
- 3, 6, 8 and searches of 2 and 4 that fail: `SearchHangs`, `ReadFails`,
  `PrintStudent`. What they print is left out; reads that succeed and change
  nothing are stuttering.
- 5: `Compact` and the `Compact...` writes. 7: `Sort`, the same writes, then
  `SortStep`, `SortSwap`, `SortEnd`, or `SortFails` at an offset it cannot read.
- `OpenFails`: no descriptors are left; the program exits, the user starts it
  again. `Crash`: the process is killed between two writes, and started again.

`Build` says how a compiler laid out `compaction()`. It reads `sizeof(off_t)` = 8
bytes into the 4-byte `idx`, and with a deleted last slot it stores one element
past `idx_buff`. Read off gcc's code for x86-64:

- `"O0"`: the other four bytes are those of `n`. After the loop `n` is the upper half
  of the last offset: 0, or -1 if it is deleted. The stray store, when `n` is even
  (an odd `n` has padding), falls on the path of a file and the next `open` fails:
  the program exits before anything is truncated.
- `"O2"`: the other bytes are unused; the stray store falls on the address of
  `data_buff` or of the slots, and that `write` fails after the header of a truncated
  index has been written.
- `"Os"`: both are harmless.

The passing run uses `"Os"`, where the program's own logic decides.

`compaction()` checks nothing it reads. `CompactRead` is what it makes of any files:

- `CompactBuffers`: `idx_buff[n]` and the buffer of the length of the data file have room
  for what is read, as they have whenever the count is at least the number of live
  slots. It goes on, and `CompactSlots` writes as many slots as the count says: the
  offsets of the records, after a deleted last slot the end of the records (stored
  before the -1 is seen), and for the rest what the array held (`Leftovers`). So after a
  kill between a count and its slot a compaction leaves slots that point at no record,
  one of them at the place of the record that is added next. A record that the file
  ends in gets the cells memory held (`UnreadCell`).
- `CompactExits`: an offset `lseek` refuses, or in the build `"O0"` the stray store.
- `CompactOverruns`: more live slots than the count, more cells than the buffer, or a
  length read from what is none. Only this is `"undefined"`: nothing leaves it, and
  nothing but the files' last contents is claimed about it.

`StudentTable` ties each change to an option: `Option` is the option that runs, "broken"
while `torn`. Only initialization empties the table, only a deletion or modification
takes the first record of a roll number out, only an insertion or modification puts
one in, only a sort exchanges; compaction and the options that print leave it alone.

Names are numbers: no property looks into one, and the first name is what a record
keeps besides its roll number. Left out: an end of file on the standard input, which
makes the menu loop for ever.

### `BlockFile`

`hdr` and `link` are the file: the header and the last word of each block. The link
of block b is stored as the code computes it, at `i*4096-4`, which is the last word of
the region before: `Regions` starts at the header (-1) and ends at N-2. `FreshLinks`
shows the effect: every second block is in the list, the last one is not linked at
all. `buf` is the static buffer, `fds` the leaked descriptors; `owners`, `gets` and
`exhausted` are ghosts for the properties. `InitFile`, `GetFreeblock`, `GetNothing`,
`FreeBlock` are whole calls; `InitKilled`, `GetKilled` and `FreeKilled` are calls killed after
some of their writes; `GetUnopened` and `FreeUnopened` are calls whose `open` failed, with the
garbage they go on with. Since `main` is empty, the callers are any that free only
numbers they were given.

`next_fb` is uninitialized where `read` fails, so `GetUnopened` draws it from `Leftovers`, any ints, and
a later call gives such a number to its caller as a block (`Numbers`). What `free_block`
makes of one: `Places` is where it looks (its offset is computed in an int, which
overflows for numbers beyond `Reach`), `PastEnd` and `Relinked` which regions it writes
(past the end of the file `read` returns 0, `nfb` stays equal to the number, and the
region before it is written), `NextNext` what it writes there, `LinksWith` the file it
leaves, which may be longer. The data words of blocks are not modelled: no function of
as7.c reads one. N is even, as the chain of even blocks then ends at the end mark; an
odd N leaves the last word unwritten. Every second block is in no list and never given
out; no property says the list is complete, which the links as written contradict.

### `SemRing` and `Turns`

`sem` and `adj` are the system's: `SemOp` fails out of range (`SemOpFails`), `Exit` adds
the adjustments of a process and clips the result to 0..SEMVMX, `SetAll` clears the
adjustments of all processes. `at` is the next `semop()` in the loop of a program
(`Loop`), `SectionAt` the section that comes before it. `Start`, `SetAll`, `SemOp`,
`SemOpFails` are the programs; `Kill` and `Restart` the user. With `P1First` a user starts
programs again only once all have ended, and p1 before the others; the first ring may
be started in any order. `Turns` is what p1.c:10-12 describes; the refinement maps
`inside` to the sections programs are in.

### `SemLock`

`queue` are the processes that sleep in `semop()`, in order: in Linux whoever raises the
semaphore (V, SETVAL, or the end of a process) performs the operations at the head of the
queue itself, so `Settle` is part of those actions. `Alone` says that a launch begins
only when all processes of the last have ended. The sets made with IPC_PRIVATE at
lines 67-68 and never used are left out. sample.c and the ring use one `ftok` key: started
in one directory they would share a set. Each is modelled in a directory of its own.

### `SharedVar`

`program` is part1.c or part2.c, which differ in who the child is. `flag` and `n` are
the segment; every access to them is a step of its own. `build` is the order the
compiler gives them: at -O0 the order of the source (`SetFlag`, `SetN`; `ClearFlag`,
`ReadArg` for `fact()`, `ReadNum` for `printf`), at gcc -O2 `SetN` before `SetFlag`, and one
read of `n` before `ClearFlag`. A round in which `flag` has the wrong value undoes the loop's
`i++`, so the model waits instead (`ParentTest`, `ChildTest`).

`sig` is SIGINT at each process. `Interrupt` sends it to both, once; `HandlerRemoves` and
`HandlerKills` are the two halves of `releaseSHM()`. Before `signal()` and after a
successful `execve()` there is no handler and the process ends. `known` is false as long as `shmid`
is 0: the handler then removes segment 0, which is somebody else's (`foreign`). `Exec` ends in
part_exec.c, in an error, or in a fault of the `sprintf` through an uninitialized pointer.
`shmat()` on a removed segment nobody is attached to faults at the next line (`Attach`).

### `Counter`

`mode` is what the threads run: `loop()`, then `loop2()`, of mutexes.c; `increment()` of
raceCond.c, unoptimized or at -O2, where the loop becomes one addition (`Amount`).
`Create`, `Join`, `Report` are main; a thread goes from `SemWait` to `SemSignal` or through the part
of that its mode has. `added` is a thread's own loop counter. n is at most five, the size
of main's array.

### `Pipe`

The files are laid end to end: `upTo[k]` is where file k ends, so what has been read
(`pos`), is in the buffer (`held`), in the pipe (`piped`), and has arrived (`got`) are numbers.
`readers` and `writers` say who has which end open; `ExitOf` closes both. prob1.c stops at a file
it cannot open (`Open`); pipes.c goes on with -1, whose first read ends its loop. A read error
ends a file like its end (`ParentRead`). `ParentWrite` waits for room, `SigPipe` is a write
without a reader. pipes.c closes two descriptors twice; at that moment no other file has their
numbers, so the second close does nothing.

### `ForkSort`

`Largest` is the loop over k, `Swap` the exchange. In as2_2.c (`Place`) each process works on its
copy of the array, forks the next one (`Fork`) and ends (`Leave`), which writes what its `printf`
still holds; with a terminal as output nothing is held (`toFile`). In as2_3.c `ExitIndex` is the
child up to its status, modulo `Statuses`, and `PlaceStatus` the parent. A child killed leaves a
status that makes the parent exit (`Kill`). When an index does not fit the status (`Fits` fails: an
array longer than 256), as2_3.c exchanges with the wrong place and prints an order that
is not descending, against its lines 1 and 67; `Sorted` then says only that no number is
lost, and `Printed` nothing about the numbers.

### `CollatzShm`

`mem` are the segments that were ever made, `name` the one the name stands for. A segment without
a name lives on for those who have it mapped. `Wrap` brings
3n+1 into an int of `2 * Half` values, as x86-64 computes it.
Nothing in the program looks where a segment ends. Past it, `Store` and `PrintNumber` go on into the
memory behind (`Behind` numbers, the parent finds any of `Outside`) or fault, at every number
anew, since the code says nothing about what is mapped there; a child that has changed
memory of its own may crash later (`Corrupted`). With 32 bits the smallest number
that overflows is 113383, and no sequence up to it has 1024 numbers; one that has overflowed may
pass through -1, which the parent takes for the end. Some definitions have a prefix (`ShmInit`,
`ShmTypeOK`) because one module proves about this one and `BlockFile`.

## 3. Runs

| Run | Expect | What it shows |
|---|---|---|
| `student_store` | pass | Three roll numbers (one not below MinRoll), three slots, three descriptors, two kills between any two writes. Until an option ends half-way: counts agree, records do not overlap, each option does to the table what its name says (`ImplementsTable`). Always: the count covers the slots, only kills make search hang, compaction packs what it read, options return, and a whole record survives every step but those in which the program rewrites a file in place (the truncations of options 0, 5 and 7, the first write of an exchange: a kill there does lose records) |
| `student_o0` | violation | Unoptimized, compaction empties the table |
| `student_sort` | violation | Option 7 leaves roll numbers from MIN_ROLL (10000) on unsorted, where the comment and the menu say "sorted" |
| `block_file` | pass | Six blocks, three descriptors, four words the stack may hold: no block twice, the list is free and ends, `free_block` of whatever number changes neither header nor list |
| `block_free` | violation | `free_block` does not add the block |
| `sem_ring` | pass | Five kills, four restarts: `Turns` (which includes exclusion), and progress until the limit of an adjustment |
| `sem_lock` | pass | Three launches, four kills: exclusion, lock kept, no starvation |
| `shared_var` | pass | Four rounds of both programs in both builds, Ctrl-C at any moment, one kill: what a number may be off by (`Handover`), that both end (`HandsOver`, `InterruptEnds`), that the segment goes (`CleanedUp`). The exceptions are in the properties: unoptimized code can print the factorial of another number; a child that fails leaves the parent in its loop; Ctrl-C between `shmget` and its assignment leaves the segment |
| `counter` | pass | Up to three threads, three rounds, two slots: exact sums and at most m inside; the unlocked counter is anything from 2 up, at -O2 one or two sums; main ends unless m = 0 |
| `pipe` | pass | Up to two files, six bytes, a pipe of three, two kills: `Conserved`, `Complete`, and that both always end |
| `fork_sort` | pass | Up to four numbers, a status of three values: sorted while every index fits, and line r shows the r-th largest number of the input; a permutation always; on a terminal each line once and in order, into a file line r n-r+1 times |
| `collatz` | pass | Two runs, numbers that fit, do not end, are too long, or overflow 6 bits, memory behind the segment or none, two kills or failing calls: a run alone prints its own sequence and stays in its segment, and the name is gone in the end |

Three constants separate what the runs show from what fails outside of it, and each failure can be
seen by changing them. With `P1First` = FALSE a ring program started again may enter its section on what
SEM_UNDO gave back to its dead predecessor. With `Alone` = FALSE a second launch of sample.c sets
the semaphore to 1 again and two processes are in the section. In `BlockFile`
`get_freeblock()` runs out of descriptors and hands out a block it does not take from the list; the run
goes there, and `NoDoubleAllocation` and `ListIsFree` speak only of the time before.

### Bounds

- `MaxSlots` = 3: two records and a hole between or behind them, and three records
  to sort, are the smallest cases where compaction and sort have something to do.
  Rolls 1, 2, 3 with MinRoll 3 hold equal, ordered, and unsorted numbers; one name, as
  names are only copied. `MaxFds` = 3: after option 6 one descriptor is left, so option 0
  truncates the data file alone and the others fail at once. `MCLeftovers`: an offset no
  file has, and the offset of the first record.
- `MaxCrashes` = 2: a kill during the repair of what the first one left.
- N = 6 gives a list of three blocks and three unreachable ones; `MaxGets` = 3 empties it, or
  runs out of the three descriptors in between. `Reach` = 8 leaves room for the file to grow
  by one and two blocks; `MCLeftovers` has a number before the file, a block, a number past the end
  and one out of reach.
- `SemLimit` = 3 stands for 32767: large enough that p1 goes round three times, small
  enough that the limit is reached. Five kills are one more than it takes to end
  every program and one started again.
- Three launches with four kills: a launch after one that was killed in any state,
  with processes waiting.

- `SharedVar`: with four rounds each kind of neighbour (the first, the last, one between two
  others) occurs; one kill, since after two nobody is left.
- `Counter`: the smallest result of the race needs two rounds per thread, and one more shows that it
  does not grow; three threads on two slots wait for the slots and for the lock.
- `Pipe`: a chunk of 2 in a pipe of 3 leaves the pipe full with one byte of room, and six bytes fill
  it several times; two files, as the first may be missing, a directory, or empty.
- `ForkSort`: four numbers on three statuses: the last index does not fit. Three values for four places
  include equal numbers.
- `CollatzShm`: four cells hold the sequences of 2 and 4 with their -1; that of 7 is too long and leaves
  6 bits; 0 never ends. One number's room behind the segment is enough to read or write there, and a
  fault may still come at the next. Two runs are what one name needs to be shared.

The proofs hold for every value of these constants.

`CHECK_DEADLOCK FALSE` is given where the system may really stop: all programs of the
ring, or all launches, have ended; the record program does what C leaves undefined; the
threads, processes or runs have all ended, or wait for one that was killed.

### Fairness

- `StudentStore`: an option that has begun goes on. The process is scheduled and the user
  answers the prompts. Nothing is assumed of the menu: no option need ever be chosen.
- `SemRing`: every program is started and runs when it can. `RunsToLimit` needs no
  more: it says `kills > 0` or the limit is reached.
- `SemLock`: processes in the loop run when they can. Nothing forces a launch or a
  kill; the queue of the semaphore, not fairness, makes `EveryWaitEnds` true, since the
  parent asks again at once.

- `SharedVar`: both processes run, signals are delivered, the user types the name of a program.
- `Counter`: main and every thread that can go on is scheduled. The lock and the semaphore need
  no strong fairness for `Ends`: each thread takes them a bounded number of times.
- `Pipe`: both processes run. Nobody has to be killed.
- `ForkSort`, `CollatzShm`: no liveness; a number below 1 makes the child of the latter run past
  the end of the segment, and only a fault stops it.

## 4. Proofs

| Theorem | Statement | Inductive invariant |
|---|---|---|
| `StudentStoreProofs!TypeCorrect` | `Spec => []TypeOK` | `TypeInv`: types and `SlotsKnown`, what compaction and sort know of the lengths they index with |
| `StudentStoreProofs!HeaderCovers` | `Build # "O0" => (Spec => []HeaderCoversLive)` | `IInv`: plus the local count of an insertion or deletion against the files |
| `StudentStoreProofs!HangAfterCrash` | `Build # "O2" => (Spec => []HangNeedsCrash)` | `HInv`: until a kill the count is at most the live slots |
| `StudentStoreProofs!CountsStayEqual`, `RecordsStayDisjoint`, `BuffersFit` | `Spec => []CountsAgree`, `[]RecordsDisjoint`, and that compaction then has room for all it reads; in every build, for every limit | `EInv`: while not `torn`, in every step of every option, what the counts, the first cell, the offsets and the length of the data file are |
| `StudentStoreProofs!StoredRecordsSurvive` | `Spec => RecordsSurvive` | `SInv`: a data file that is not empty starts with a count; an exchange has one offset twice |
| `StudentStoreProofs!CompactionAlwaysPacks` | `Build # "O0" => (Spec => CompactionPacks)` | `PackInv`: what compaction holds in memory is packed and its offsets come first, whatever files it read |
| `StudentStoreProofs!SortAlwaysOrders` | `Spec => []SortedAtEnd`: numbers below MIN_ROLL come first and ascend | `SortInv`: before the loop index each slot has its final place, and what is read is there |
| `StudentStoreProofs!TableImplemented` | `Build # "O0" => (Spec => ImplementsTable)`, for any number of kills and any limit | `RInv`: `EInv` and the types of the roll numbers that are being moved |
| `StudentStoreProofs!WorkEnds`, `LoopsNeedTorn` | `WorkShrinks` for every option; `Spec => [](Loops => torn)`, `Loops` the two ends `OptionsReturn` excepts | `TypeInv`; `EInv` |
| `FileMemoryProofs!TypeCorrect`, `NeverTwice`, `FreeKeepsList`, `ListStaysFree` | `[]TypeOK`, `[]NoDoubleAllocation`, `FreeLeavesList`, `[]ListIsFree`, whatever the stack holds | `Chained` (blocks from the first free one on are linked in steps of two), `NoneLinkedToNext`, `Untaken` |
| `FileMemoryProofs!ShmTypeCorrect`, `PrintsSequence`, `StaysInSegment`, `NameIsGone` | `ShmSpec => []ShmTypeOK`, `[]Printed`, `[]InSegment`, `[]NameGone` | `ShmInv`: where parent and child may be together, `Writes`, `Apart`, `InMemory`, `EitherCell`, `Reads`, `NameKept` |
| `SemRingProofs!TypeCorrect` | `Spec => []TypeOK` | with `AtInLoop` |
| `SemRingProofs!Exclusion` | `OneRing => (Spec => []MutualExclusion)` | below |
| `SemRingProofs!Implements` | `OneRing => (Spec => TakesTurns)` | with `LastOK` |
| `SemRingProofs!NeverStuck`, `LastsToLimit` | `Spec => [](Unharmed => CanGoOn)`, `Spec => FailsAtLimit` | `RoundInv`: until a program ends the ring is at one of eight stages of round r, with the values of all adjustments |
| `SemRingProofs!WorkEnds` | `Spec => WorkShrinks` | types: `Left(p)` is how far the adjustments of p are from where a call fails |
| `SemLockProofs!TypeCorrect`, `Exclusion`, `LockKept` | under `Alone`: `[]TypeOK`, `[]MutualExclusion`, `[]LockNotLost` | `Good`: value, queue, adjustments and states fit |
| `SemLockProofs!NobodyPassedOver` | `Alone => (Spec => HandsLockOn)` | `Pair`: those alive are of one launch |
| `SharedVarProofs!TypeCorrect`, `HandsOverInOrder`, `RemovesSegment` | `[]TypeOK`, `[]Handover`, `[]CleanedUp` | `Ahead`: `flag` is set exactly when the parent is one number ahead of the child |
| `SharedVarProofs!NeverStuck`, `WorkEnds` | `[](AllEnded \/ CanGoOn \/ (~interrupted /\ (Deserted \/ Orphaned)))`, `WorkShrinks` | `LiveInv`: `TogetherOK` (who is there with whom), `TakingOK` (the child ends with the last number), `SignalsOK` (whoever is alive after Ctrl-C has a signal) |
| `SharedVarProofs!EndsAccounted` | `[](AllEnded => Accounted)`: the ends `HandsOver` names | `LiveInv` and `Childless` |
| `CounterProofs!TypeCorrect`, `LockKeeps`, `Prints` | `[]TypeOK`, `[]NothingLost`, `[]PrintedRight` | who is inside has the lock and a current `tmp`; without a lock, how small a value a thread can still store |
| `CounterProofs!NeverStuck`, `WorkEnds` | `[](main = "over" \/ CanGoOn \/ (mode = "loop" /\ slots = 0 /\ threads > 0))`, `WorkShrinks` | the same |
| `PipeProofs!TypeCorrect`, `LosesNothing`, `EndsComplete` | `[]TypeOK`, `[]Conserved`, `[]Complete` | `EndsOK` (who has which end), `PlaceOK` (where the parent is in the files), `DoneOK` |
| `PipeProofs!NeverStuck`, `WorkEnds` | `[](BothOver \/ CanGoOn)`, `WorkShrinks` | the same |
| `ForkSortProofs!TypeCorrect`, `SortsArray` | `[]TypeOK`, `[]Sorted` | `WorkOK`: the status is the index of the largest, when it fits |
| `ForkSortProofs!PrintsRight` | `[]Printed` | `PrintInv`: which lines the buffer of each process and the output hold; `Late`: a line is printed only once its place is final |

- `HeaderCovers`: the count written before a slot is one more, the count written after
  a deleted slot is one less than it was, so at every moment it covers the live slots.
  Unoptimized code is excluded: there compaction's `n` is what a stray read left.
- `HangAfterCrash` has the hypothesis because compaction in the build O2 can fail between a new
  count and its slots, without a kill.
- `CountsStayEqual` and its companions: modify writes both its counts behind the records, so the first
  cell is right only after both of its halves, and each lost cell leaves a hole that later offsets
  step over. `EInv` says by how much the counts differ at each step, and that a record being
  written has the end of the file to itself. The condition is `torn`, which is part of the state: an
  option that ends half-way, by a kill or because a call failed, breaks all three until the files
  are initialized again, and no other sequence of options does.
- `StoredRecordsSurvive` holds in every build and after any kills: a count is written over the first cell
  or behind the last, and no offset ever points to the first.
- `CompactionAlwaysPacks` is about any files, also those after a kill, where the offsets written
  may be more than there are records: the records are whole and packed, and those offsets come
  first. `SortAlwaysOrders` likewise: the least of the slots from i on is put in place i, so one
  exchange per slot is enough; a slot that points at no cell makes `index_of_min` exit. A kill in
  either costs records, as the run says.
- `TableImplemented`: the table is a function of the live slots and the cells they point to. Its row j
  comes from the j-th live slot (`Nth`, a CHOOSE that lemmas show to exist and to be unique), so for each
  way the files change (a slot added, one marked, two exchanged, a record rewritten, everything packed)
  one lemma says what becomes of the table, and the proof of a step cites one of them. An option that ends
  half-way is itself a step of `StudentTable`, to "broken", and initialization is the way back; of
  the table in between nothing is promised.
- `NeverTwice`: what `get_freeblock` does to links is only below the first free block; the
  list above it is the fresh chain, and nobody has a block of it. Re-initialization
  (also one that is killed) rewrites the same chain.
- `ListStaysFree` follows the links of the fresh chain. That the walk ends, for every N, is an
  induction: the least number of steps after which the walk left the chain does not exist (`LeastNatural`,
  from the well-foundedness of <).
- `FreeKeepsList`: every link is a block or the end mark, none is that to the block right behind it, and
  the last is the end mark (`NoneLinkedToNext`); so `Relinked` is empty for a block, and its walk down from
  behind the end of the file stops before the links.
- `PrintsSequence`, `StaysInSegment`: a child is where its sequence is (`Writes`), so its int never overflows and the segment
  never ends under it, if its number is in range; no guard of the model keeps it there. Until two runs are together no segment is used by both
  (`Apart`), so a parent reads what its child wrote (`InMemory`), the end too, and stops there (`Reads`),
  whatever an earlier run left behind. Once they are together a cell holds 0 or a number that one of the
  two writes at that place (`EitherCell`). `Terms` is a recursive function over the cells; that there is
  one is an induction on the length (`SetInduction`), and that it ends somewhere first takes `LeastNatural`.
- `NameIsGone`: while there is a name, the child of some run that opened it is still to remove it
  (`NameKept`), as without a kill or failure every run that has opened the name forks.
- `Exclusion` of the ring: semaphore s is acquired by one program, `Consumer(s)`. A token
  is a semaphore at 1 whose consumer can still take it. There is at most one token,
  none while a section is occupied, and what the system gives back to a dead consumer
  nobody can take. `OneRing` is `P1First \/ MaxRestarts = 0`: without it exclusion fails.
- `Implements`: the initial states map to those of `Turns`, each step to a step or a
  stutter; the fairness of `Spec` is not used, `Turns` promises safety only.
- `NeverStuck` of the ring: at each stage one program, `Mover`, finds its semaphore at 1. `LastsToLimit`
  compares the adjustments at a stage: that of p1 on the semaphore it takes is never smaller than another
  one, and reaches the limit a call earlier. After an end of a program the ring may stop; that is
  `RunsToLimit`'s `kills > 0`.
- The lock: `Settle` keeps `Good` once and for all, and V, SETVAL and the end of a process
  all go through it.

- `EndsComplete`: the child sees the end only when nobody writes, so the parent has ended; it ends
  by itself only when it is through with the files before the first missing one, and by
  SIGPIPE only when the child is dead.
- `SortsArray`: that a largest number exists is an induction over the length, done on the set of lengths
  for which it does (`SetInduction`, from the well-foundedness of <). A swap composes the permutation
  with a transposition.

- `PrintsRight`: that line r shows the r-th largest of the input is counted: the array is the input
  composed with a bijection (`Bijects`), places up to r are final when r is printed (`Late`), and so the
  numbers greater than the one printed are fewer than r, and those at least as great r or more
  (`FrontRanked`). A process that is forked takes along what its parent has not written yet, so the process
  of rank r has the lines of the ranks up to r, each once. In a file, line i appears once for each process
  of a rank from i on that has ended; when all have, that is what `Printed` counts.
- `NobodyPassedOver`: alone, at most the two processes of one launch are alive, so when one waits and the
  other leaves the section, `Settle` finds the queue with one process in it. The parent, which asks
  again at once, has to wait in turn.
- `NeverStuck` and `WorkEnds` of `Counter`, `Pipe`, `SharedVar` and `SemRing`, and `WorkEnds` and
  `LoopsNeedTorn` of `StudentStore`, are the two halves of their liveness that are safety. `CanGoOn` is the guards of `Next` (or of the actions `Fairness`
  is about) written out; TLC has compared it with ENABLED. `Work` is a natural number that every step (in
  the store: every step of an option) makes smaller: a byte is worth more in its file than in the buffer
  and more there than in the pipe; a round of a thread is worth its six steps. So no behaviour has
  infinitely many steps, and it can only stop where nobody can go on.
  - `SharedVar`: a round is worth three steps of the parent and four of the child. `NeverStuck` needs that flag
    says whose turn it is (`Ahead`), and that the child does not end before the last number. Its
    exceptions are what the code does: a parent whose child was lost goes round its loop for ever, and so
    does a child whose parent was killed from outside; after Ctrl-C neither is left behind.
  - `SemRing`: the adjustments of SEM_UNDO move one way only with each call of a program, so the room up to
    the limit is used up; SETALL gives the room back, once in the life of p1. The model bounds how often
    programs are started, not the code; a ring that is not interfered with ends at the limit.
  - `StudentStore`: a sort has at most two steps for each slot it has not looked at. `WorkEnds` counts the
    steps up to the menu, to an endless search ("hang") or to "undefined"; `LoopsNeedTorn` says that
    the last two come only after an option that ended half-way.

Assumptions are the named ASSUMEs of the modules; TLC evaluates them in every run.
Nothing else is taken on trust.

Only model-checked:

- Liveness (`OptionsReturn`, `RunsToLimit`, `EveryWaitEnds`, `InterruptEnds`, `HandsOver`, `Ends`,
  `BothEnd`), which the prover does not handle. Of all but `EveryWaitEnds` only the use of fairness is left
  to TLC, see `NeverStuck`, `WorkEnds` and
  `EndsAccounted` above; of `EveryWaitEnds`, that the holder goes on, see
  `NobodyPassedOver` and `LockKept`. That `CanGoOn` is ENABLED is checked by TLC alone.

## 5. Not modelled

- as2_1.c, as2_4.c, as2_5.c, as3, as6_17feb/sample.c, as7_10mar/prob1.c: see the inventory.
- The composition of `SemLock` and `SemRing` on the key they share: it needs both to be started in one
  directory, and semget() of the ring then fails or SETVAL sets its first semaphore.
- The record store in the build "O2" is a value of `Build` but not a run: where its stray store falls
  depends on the sizes typed.
- A longer destination file in pipes.c, which keeps its tail: the copy is counted, not laid out.
- What is printed, except where a property is about it (`SharedVar`, `Counter`, `ForkSort`, `CollatzShm`).

Worth proving next: which records of the record store are still in its table after an option that
ended half-way, and which ends lose which.
