----------------------------- MODULE CollatzShm -----------------------------
(***************************************************************************)
(* ipc/shared_memory.c: a child writes the Collatz sequence of a number    *)
(* into shared memory, its parent waits for it and prints what is there up *)
(* to -1.  The memory has one name for all runs of the program: here two   *)
(* runs, together or one after the other.                                  *)
(*                                                                         *)
(* A segment lives on without its name for those who have it mapped.       *)
(* Nothing in the program looks where it ends.  The page behind it may be  *)
(* another one of the process: then a store changes what is there, and the *)
(* parent prints what it finds; or it is none, and they fault.             *)
(***************************************************************************)
EXTENDS Integers, Sequences

CONSTANTS
    Inputs,         \* numbers a user types
    Size,           \* numbers in a segment: 1024
    Half,           \* numbers below 0 that an int has: 2^31
    Behind,         \* numbers there may be memory for behind a segment
    Outside,        \* what the parent may find there
    MaxKills        \* bound: processes killed from outside, calls that fail

ASSUME SizeAssumption  == Size \in Nat \ {0} /\ Half \in Nat \ {0} /\ MaxKills \in Nat
ASSUME InputAssumption == Inputs \subseteq -Half .. Half - 1
ASSUME OutAssumption   == Behind \in Nat /\ Outside \subseteq -Half .. Half - 1

Runs  == {1, 2}
Cells == 0 .. Size - 1
Past  == Size .. Size + Behind - 1
Ints  == -Half .. Half - 1

VARIABLES
    input,              \* argv[1] of each run
    name,               \* the segment of the name, 0 for none
    made,               \* how many segments have been made
    mem,                \* the segments
    seg,                \* the one each run has mapped
    parent, child,      \* what they do next
    n, put,             \* of the child: the number, where it goes
    get,                \* of the parent: where it reads
    printed,
    together,           \* ghost: a run opened the memory another one was using
    broken              \* kills, and calls that failed

objects == <<name, made, mem>>
numbers == <<n, put>>
ghosts  == <<together, broken>>
shmVars == <<input, objects, seg, parent, child, numbers, get, printed, ghosts>>

Set(f, r, to) == [f EXCEPT ![r] = to]

-----------------------------------------------------------------------------
(* The sequence.                                                           *)

(* Mutant: more bits than an int has. *)
WrapNot(v) == v

(* 3 * n + 1 in an int, as the build computes it.                          *)
Wrap(v) == ((v + Half) % (2 * Half)) - Half

Collatz(v) == IF v % 2 = 0 THEN v \div 2 ELSE Wrap(3 * v + 1)

(* *ptr2 = v: into the segment; past its end, into other memory of the     *)
(* child; or a fault.                                                      *)
Store(r, v, to) ==
    \/ /\ put[r] \in Cells
       /\ mem' = [mem EXCEPT ![seg[r]][put[r]] = v]
       /\ put' = Set(put, r, put[r] + 1) /\ child' = Set(child, r, to)
    \/ /\ put[r] \in Past
       /\ put' = Set(put, r, put[r] + 1) /\ child' = Set(child, r, to) /\ UNCHANGED mem
    \/ /\ put[r] \notin Cells
       /\ child' = Set(child, r, "fault") /\ UNCHANGED <<mem, put>>

-----------------------------------------------------------------------------
(* main(): shm_open(), ftruncate() and mmap().                             *)

InUse(r) == parent[r] \in {"fork", "wait", "print", "unlink"} \/ child[r] \in {"loop", "end", "unlink"}

Open(r) ==
    /\ parent[r] = "open"
    /\ \/ name = 0 /\ made' = made + 1 /\ name' = made'
       \/ name # 0 /\ UNCHANGED <<made, name>>
    /\ seg' = Set(seg, r, name') /\ parent' = Set(parent, r, "fork")
    /\ together' = (together \/ \E q \in Runs \ {r} : InUse(q) /\ seg[q] = name')
    /\ UNCHANGED <<input, mem, child, numbers, get, printed, broken>>

(* Each of the three may fail, the last two when the name is there.        *)
OpenFails(r) ==
    /\ parent[r] = "open" /\ broken < MaxKills
    /\ \/ UNCHANGED <<made, name>>
       \/ name = 0 /\ made' = made + 1 /\ name' = made'
    /\ parent' = Set(parent, r, "ended") /\ broken' = broken + 1
    /\ UNCHANGED <<input, mem, seg, child, numbers, get, printed, together>>

Fork(r) ==
    /\ parent[r] = "fork"
    /\ parent' = Set(parent, r, "wait") /\ child' = Set(child, r, "loop")
    /\ n' = Set(n, r, input[r])
    /\ UNCHANGED <<input, objects, seg, put, get, printed, ghosts>>

(* Then neither branch is taken, and the name stays.                       *)
ForkFails(r) ==
    /\ parent[r] = "fork" /\ broken < MaxKills
    /\ parent' = Set(parent, r, "ended") /\ broken' = broken + 1
    /\ UNCHANGED <<input, objects, seg, child, numbers, get, printed, together>>

(* Mutant: the name stays. *)
UnlinkNot == name' = name

(* shm_unlink(): whatever segment the name has by now.                     *)
Unlink == name' = 0

-----------------------------------------------------------------------------
(* The child.                                                              *)

Loop(r) ==
    /\ child[r] = "loop" /\ n[r] # 1
    /\ Store(r, n[r], "loop")
    /\ n' = Set(n, r, Collatz(n[r]))
    /\ UNCHANGED <<input, name, made, seg, parent, get, printed, ghosts>>

StoreOne(r) ==
    /\ child[r] = "loop" /\ n[r] = 1
    /\ Store(r, 1, "end")
    /\ UNCHANGED <<input, name, made, seg, parent, n, get, printed, ghosts>>

(* Mutant: the -1 is not stored. *)
StoreEndNot(r) ==
    /\ child[r] = "end" /\ child' = Set(child, r, "unlink")
    /\ UNCHANGED <<input, objects, seg, parent, numbers, get, printed, ghosts>>

StoreEnd(r) ==
    /\ child[r] = "end"
    /\ Store(r, -1, "unlink")
    /\ UNCHANGED <<input, name, made, seg, parent, n, get, printed, ghosts>>

(* What it has overwritten behind the segment makes the child crash later. *)
Corrupted(r) ==
    /\ child[r] \in {"loop", "end", "unlink"} /\ put[r] > Size
    /\ child' = Set(child, r, "fault")
    /\ UNCHANGED <<input, objects, seg, parent, numbers, get, printed, ghosts>>

ChildUnlink(r) ==
    /\ child[r] = "unlink" /\ child' = Set(child, r, "ended")
    /\ Unlink
    /\ UNCHANGED <<input, made, mem, seg, parent, numbers, get, printed, ghosts>>

-----------------------------------------------------------------------------
(* The parent.                                                             *)

(* Mutant: the child is not waited for. *)
WaitpidNot(r) ==
    /\ parent[r] = "wait"
    /\ parent' = Set(parent, r, "print")
    /\ UNCHANGED <<input, objects, seg, child, numbers, get, printed, ghosts>>

Waitpid(r) ==
    /\ parent[r] = "wait" /\ child[r] \in {"ended", "fault", "killed"}
    /\ parent' = Set(parent, r, "print")
    /\ UNCHANGED <<input, objects, seg, child, numbers, get, printed, ghosts>>

(* d = *ptr: of the segment, and past its end what else is mapped there.   *)
Found(r) == IF get[r] \in Cells THEN {mem[seg[r]][get[r]]}
            ELSE IF get[r] \in Past THEN Outside ELSE {}

PrintNumber(r) ==
    /\ parent[r] = "print"
    /\ \/ \E d \in Found(r) \ {-1} :
            /\ printed' = Set(printed, r, Append(printed[r], d))
            /\ get' = Set(get, r, get[r] + 1) /\ parent' = parent
       \/ /\ -1 \in Found(r)
          /\ parent' = Set(parent, r, "unlink") /\ UNCHANGED <<get, printed>>
       \/ /\ get[r] \notin Cells
          /\ parent' = Set(parent, r, "fault") /\ UNCHANGED <<get, printed>>
    /\ UNCHANGED <<input, objects, seg, child, numbers, ghosts>>

ParentUnlink(r) ==
    /\ parent[r] = "unlink" /\ parent' = Set(parent, r, "ended")
    /\ Unlink
    /\ UNCHANGED <<input, made, mem, seg, child, numbers, get, printed, ghosts>>

-----------------------------------------------------------------------------
Killable == {"open", "fork", "wait", "print", "loop", "end", "unlink"}

KillParent(r) ==
    /\ parent[r] \in Killable /\ broken < MaxKills
    /\ parent' = Set(parent, r, "killed") /\ broken' = broken + 1
    /\ UNCHANGED <<input, objects, seg, child, numbers, get, printed, together>>

KillChild(r) ==
    /\ child[r] \in Killable /\ broken < MaxKills
    /\ child' = Set(child, r, "killed") /\ broken' = broken + 1
    /\ UNCHANGED <<input, objects, seg, parent, numbers, get, printed, together>>

-----------------------------------------------------------------------------
ShmInit ==
    /\ input \in [Runs -> Inputs]
    /\ name = 0 /\ made = 0 /\ mem = [s \in Runs |-> [c \in Cells |-> 0]]
    /\ seg = [r \in Runs |-> 0]
    /\ parent = [r \in Runs |-> "open"] /\ child = [r \in Runs |-> "none"]
    /\ n = [r \in Runs |-> 0] /\ put = [r \in Runs |-> 0] /\ get = [r \in Runs |-> 0]
    /\ printed = [r \in Runs |-> <<>>]
    /\ together = FALSE /\ broken = 0

Child(r)  == Loop(r) \/ StoreOne(r) \/ StoreEnd(r) \/ ChildUnlink(r) \/ Corrupted(r)
Parent(r) ==
    \/ Open(r) \/ OpenFails(r) \/ Fork(r) \/ ForkFails(r)
    \/ Waitpid(r) \/ PrintNumber(r) \/ ParentUnlink(r)

ShmNext == \E r \in Runs : Child(r) \/ Parent(r) \/ KillParent(r) \/ KillChild(r)

ShmSpec == ShmInit /\ [][ShmNext]_shmVars

-----------------------------------------------------------------------------
(* Properties.                                                             *)

Active  == {"open", "fork", "wait", "print", "unlink", "loop", "end"}
Stopped == {"ended", "fault", "killed"}

ShmTypeOK ==
    /\ input \in [Runs -> Inputs] /\ name \in 0..made /\ made \in 0..2
    /\ mem \in [Runs -> [Cells -> Ints]] /\ seg \in [Runs -> 0..made]
    /\ parent \in [Runs -> Active \cup Stopped]
    /\ child \in [Runs -> Active \cup Stopped \cup {"none"}]
    /\ n \in [Runs -> Ints] /\ put \in [Runs -> 0..Size + Behind] /\ get \in [Runs -> 0..Size + Behind]
    /\ printed \in [Runs -> Seq(Ints)] /\ \A r \in Runs : Len(printed[r]) = get[r]
    /\ together \in BOOLEAN /\ broken \in 0..MaxKills

(* What should be in the memory: the sequence in whole numbers, from v to  *)
(* 1, and -1.  A number is in range when all of it fits int and memory.    *)
Terms(v) ==
    LET t[c \in Cells] ==
            IF c = 0 THEN v
            ELSE LET p == t[c - 1] IN
                 IF p \in {1, -1} THEN -1 ELSE IF p % 2 = 0 THEN p \div 2 ELSE 3 * p + 1
    IN t

InRange(v) ==
    /\ v >= 1
    /\ \E c \in Cells : Terms(v)[c] = -1 /\ \A d \in 0 .. c : Terms(v)[d] \in Ints

(* A run prints its own sequence in whole, if its number is in range and   *)
(* its child was not killed, whatever an earlier run left in the memory;   *)
(* with another run in the memory at the same time some numbers may be the *)
(* other one's, each at its own place, or zeros behind its own end, as far *)
(* as it reads in the segment (shared_memory.c:12-25, 58-82).              *)
EndOf(v) == CHOOSE c \in Cells : Terms(v)[c] = -1 /\ \A d \in 0 .. c - 1 : Terms(v)[d] # -1

Own(r, j)    == j <= EndOf(input[r]) /\ printed[r][j] = Terms(input[r])[j - 1]
Others(r, j) == printed[r][j] \in {0, Terms(input[3 - r])[j - 1]}

Printed ==
    \A r \in Runs : InRange(input[r]) /\ child[r] # "killed" =>
        /\ \/ \A j \in 1 .. Len(printed[r]) : Own(r, j)
           \/ together /\ ~InRange(input[3 - r])
           \/ together /\ \A j \in 1 .. Len(printed[r]) :
                            j <= Size => Own(r, j) \/ Others(r, j)
        /\ parent[r] = "ended" /\ child[r] # "none" /\ ~together =>
              Len(printed[r]) = EndOf(input[r])

(* A child whose number is in range stays in the segment, and its parent   *)
(* too unless the child was killed or another run was in the memory: then  *)
(* it may pass the place where the -1 was or was to be.  No line of the    *)
(* program sees to it (shared_memory.c:14-25, 62, 74-80).                  *)
InSegment ==
    \A r \in Runs : InRange(input[r]) =>
        /\ put[r] <= Size /\ child[r] # "fault"
        /\ child[r] # "killed" /\ ~together => get[r] < Size /\ parent[r] # "fault"

(* When both runs are over the name is gone, although each may remove that *)
(* of the other, if no process was killed and no number was out of range   *)
(* (shared_memory.c:65, 85).                                               *)
NameGone ==
    (\A r \in Runs : parent[r] \in Stopped /\ child[r] \in Stopped /\ InRange(input[r])) /\ broken = 0
        => name = 0
=============================================================================
