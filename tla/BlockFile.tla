----------------------------- MODULE BlockFile ------------------------------
(***************************************************************************)
(* The file of blocks of assignments/as7_10mar/as7.c: a header with the    *)
(* first free block, and in the last word of every block the number of the *)
(* next free one.  main() is empty, so the callers are any that follow the *)
(* comments on the functions: a process initializes the file, takes blocks *)
(* and frees blocks it has taken, ends, and another goes on with the file. *)
(***************************************************************************)
EXTENDS Integers, FiniteSets

CONSTANTS
    N,          \* n, the number of blocks
    Reach,      \* the last block whose offset fits an int
    Leftovers,  \* ints an uninitialized variable may hold
    MaxFds,     \* descriptors a process may open
    MaxGets     \* bound: blocks taken from one initialization to the next

ASSUME NAssumption      == N \in Nat \ {0} /\ N % 2 = 0
ASSUME ReachAssumption  == Reach \in Nat /\ Reach >= N
ASSUME StackAssumption  == Leftovers \subseteq Int
ASSUME FdsAssumption    == MaxFds \in Nat
ASSUME BoundsAssumption == MaxGets \in Nat

VARIABLES
    hdr,        \* the header in the file
    link,       \* the last word of the header and of each block the file has
    buf,        \* the static buffer of the process
    fds,        \* descriptors the process has opened and not closed
    state,      \* of the process: it is between calls, or loops for ever
    owners,     \* ghost: how many callers hold a number as their block
    gets,       \* ghost: blocks taken since the file was initialized
    exhausted   \* ghost: a process has run out of descriptors

disk == <<hdr, link>>
vars == <<hdr, link, buf, fds, state, owners, gets, exhausted>>

Blocks  == 0..(N - 1)
End     == -1                   \* ends the list of free blocks
Regions == -1..(N - 2)          \* the header is region -1; block N-1 has no
                                \* link: the file ends before it
Headers == [ubn : Int, fbn : Int, ffb : Blocks \cup {End}]
Numbers == Blocks \cup (Leftovers \ {End})     \* what get_freeblock() may return
Buffers == [ubn : Int, fbn : Int, ffb : Numbers \cup {End}]

Zeros == [ubn |-> 0, fbn |-> 0, ffb |-> 0]

(* Mutant: the last block is linked to the first. *)
RingLinks == [r \in Regions |-> IF r = N - 2 THEN 0 ELSE r + 2]

(* i goes to the last word before block i-1, that is of block i-2: the     *)
(* links are one region early and skip every second block.                 *)
FreshLinks == [r \in Regions |-> IF r = N - 2 THEN End ELSE r + 2]

(* Mutant: one descriptor more than there are. *)
OpensOneMore == fds <= MaxFds

Opens == fds < MaxFds

(* init_File_dd() fills buf with the header but writes only the links, and *)
(* returns 0 whatever happens.                                             *)
InitFile ==
    /\ state = "ready"
    /\ buf' = [ubn |-> 0, fbn |-> N, ffb |-> 0]
    /\ IF Opens
       THEN /\ link' = [r \in DOMAIN link |-> IF r \in Regions THEN FreshLinks[r] ELSE link[r]]
            /\ owners' = [b \in Numbers |-> 0] /\ gets' = 0
       ELSE UNCHANGED <<link, owners, gets>>
    /\ UNCHANGED <<hdr, fds, state, exhausted>>

(* The process is killed in init_File_dd(): the first links are written.   *)
InitKilled ==
    /\ state = "ready" /\ Opens
    /\ \E m \in Regions : link' = [r \in DOMAIN link |-> IF r < m THEN FreshLinks[r] ELSE link[r]]
    /\ buf' = Zeros /\ fds' = 0
    /\ UNCHANGED <<hdr, state, owners, gets, exhausted>>

(* Mutant: next_fb is not stored in the header. *)
GetFreeblockForgets ==
    /\ state = "ready" /\ Opens /\ hdr.ffb # End /\ gets < MaxGets
    /\ hdr' = [hdr EXCEPT !.ubn = @ + 1, !.fbn = @ - 1]
    /\ buf' = hdr'
    /\ owners' = [owners EXCEPT ![hdr.ffb] = @ + 1]
    /\ gets' = gets + 1
    /\ fds' = fds + 1
    /\ UNCHANGED <<link, state, exhausted>>

(* get_freeblock(): the first block of the list goes to the caller, and    *)
(* every block before it, free or not, is linked to the next one.  The     *)
(* return is before the close().                                           *)
GetFreeblock ==
    /\ state = "ready" /\ Opens /\ hdr.ffb # End /\ gets < MaxGets
    /\ LET next == link[hdr.ffb]
       IN  /\ hdr' = [ubn |-> hdr.ubn + 1, fbn |-> hdr.fbn - 1, ffb |-> next]
           /\ link' = [r \in DOMAIN link |-> IF r \in 0..(hdr.ffb - 1) THEN next ELSE link[r]]
    /\ buf' = hdr'
    /\ owners' = [owners EXCEPT ![hdr.ffb] = @ + 1]
    /\ gets' = gets + 1
    /\ fds' = fds + 1
    /\ UNCHANGED <<state, exhausted>>

(* The list is empty: -1, and the file stays open too.                     *)
GetNothing ==
    /\ state = "ready" /\ Opens /\ hdr.ffb = End
    /\ buf' = hdr
    /\ fds' = fds + 1
    /\ UNCHANGED <<hdr, link, state, owners, gets, exhausted>>

(* open() failed and every read() and write() fails with it: buf holds the *)
(* header of the last call, and next_fb is what is on the stack.  So the   *)
(* number a later call returns may be of no block of the file.             *)
GetUnopened ==
    /\ state = "ready" /\ ~Opens
    /\ exhausted' = TRUE
    /\ IF buf.ffb = End
       THEN UNCHANGED <<buf, owners, gets>>
       ELSE /\ gets < MaxGets
            /\ \E next \in Leftovers :
                 buf' = [ubn |-> buf.ubn + 1, fbn |-> buf.fbn - 1, ffb |-> next]
            /\ owners' = [owners EXCEPT ![buf.ffb] = @ + 1]
            /\ gets' = gets + 1
    /\ UNCHANGED <<hdr, link, fds, state>>

(* The process is killed in get_freeblock(): some links are written, the   *)
(* header is not.                                                          *)
GetKilled ==
    /\ state = "ready" /\ Opens /\ hdr.ffb # End
    /\ \E m \in 0..hdr.ffb :
         link' = [r \in DOMAIN link |-> IF r \in 0..(m - 1) THEN link[hdr.ffb] ELSE link[r]]
    /\ buf' = Zeros /\ fds' = 0
    /\ UNCHANGED <<hdr, state, owners, gets, exhausted>>

(* Mutant: the block before bno is linked past it without a look. *)
RelinkedBlind(bno, at) == {r \in DOMAIN link : r = at - 1}

(* Where free_block() looks for block bno: its offset is computed in an    *)
(* int, which overflows for the numbers out of reach.                      *)
Places(bno) == IF bno \in -Reach..Reach THEN {bno} ELSE -Reach..Reach

(* Behind the end of the file read() leaves nfb as it was, equal to bno.   *)
PastEnd(r) == r >= 0 /\ r \notin DOMAIN link

(* The regions free_block() writes, from the one before bno down: the      *)
(* first if it is behind the end of the file, and those linked to bno.     *)
(* Before the header lseek() fails, and read() finds a zero of block 0.    *)
Relinked(bno, at) ==
    {r \in -1..(at - 1) :
        \A s \in r..(at - 1) : (s \in DOMAIN link /\ link[s] = bno) \/ (s = at - 1 /\ PastEnd(s))}

(* The links when next is written into these regions; what the file grows  *)
(* by reads as zero.                                                       *)
LinksWith(regions, next) ==
    [r \in DOMAIN link \cup UNION {0..s : s \in regions} |->
        IF r \in regions THEN next ELSE IF r \in DOMAIN link THEN link[r] ELSE 0]

(* What it writes there: nnfb, the link of block bno, or the stack's word  *)
(* for a block the file has not.                                           *)
NextNext(at) == IF at \in DOMAIN link THEN {link[at]}
                ELSE IF at < 0 THEN {0} ELSE Leftovers

(* free_block(): the counts change in buf only, and what is linked to bno  *)
(* is linked past it.                                                      *)
FreeBlock(bno) ==
    /\ state = "ready" /\ Opens /\ owners[bno] > 0
    /\ buf' = [hdr EXCEPT !.ubn = @ - 1, !.fbn = @ + 1]
    /\ \E at \in Places(bno) : \E nnfb \in NextNext(at) :
         link' = LinksWith(Relinked(bno, at), nnfb)
    /\ owners' = [owners EXCEPT ![bno] = @ - 1]
    /\ fds' = fds + 1
    /\ UNCHANGED <<hdr, state, gets, exhausted>>

(* The process is killed in free_block(): the first regions are written.   *)
FreeKilled(bno) ==
    /\ state = "ready" /\ Opens /\ owners[bno] > 0
    /\ \E at \in Places(bno) : \E nnfb \in NextNext(at), m \in Relinked(bno, at) :
         link' = LinksWith({r \in Relinked(bno, at) : r >= m}, nnfb)
    /\ buf' = Zeros /\ fds' = 0
    /\ UNCHANGED <<hdr, state, owners, gets, exhausted>>

(* Without the file nfb keeps its first value, bno, and the loop goes on.  *)
FreeUnopened(bno) ==
    /\ state = "ready" /\ ~Opens /\ owners[bno] > 0
    /\ state' = "loops" /\ exhausted' = TRUE
    /\ buf' = [buf EXCEPT !.ubn = @ - 1, !.fbn = @ + 1]
    /\ UNCHANGED <<hdr, link, fds, owners, gets>>

(* The process ends, of itself or killed, and another one goes on.         *)
Restart ==
    /\ buf' = Zeros /\ fds' = 0 /\ state' = "ready"
    /\ UNCHANGED <<hdr, link, owners, gets, exhausted>>

(* The file after its first init_File_dd(): the header is a hole, zeros.   *)
Init ==
    /\ hdr = Zeros
    /\ link = FreshLinks
    /\ buf = [ubn |-> 0, fbn |-> N, ffb |-> 0]
    /\ fds = 0 /\ state = "ready"
    /\ owners = [b \in Numbers |-> 0] /\ gets = 0 /\ exhausted = FALSE

Next ==
    \/ InitFile \/ InitKilled
    \/ GetFreeblock \/ GetNothing \/ GetUnopened \/ GetKilled
    \/ \E bno \in Numbers : FreeBlock(bno) \/ FreeKilled(bno) \/ FreeUnopened(bno)
    \/ Restart

Spec == Init /\ [][Next]_vars

-----------------------------------------------------------------------------
(* Properties.                                                             *)

TypeOK ==
    /\ hdr \in Headers
    /\ \E last \in (N - 2)..Reach : link \in [-1..last -> Int]
    /\ buf \in Buffers
    /\ fds \in 0..MaxFds
    /\ state \in {"ready", "loops"}
    /\ owners \in [Numbers -> Nat]
    /\ gets \in Nat
    /\ exhausted \in BOOLEAN

(* The list from ffb on: after k links, and the blocks in it.              *)
Chain[k \in 0..N] ==
    IF k = 0 THEN hdr.ffb
    ELSE IF Chain[k - 1] = End THEN End ELSE link[Chain[k - 1]]

FreeList == {Chain[k] : k \in 0..N} \ {End}

(* As long as no process has run out of descriptors, no block is given out *)
(* to a second caller, whatever is freed, killed or initialized again      *)
(* (get_freeblock).                                                        *)
NoDoubleAllocation == ~exhausted => \A b \in Blocks : owners[b] <= 1

(* The list in the file is without a cycle and holds no block that a       *)
(* caller has, also when a call was killed between its writes: the next    *)
(* blocks to be given out are free (get_freeblock, free_block).            *)
ListIsFree ==
    ~exhausted => /\ Chain[N] = End
                  /\ \A b \in FreeList : owners[b] = 0

(* Whatever number a caller frees, also one that get_freeblock() took from *)
(* an uninitialized variable, free_block() changes neither the header nor  *)
(* the links of a block: for a block it writes nothing at all, for another *)
(* number at most behind the last block (free_block).                      *)
FreeLeavesList ==
    [][\A b \in Numbers : FreeBlock(b) \/ FreeKilled(b) =>
          /\ hdr' = hdr
          /\ \A r \in Regions : link'[r] = link[r]
          /\ b \in Blocks => link' = link]_vars

(* What the comment on free_block() says: the block is added to the list   *)
(* (as7.c:70).                                                             *)
FreeAddsBlock == [][\A b \in Blocks : FreeBlock(b) => b \in FreeList']_vars
=============================================================================
