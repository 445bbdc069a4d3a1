---------------------------- MODULE StudentStore ----------------------------
(***************************************************************************)
(* The student record program of assignments/as1/as1_os.c: a data file of  *)
(* records, an index file of their offsets, and a menu of options on them. *)
(*                                                                         *)
(* Every write() of the program, and every open() that truncates a file,   *)
(* is a step of its own, so that the process may be killed between any two *)
(* of them; what an option reads is read in the step that uses it, because *)
(* one process uses the files.  A file is modelled in cells: the count at  *)
(* its start, and in the data file the roll number, the name length and    *)
(* the name of a record, one write() and one cell each.  An offset is the  *)
(* number of cells before the one meant.                                   *)
(***************************************************************************)
EXTENDS Integers, Sequences, FiniteSets

CONSTANTS
    Rolls,      \* roll numbers a user types
    Names,      \* first names a user types, as numbers
    MinRoll,    \* MIN_ROLL, from which on roll numbers are not sorted
    Build,      \* how the compiler laid compaction() out: see StrayStore
    MaxFds,     \* descriptors a process may open
    Leftovers,  \* what memory may hold that nothing was written to
    MaxSlots,   \* bound: slots of the index file
    MaxCrashes  \* bound: times the process is killed

ASSUME RollsAssumption   == Rolls \subseteq Int /\ MinRoll \in Int
ASSUME NamesAssumption   == Names \subseteq Int
ASSUME BuildAssumption   == Build \in {"Os", "O2", "O0"}
ASSUME LeftoverAssumption == Leftovers \subseteq Int
ASSUME FdsAssumption     == MaxFds \in Nat \ {0, 1}
ASSUME BoundsAssumption  == MaxSlots \in Nat /\ MaxCrashes \in Nat

VARIABLES
    data,       \* the cells of the data file
    hdr,        \* the count at the start of the index file, NoHdr in an empty one
    slots,      \* the offsets after it
    fds,        \* descriptors option 6 opened and did not close
    op,         \* the option that runs: where it is, and its local variables
    crashes,    \* times the process was killed so far
    torn        \* auxiliary: an option ended half-way since option 0 began

vars == <<data, hdr, slots, fds, op, crashes, torn>>

Deleted == -1
NoHdr   == -2

Count(v) == [kind |-> "count", val |-> v]
Roll(r)  == [kind |-> "roll",  val |-> r]
NameLen  == [kind |-> "len",   val |-> 1]
Name(s)  == [kind |-> "name",  val |-> s]
Cells    == [kind : {"count", "roll", "len", "name"}, val : Int]

RecordCells == 3

(* The program is at its menu, in an option, in an endless loop of search  *)
(* ("hang"), or did what no C program may rely on ("undefined").           *)
Points == {"menu", "initIdx", "initData", "initHdr",
           "inIdx", "inSlot", "inRoll", "inLen", "inName", "delIdx", "delData", "input",
           "cIdx", "cData", "cHdr", "cSlots", "cCount", "cBody",
           "sort", "swap", "hang", "undefined"}

(* app: the data file is open with O_APPEND (modify).  n: a count read or  *)
(* computed.  body: data_buff of compaction.  hole: its last slot was a    *)
(* deleted one.  stray: it stored an offset past idx_buff.  sorts: it is   *)
(* the first half of option 7.  i, j, off: the loop of sort, the slot it   *)
(* exchanges with, curr_val.                                               *)
Ops == [at : Points, app : BOOLEAN, n : Int, body : Seq(Cells), hole : BOOLEAN,
        stray : BOOLEAN, sorts : BOOLEAN, i : Nat, j : Nat, off : Int]

Idle == [at |-> "menu", app |-> FALSE, n |-> 0, body |-> <<>>, hole |-> FALSE,
         stray |-> FALSE, sorts |-> FALSE, i |-> 0, j |-> 0, off |-> 0]

-----------------------------------------------------------------------------
(* What the files hold.                                                    *)

Live == {k \in DOMAIN slots : slots[k] # Deleted}

KindAt(p, kind) == p + 1 \in DOMAIN data /\ data[p + 1].kind = kind

WholeAt(p) == KindAt(p, "roll") /\ KindAt(p + 1, "len") /\ KindAt(p + 2, "name")

(* The slots search() looks at before its count of records runs out.       *)
Scanned == {k \in Live : Cardinality({m \in Live : m < k}) < hdr}

(* rno after read() at p: nothing is read at the end of the file, and what *)
(* is not a roll number may have the bits of any.  lseek() refuses a       *)
(* negative offset.                                                        *)
MayBe(p, r)  == p >= 0 /\ (KindAt(p, "roll") => data[p + 1].val = r)
MustBe(p, r) == KindAt(p, "roll") /\ data[p + 1].val = r
Passed(p, r) == p >= 0 /\ ~MustBe(p, r)

(* Mutant: the slot of any record with the roll number. *)
FoundAny(r) == {k \in Scanned : MayBe(slots[k], r)}

Found(r) == {k \in Scanned : /\ MayBe(slots[k], r)
                             /\ \A m \in Scanned : m < k => Passed(slots[m], r)}
Missed(r) == \A k \in Scanned : Passed(slots[k], r)

LastDeleted == slots # <<>> /\ slots[Len(slots)] = Deleted

(* Past the end of the index file read() leaves the last slot in index: a  *)
(* deleted one is skipped for ever, a live one is counted once more.  With *)
(* no slot at all index holds what its memory held.                        *)
RunsOn ==
    /\ hdr > Cardinality(Live)
    /\ LastDeleted \/ (slots = <<>> /\ Deleted \in Leftovers)

-----------------------------------------------------------------------------
(* The menu.  An option opens both files; exit() closes every descriptor,  *)
(* and leaves the files as they are in the middle of an option.            *)

Menu  == op.at = "menu"
(* Mutant: one descriptor more than there are. *)
OpensOneMore == fds <= MaxFds

Opens == fds + 2 <= MaxFds
Quit  == op' = Idle /\ fds' = 0

Exit     == Quit /\ UNCHANGED torn
ExitTorn == Quit /\ torn' = TRUE

OpenFails ==
    /\ Menu /\ ~Opens
    /\ fds' = 0
    /\ UNCHANGED <<data, hdr, slots, op, crashes, torn>>

(* Option 0.  The data file is truncated before the index file is opened.  *)
InitTruncData ==
    /\ Menu /\ fds < MaxFds
    /\ data' = <<>>
    /\ IF Opens THEN op' = [op EXCEPT !.at = "initIdx"] /\ torn' = FALSE /\ UNCHANGED fds
                ELSE ExitTorn
    /\ UNCHANGED <<hdr, slots, crashes>>

InitTruncIdx ==
    /\ op.at = "initIdx"
    /\ hdr' = NoHdr /\ slots' = <<>>
    /\ op' = [op EXCEPT !.at = "initData"]
    /\ UNCHANGED <<data, fds, crashes, torn>>

InitCount ==
    /\ op.at = "initData"
    /\ data' = <<Count(0)>>
    /\ op' = [op EXCEPT !.at = "initHdr"]
    /\ UNCHANGED <<hdr, slots, fds, crashes, torn>>

InitIndexHeader ==
    /\ op.at = "initHdr"
    /\ hdr' = 0
    /\ op' = Idle
    /\ UNCHANGED <<data, slots, fds, crashes, torn>>

-----------------------------------------------------------------------------
(* input_record(), for options 1 and 4.                                    *)

(* Mutant: lseek() to the start is forgotten and the count goes to the end. *)
WriteCountAtEnd(v, app) == data' = Append(data, Count(v))

(* Mutant: the count goes where the last read or write stopped. *)
WriteCountInPlace(v, app) ==
    data' = IF data = <<>> THEN <<Count(v)>> ELSE [data EXCEPT ![Len(data)] = Count(v)]

(* lseek() to the start has no effect on a write() with O_APPEND.          *)
WriteCount(v, app) ==
    data' = IF app \/ data = <<>> THEN Append(data, Count(v))
                                  ELSE [data EXCEPT ![1] = Count(v)]

InputHeader(app) ==
    /\ IF hdr = NoHdr
       THEN Exit /\ UNCHANGED data
       ELSE /\ WriteCount(hdr + 1, app)
            /\ op' = [Idle EXCEPT !.at = "inIdx", !.app = app, !.n = hdr + 1]
            /\ UNCHANGED <<fds, torn>>
    /\ UNCHANGED <<hdr, slots, crashes>>

Add == Menu /\ Opens /\ Len(slots) < MaxSlots /\ InputHeader(FALSE)

ModifyInput == op.at = "input" /\ InputHeader(TRUE)

(* Mutant: the index header is not written. *)
InputIndexHeaderForgotten ==
    /\ op.at = "inIdx"
    /\ op' = [op EXCEPT !.at = "inSlot"]
    /\ UNCHANGED <<data, hdr, slots, fds, crashes, torn>>

InputIndexHeader ==
    /\ op.at = "inIdx"
    /\ hdr' = op.n
    /\ op' = [op EXCEPT !.at = "inSlot"]
    /\ UNCHANGED <<data, slots, fds, crashes, torn>>

(* Mutant: the offset of the last cell, not of the next one. *)
InputSlotOfLast ==
    /\ op.at = "inSlot"
    /\ slots' = Append(slots, Len(data) - 1)
    /\ op' = [op EXCEPT !.at = "inRoll"]
    /\ UNCHANGED <<data, hdr, fds, crashes, torn>>

InputSlot ==
    /\ op.at = "inSlot"
    /\ slots' = Append(slots, Len(data))
    /\ op' = [op EXCEPT !.at = "inRoll"]
    /\ UNCHANGED <<data, hdr, fds, crashes, torn>>

InputRoll ==
    /\ op.at = "inRoll"
    /\ \E r \in Rolls : data' = Append(data, Roll(r))
    /\ op' = [op EXCEPT !.at = "inLen"]
    /\ UNCHANGED <<hdr, slots, fds, crashes, torn>>

InputNameLen ==
    /\ op.at = "inLen"
    /\ data' = Append(data, NameLen)
    /\ op' = [op EXCEPT !.at = "inName"]
    /\ UNCHANGED <<hdr, slots, fds, crashes, torn>>

InputName ==
    /\ op.at = "inName"
    /\ \E s \in Names : data' = Append(data, Name(s))
    /\ op' = Idle
    /\ UNCHANGED <<hdr, slots, fds, crashes, torn>>

-----------------------------------------------------------------------------
(* delete(), for options 2 and 4: the slot that search() returned is       *)
(* overwritten, then both counts.                                          *)

DeleteSlot(app) ==
    /\ Menu /\ Opens /\ hdr # NoHdr
    /\ \E r \in Rolls : \E k \in Found(r) : slots' = [slots EXCEPT ![k] = Deleted]
    /\ op' = [Idle EXCEPT !.at = "delIdx", !.app = app, !.n = hdr - 1]
    /\ UNCHANGED <<data, hdr, fds, crashes, torn>>

Delete == DeleteSlot(FALSE)
Modify == Len(slots) < MaxSlots /\ DeleteSlot(TRUE)

(* Mutant: the index header keeps its count. *)
DeleteIndexHeaderForgotten ==
    /\ op.at = "delIdx"
    /\ op' = [op EXCEPT !.at = "delData"]
    /\ UNCHANGED <<data, hdr, slots, fds, crashes, torn>>

DeleteIndexHeader ==
    /\ op.at = "delIdx"
    /\ hdr' = op.n
    /\ op' = [op EXCEPT !.at = "delData"]
    /\ UNCHANGED <<data, slots, fds, crashes, torn>>

DeleteCount ==
    /\ op.at = "delData"
    /\ WriteCount(op.n, op.app)
    /\ op' = IF op.app THEN [op EXCEPT !.at = "input"] ELSE Idle
    /\ UNCHANGED <<hdr, slots, fds, crashes, torn>>

-----------------------------------------------------------------------------
(* Options that only read: 2, 3, 4 and 6 search, 3 and 6 print a record, 8 *)
(* prints them all.  What they print is not modelled.                      *)

SearchHangs ==
    /\ Menu /\ Opens /\ hdr # NoHdr /\ RunsOn
    /\ \E r \in Rolls : Missed(r)
    /\ op' = [op EXCEPT !.at = "hang"]
    /\ UNCHANGED <<data, hdr, slots, fds, crashes, torn>>

(* A record or the count cannot be read to its end.                        *)
ReadFails ==
    /\ Menu /\ Opens
    /\ \/ hdr = NoHdr
       \/ hdr > Cardinality(Live)
       \/ \E k \in Live : ~WholeAt(slots[k])
    /\ Exit
    /\ UNCHANGED <<data, hdr, slots, crashes>>

(* Option 6 closes neither file.                                           *)
PrintStudent ==
    /\ Menu /\ Opens /\ hdr # NoHdr
    /\ ~RunsOn \/ slots = <<>> \/ \E r \in Rolls : Found(r) # {}
    /\ fds' = fds + 2
    /\ UNCHANGED <<data, hdr, slots, op, crashes, torn>>

-----------------------------------------------------------------------------
(* compaction(), for options 5 and 7.                                      *)

(* The loop stores an offset before it knows that its slot is live: after  *)
(* a deleted last slot one more than there are records, which the count n  *)
(* of the index file may leave no room for.  The padding of the array      *)
(* takes it for an odd n; for an even n it falls on the path of a file     *)
(* (O0) or the address of data_buff (O2).  The 8-byte read() into the int  *)
(* idx falls on n in build O0: n becomes the upper half of the last slot.  *)
StrayStore(n) == LastDeleted /\ n = Cardinality(Live) /\ n % 2 = 0

CountAfterReads(n) ==
    IF Build # "O0" \/ slots = <<>> THEN n
    ELSE IF slots[Len(slots)] < 0 THEN -1 ELSE 0

(* Nothing is read from an empty index file.  MaxSlots bounds what is.      *)
CountRead == IF hdr = NoHdr THEN {n \in Leftovers : n <= MaxSlots} ELSE {hdr}

(* The number of a set that j - 1 of its numbers precede.                  *)
Nth(set, j) == CHOOSE k \in set : Cardinality({m \in set : m < k}) = j - 1

(* The cells read_intobuffer() puts one behind the other.  A read() past   *)
(* the end of the file leaves what the memory held: in a name length that  *)
(* of the record before, if it is one.                                     *)
BodyCells == 1..(RecordCells * Cardinality(Live))
Source(c) == slots[Nth(Live, ((c - 1) \div RecordCells) + 1)] + ((c - 1) % RecordCells) + 1
Unread    == {c \in BodyCells : Source(c) \notin DOMAIN data}
Lengths   == {c \in BodyCells : c % RecordCells = 2}

UnreadCell(c, left) == IF c % RecordCells = 1 THEN Roll(left[c])
                       ELSE IF c % RecordCells = 2 THEN NameLen ELSE Name(left[c])

PackedBody(left) ==
    [c \in BodyCells |-> IF c \in Unread THEN UnreadCell(c, left) ELSE data[Source(c)]]

(* The file may end in the record at p, but holds nothing else there.      *)
RecordAt(p) ==
    \A c \in 1..RecordCells : p + c \in DOMAIN data =>
        data[p + c].kind = <<"roll", "len", "name">>[c]

(* Both buffers have room and what is read as a length is one.             *)
FitsBuffers(n) ==
    /\ Cardinality(Live) <= n
    /\ RecordCells * Cardinality(Live) <= Len(data)
    /\ \A k \in Live : RecordAt(slots[k])

(* A length that is not read may also be none.                             *)
LengthUnread == Unread \cap Lengths # {}

(* A negative offset is refused by lseek().                                *)
BadOffset == \E k \in Live : slots[k] < 0

CompactOverruns(n) ==
    /\ ~FitsBuffers(n) \/ LengthUnread
    /\ op' = [op EXCEPT !.at = "undefined"]
    /\ UNCHANGED <<fds, torn>>

CompactExits(n) ==
    /\ BadOffset \/ (Build = "O0" /\ StrayStore(n))
    /\ Exit

CompactBuffers(n, sorts) ==
    /\ FitsBuffers(n) /\ ~BadOffset /\ ~(Build = "O0" /\ StrayStore(n))
    /\ \E left \in [Unread \ Lengths -> Leftovers] :
          op' = [Idle EXCEPT !.at = "cIdx", !.sorts = sorts, !.n = CountAfterReads(n),
                             !.body = PackedBody(left), !.hole = LastDeleted,
                             !.stray = StrayStore(n)]
    /\ UNCHANGED <<fds, torn>>

CompactRead(sorts) ==
    /\ Menu /\ Opens
    /\ \E n \in CountRead : CompactOverruns(n) \/ CompactExits(n) \/ CompactBuffers(n, sorts)
    /\ UNCHANGED <<data, hdr, slots, crashes>>

Compact == CompactRead(FALSE)
Sort    == CompactRead(TRUE)

CompactTruncIdx ==
    /\ op.at = "cIdx"
    /\ hdr' = NoHdr /\ slots' = <<>>
    /\ op' = [op EXCEPT !.at = "cData"]
    /\ UNCHANGED <<data, fds, crashes, torn>>

CompactTruncData ==
    /\ op.at = "cData"
    /\ data' = <<>>
    /\ op' = [op EXCEPT !.at = "cHdr"]
    /\ UNCHANGED <<hdr, slots, fds, crashes, torn>>

CompactIndexHeader ==
    /\ op.at = "cHdr"
    /\ hdr' = op.n
    /\ op' = [op EXCEPT !.at = "cSlots"]
    /\ UNCHANGED <<data, slots, fds, crashes, torn>>

(* The n slots behind the count: those of the records, after a deleted     *)
(* last slot the end of the records, and what the array held.  write()     *)
(* refuses a buffer that is not in memory, unless it is empty.             *)
OffsetsStored == (Len(op.body) \div RecordCells) + (IF op.hole THEN 1 ELSE 0)

CompactSlots ==
    /\ op.at = "cSlots"
    /\ IF op.n < 0 \/ (op.stray /\ Build = "O2" /\ op.n > 0)
       THEN ExitTorn /\ UNCHANGED slots
       ELSE /\ \E left \in [(OffsetsStored + 1)..op.n -> Leftovers] :
                 slots' = [k \in 1..op.n |-> IF k <= OffsetsStored THEN RecordCells * (k - 1) + 1
                                                           ELSE left[k]]
            /\ op' = [op EXCEPT !.at = "cCount"]
            /\ UNCHANGED <<fds, torn>>
    /\ UNCHANGED <<data, hdr, crashes>>

CompactCount ==
    /\ op.at = "cCount"
    /\ data' = <<Count(op.n)>>
    /\ op' = [op EXCEPT !.at = "cBody"]
    /\ UNCHANGED <<hdr, slots, fds, crashes, torn>>

(* Mutant: len is one short. *)
CompactBodyShort ==
    /\ op.at = "cBody"
    /\ data' = data \o SubSeq(op.body, 1, Len(op.body) - 1)
    /\ op' = IF op.sorts THEN [Idle EXCEPT !.at = "sort", !.n = hdr, !.i = 1] ELSE Idle
    /\ UNCHANGED <<hdr, slots, fds, crashes, torn>>

CompactBody ==
    /\ op.at = "cBody"
    /\ data' = data \o op.body
    /\ op' = IF op.sorts THEN [Idle EXCEPT !.at = "sort", !.n = hdr, !.i = 1] ELSE Idle
    /\ UNCHANGED <<hdr, slots, fds, crashes, torn>>

-----------------------------------------------------------------------------
(* sort(), after the compaction of option 7.                               *)

RollAt(k) == data[slots[k] + 1].val

(* The first of the least roll numbers of slots start..end.                *)
FirstLeast(k, start, end) ==
    \A m \in start..end : RollAt(k) <= RollAt(m) /\ (m < k => RollAt(k) < RollAt(m))

(* index_of_min(): a roll number from MinRoll on is never the least.       *)
MinIndex(start, end) ==
    IF \E k \in start..end : RollAt(k) < MinRoll /\ FirstLeast(k, start, end)
    THEN CHOOSE k \in start..end : RollAt(k) < MinRoll /\ FirstLeast(k, start, end)
    ELSE start

(* index_of_min() exits when it cannot read at an offset.                  *)
SortReads == \A k \in op.i..op.n : slots[k] + 1 \in DOMAIN data

(* Mutant: the continue of a slot in its place skips i++. *)
SortStepStays ==
    /\ op.at = "sort" /\ op.i <= op.n /\ SortReads
    /\ LET m == MinIndex(op.i, op.n)
       IN  /\ m # op.i
           /\ slots' = [slots EXCEPT ![op.i] = slots[m]]
           /\ op' = [op EXCEPT !.at = "swap", !.j = m, !.off = slots[op.i]]
    /\ UNCHANGED <<data, hdr, fds, crashes, torn>>

SortStep ==
    /\ op.at = "sort" /\ op.i <= op.n /\ SortReads
    /\ LET m == MinIndex(op.i, op.n)
       IN  IF m = op.i
           THEN op' = [op EXCEPT !.i = @ + 1] /\ UNCHANGED slots
           ELSE /\ slots' = [slots EXCEPT ![op.i] = slots[m]]
                /\ op' = [op EXCEPT !.at = "swap", !.j = m, !.off = slots[op.i]]
    /\ UNCHANGED <<data, hdr, fds, crashes, torn>>

SortFails ==
    /\ op.at = "sort" /\ op.i <= op.n /\ ~SortReads
    /\ ExitTorn
    /\ UNCHANGED <<data, hdr, slots, crashes>>

SortSwap ==
    /\ op.at = "swap"
    /\ slots' = [slots EXCEPT ![op.j] = op.off]
    /\ op' = [op EXCEPT !.at = "sort", !.i = @ + 1, !.j = 0, !.off = 0]
    /\ UNCHANGED <<data, hdr, fds, crashes, torn>>

SortEnd ==
    /\ op.at = "sort" /\ op.i > op.n
    /\ op' = Idle
    /\ UNCHANGED <<data, hdr, slots, fds, crashes, torn>>

-----------------------------------------------------------------------------
(* The process is killed and started again.                                *)

Crash ==
    /\ ~Menu /\ crashes < MaxCrashes
    /\ crashes' = crashes + 1
    /\ ExitTorn
    /\ UNCHANGED <<data, hdr, slots>>

(* Option 0 has been used once, as every other option needs it.            *)
Init ==
    /\ data = <<Count(0)>> /\ hdr = 0 /\ slots = <<>>
    /\ fds = 0 /\ op = Idle /\ crashes = 0 /\ torn = FALSE

Initialize == InitTruncData \/ InitTruncIdx \/ InitCount \/ InitIndexHeader
Input == Add \/ ModifyInput \/ InputIndexHeader \/ InputSlot
            \/ InputRoll \/ InputNameLen \/ InputName
Removal == Delete \/ Modify \/ DeleteIndexHeader \/ DeleteCount
Reading == SearchHangs \/ ReadFails \/ PrintStudent
Compaction == Compact \/ Sort \/ CompactTruncIdx \/ CompactTruncData
                \/ CompactIndexHeader \/ CompactSlots \/ CompactCount \/ CompactBody
Sorting == SortStep \/ SortSwap \/ SortFails \/ SortEnd

Next == OpenFails \/ Initialize \/ Input \/ Removal \/ Reading
            \/ Compaction \/ Sorting \/ Crash

(* An option that began goes on: the system schedules the process, and the *)
(* user answers the prompts of input_record().                             *)
Fairness == WF_vars(~Menu /\ Next /\ UNCHANGED crashes)

Spec == Init /\ [][Next]_vars /\ Fairness

-----------------------------------------------------------------------------
(* Properties.                                                             *)

TypeOK ==
    /\ data \in Seq(Cells)
    /\ hdr \in Int
    /\ slots \in Seq(Int)
    /\ fds \in 0..MaxFds
    /\ op \in Ops
    /\ crashes \in 0..MaxCrashes /\ torn \in BOOLEAN

(* Between two options both files state the same number of records, and it *)
(* is the number the index file has offsets for, unless an option ended    *)
(* half-way since they were last initialized.  A modification writes its   *)
(* two counts of the data file behind the records, because of O_APPEND,    *)
(* and only their sum leaves the first cell right (main, case 4).          *)
CountsAgree ==
    Menu /\ ~torn => hdr = Cardinality(Live) /\ data[1] = Count(hdr)

(* Until then every offset of the index file is that of a whole record     *)
(* between two options, and no two records share a cell, after any number  *)
(* of deletions, modifications, compactions and sorts (input_record,       *)
(* compaction).                                                            *)
RecordsDisjoint ==
    Menu /\ ~torn =>
        \A k \in Live : /\ WholeAt(slots[k])
                        /\ \A m \in Live \ {k} : slots[m] - slots[k] \notin 0..2

(* The count of the index file is never below the number of records it has *)
(* offsets for, wherever the process was killed or gave up: search() stops *)
(* when it has seen that many records, and would not find the others.      *)
HeaderCoversLive ==
    hdr # NoHdr => Cardinality(Live) <= hdr

(* A record that is whole and has its offset in the index file keeps both  *)
(* in every step, kills included, except where the program means to remove *)
(* it or rewrites a file in place: the slot of a deletion, the truncations *)
(* of options 0, 5 and 7, and the first write of an exchange.              *)
Stored == {slots[k] : k \in {m \in Live : WholeAt(slots[m])}}

RecordsSurvive ==
    [][op'.at # "delIdx" /\ data' # <<>> /\ op.at \notin {"cIdx", "sort"}
        => \A p \in Stored : /\ p \in Stored'
                             /\ \A c \in 1..RecordCells : data'[p + c] = data[p + c]]_vars

(* search() runs past the end of the index file for ever only with files   *)
(* that a killed process left behind, also when options failed for want of *)
(* descriptors (search).                                                   *)
HangNeedsCrash ==
    op.at = "hang" => crashes > 0

(* "Sorts index file according to rollno" (as1_os.c:52), whatever the roll *)
(* numbers.                                                                *)
SortsAll ==
    [][op.at = "sort" /\ op'.at = "menu" /\ ~torn'
        => \A k, m \in DOMAIN slots : k < m => RollAt(k) <= RollAt(m)]_vars

(* Compaction leaves the count and the packed records in the data file and *)
(* nothing else, and an offset for each of them, also of files that a kill *)
(* or a failed option left.  If no option ended half-way the index file    *)
(* holds nothing but these offsets, whatever holes deletions,              *)
(* modifications and old counts had left (Description.txt:56).             *)
CompactionPacks ==
    [][op.at = "cBody" /\ crashes' = crashes
        => LET kept == Len(op.body) \div RecordCells
           IN  /\ Len(data') = 1 + RecordCells * kept
               /\ Stored' = {RecordCells * k - 2 : k \in 1..kept}
               /\ ~torn => Len(slots') = kept]_vars

(* Every option comes back to the menu if the process is not killed, unless *)
(* search() runs past the index file or compaction() past its buffers: no  *)
(* loop of print_all(), compaction() or sort() runs for ever on any files  *)
(* (main).                                                                 *)
OptionsReturn == []<>(op.at \in {"menu", "hang", "undefined"})

(* The options as steps of the table a user sees.  A record is in it from  *)
(* its last cell on; compaction and an exchange show what they will leave. *)
Rewriting == op.at \in {"cIdx", "cData", "cHdr", "cSlots", "cCount", "cBody"}

Shown == IF op.at = "swap" THEN [slots EXCEPT ![op.j] = op.off] ELSE slots
Whole == {k \in DOMAIN Shown : WholeAt(Shown[k])}

Table ==
    LET rec(cells, p) == [roll |-> cells[p + 1].val, name |-> cells[p + 3].val]
    IN  IF Rewriting
        THEN [k \in 1..(Len(op.body) \div RecordCells) |-> rec(op.body, RecordCells * (k - 1))]
        ELSE [k \in 1..Cardinality(Whole) |-> rec(data, Shown[Nth(Whole, k)])]

Option ==
    IF torn THEN "broken"
    ELSE IF op.at \in {"initIdx", "initData", "initHdr"} THEN "initialize"
    ELSE IF op.at \in {"inIdx", "inSlot", "inRoll", "inLen", "inName"}
    THEN IF op.app THEN "modify" ELSE "add"
    ELSE IF op.at \in {"delIdx", "delData", "input"}
    THEN IF op.app THEN "modify" ELSE "delete"
    ELSE IF Rewriting THEN IF op.sorts THEN "sort" ELSE "compact"
    ELSE IF op.at \in {"sort", "swap"} THEN "sort"
    ELSE "none"

(* Compaction removes the holes of both files and keeps the records        *)
(* (Description.txt:56): the table it leaves is the one it read.           *)
CompactionKeepsTable ==
    [][op.at = "cBody" /\ crashes' = crashes => Table' = Table]_vars

Promised == INSTANCE StudentTable WITH table <- Table, option <- Option

(* Until an option ends half-way, and from the next initialization on, the *)
(* two files implement the table: each option changes it as its name says  *)
(* and in no other way, a deletion takes the first record with its roll    *)
(* number, and compaction and printing leave it alone (main).              *)
ImplementsTable == Promised!Spec
=============================================================================
