-------------------------------- MODULE Pipe --------------------------------
(***************************************************************************)
(* A parent reads files and writes them into a pipe, its child reads the   *)
(* pipe: prob1.c of as6_17feb counts the bytes of several files, pipes.c   *)
(* of ipc copies one file to another.  Each has its own end of the pipe    *)
(* only after it has closed the other one, which it got by fork().         *)
(*                                                                         *)
(* The files are laid end to end: file k is the bytes from upTo[k-1] on to *)
(* upTo[k], so that what has been read, written and got are numbers.       *)
(***************************************************************************)
EXTENDS Integers, FiniteSets

CONSTANTS
    MaxFiles, MaxBytes,     \* bounds: files on the command line, bytes of all
    Chunk,                  \* bytes of a read(): 99 in prob1.c, 1024 in pipes.c
    PipeSize,               \* bytes a pipe holds
    MaxKills                \* bound: processes killed from outside

(* A write() of no more than a chunk is atomic, and fits an empty pipe.    *)
ASSUME BoundsAssumption == MaxFiles \in Nat \ {0} /\ MaxBytes \in Nat /\ MaxKills \in Nat
ASSUME ChunkAssumption  == Chunk \in Nat \ {0} /\ PipeSize \in Nat /\ PipeSize >= Chunk

Procs == {"parent", "child"}

VARIABLES
    program,            \* "prob1" or "pipes"
    count, kind, upTo,  \* how many files, what each is, where each ends
    pc,
    k, pos, held,       \* the parent's file, what it has read, what is in buf
    piped,              \* bytes in the pipe
    got,                \* bytes the child has read
    dest, copied,       \* the child's file: whether it is open, its bytes
    readers, writers,   \* who has the read end and the write end open
    kills

input == <<program, count, kind, upTo>>
fds   == <<readers, writers>>
file  == <<dest, copied>>
vars  == <<input, pc, k, pos, held, piped, got, file, fds, kills>>

At(p, at) == pc[p] = at
Go(p, to) == pc' = [pc EXCEPT ![p] = to]
Alive(p)  == pc[p] \notin {"none", "ended"}

(* A process that ends closes what it has open.                            *)
ExitOf(p) == Go(p, "ended") /\ readers' = readers \ {p} /\ writers' = writers \ {p}

Least(a, b) == IF a < b THEN a ELSE b

-----------------------------------------------------------------------------
(* The beginning of main().                                                *)

MakePipe ==
    /\ At("parent", "pipe")
    /\ \/ Go("parent", "fork") /\ readers' = {"parent"} /\ writers' = {"parent"}
       \/ program = "prob1" /\ ExitOf("parent")
    /\ UNCHANGED <<input, k, pos, held, piped, got, file, kills>>

Fork ==
    /\ At("parent", "fork")
    /\ \/ /\ pc' = [parent |-> "closeread", child |-> "closewrite"]
          /\ readers' = Procs /\ writers' = Procs
       \/ ExitOf("parent")
    /\ UNCHANGED <<input, k, pos, held, piped, got, file, kills>>

-----------------------------------------------------------------------------
(* The parent.                                                             *)

(* Mutant: the parent keeps the read end. *)
ParentKeeps ==
    /\ At("parent", "closeread") /\ Go("parent", "open")
    /\ UNCHANGED <<input, k, pos, held, piped, got, file, fds, kills>>

ParentCloses ==
    /\ At("parent", "closeread") /\ Go("parent", "open")
    /\ readers' = readers \ {"parent"}
    /\ UNCHANGED <<input, k, pos, held, piped, got, file, writers, kills>>

(* prob1.c stops at a file it cannot open; pipes.c reads from -1, which    *)
(* ends its loop.  When prob1.c has no file left it closes the write end.  *)
Open ==
    /\ At("parent", "open")
    /\ \/ k > count /\ ExitOf("parent")
       \/ k <= count /\ kind[k] = "absent" /\ ExitOf("parent")
       \/ k <= count /\ kind[k] # "absent" /\ Go("parent", "read") /\ UNCHANGED fds
    /\ UNCHANGED <<input, k, pos, held, piped, got, file, kills>>

(* Mutant: read() is asked for a byte more than the buffer holds. *)
ParentReadMore ==
    /\ At("parent", "read")
    /\ IF kind[k] = "file" /\ pos < upTo[k]
       THEN /\ held' = Least(Chunk + 1, upTo[k] - pos)
            /\ pos' = pos + held' /\ k' = k /\ Go("parent", "write")
       ELSE k' = k + 1 /\ Go("parent", "open") /\ UNCHANGED <<pos, held>>
    /\ UNCHANGED <<input, piped, got, file, fds, kills>>

(* read(): an error (the file is a directory) ends the file like its end.  *)
ParentRead ==
    /\ At("parent", "read")
    /\ IF kind[k] = "file" /\ pos < upTo[k]
       THEN /\ held' = Least(Chunk, upTo[k] - pos)
            /\ pos' = pos + held' /\ k' = k /\ Go("parent", "write")
       ELSE k' = k + 1 /\ Go("parent", "open") /\ UNCHANGED <<pos, held>>
    /\ UNCHANGED <<input, piped, got, file, fds, kills>>

(* Mutant: the whole buffer is written. *)
ParentWriteBuf ==
    /\ At("parent", "write") /\ readers # {} /\ piped + Chunk <= PipeSize
    /\ piped' = piped + Chunk /\ held' = 0 /\ Go("parent", "read")
    /\ UNCHANGED <<input, k, pos, got, file, fds, kills>>

(* write() waits for room.                                                 *)
ParentWrite ==
    /\ At("parent", "write") /\ readers # {} /\ piped + held <= PipeSize
    /\ piped' = piped + held /\ held' = 0 /\ Go("parent", "read")
    /\ UNCHANGED <<input, k, pos, got, file, fds, kills>>

(* With nobody to read, write() ends the writer by SIGPIPE.                *)
SigPipe ==
    /\ At("parent", "write") /\ readers = {} /\ ExitOf("parent")
    /\ UNCHANGED <<input, k, pos, held, piped, got, file, kills>>

-----------------------------------------------------------------------------
(* The child.                                                              *)

(* Mutant: the child keeps the write end. *)
ChildKeeps ==
    /\ At("child", "closewrite") /\ Go("child", IF program = "pipes" THEN "dest" ELSE "read")
    /\ UNCHANGED <<input, k, pos, held, piped, got, file, fds, kills>>

ChildCloses ==
    /\ At("child", "closewrite") /\ Go("child", IF program = "pipes" THEN "dest" ELSE "read")
    /\ writers' = writers \ {"child"}
    /\ UNCHANGED <<input, k, pos, held, piped, got, file, readers, kills>>

(* Nobody looks at whether open() succeeds.                                *)
OpenDest ==
    /\ At("child", "dest") /\ Go("child", "read")
    /\ dest' \in BOOLEAN
    /\ UNCHANGED <<input, k, pos, held, piped, got, copied, fds, kills>>

ChildRead ==
    /\ At("child", "read") /\ piped > 0
    /\ got' = got + Least(Chunk, piped) /\ piped' = piped - Least(Chunk, piped)
    /\ Go("child", IF program = "pipes" THEN "copy" ELSE "read")
    /\ UNCHANGED <<input, k, pos, held, file, fds, kills>>

(* Mutant: an empty pipe is taken for the end. *)
EndOfFileEarly ==
    /\ At("child", "read") /\ piped = 0
    /\ Go("child", "print")
    /\ UNCHANGED <<input, k, pos, held, piped, got, file, fds, kills>>

(* read() returns 0 when the pipe is empty and has no writer any more.     *)
EndOfFile ==
    /\ At("child", "read") /\ piped = 0 /\ writers = {}
    /\ Go("child", "print")
    /\ UNCHANGED <<input, k, pos, held, piped, got, file, fds, kills>>

Copy ==
    /\ At("child", "copy") /\ Go("child", "read")
    /\ copied' = IF dest THEN got ELSE copied
    /\ UNCHANGED <<input, k, pos, held, piped, got, dest, fds, kills>>

(* prob1.c prints the sum; both close what is left and end.                *)
Finish ==
    /\ At("child", "print") /\ ExitOf("child")
    /\ UNCHANGED <<input, k, pos, held, piped, got, file, kills>>

Kill(p) ==
    /\ Alive(p) /\ kills < MaxKills /\ ExitOf(p)
    /\ kills' = kills + 1
    /\ UNCHANGED <<input, k, pos, held, piped, got, file>>

-----------------------------------------------------------------------------
Kinds == {"file", "absent", "unreadable"}

(* Where files of these kinds may end; only a file has bytes.              *)
Layouts(n, kinds) ==
    {ends \in [0..n -> 0..MaxBytes] :
        /\ ends[0] = 0
        /\ \A j \in 1..n : IF kinds[j] = "file" THEN ends[j - 1] <= ends[j]
                                                ELSE ends[j - 1] = ends[j]}

Init ==
    /\ program \in {"prob1", "pipes"}
    /\ count \in 0..MaxFiles /\ (program = "pipes" => count = 1)
    /\ kind \in [1..count -> Kinds] /\ upTo \in Layouts(count, kind)
    /\ pc = [parent |-> "pipe", child |-> "none"]
    /\ k = 1 /\ pos = 0 /\ held = 0 /\ piped = 0 /\ got = 0
    /\ dest = FALSE /\ copied = 0
    /\ readers = {} /\ writers = {} /\ kills = 0

Parent == MakePipe \/ Fork \/ ParentCloses \/ Open \/ ParentRead \/ ParentWrite \/ SigPipe
Child  == ChildCloses \/ OpenDest \/ ChildRead \/ EndOfFile \/ Copy \/ Finish

Next == Parent \/ Child \/ \E p \in Procs : Kill(p)

(* The system runs whoever can go on; nobody has to be killed.             *)
Spec == Init /\ [][Next]_vars /\ WF_vars(Parent) /\ WF_vars(Child)

-----------------------------------------------------------------------------
(* Properties.                                                             *)

ParentPoints == {"pipe", "fork", "closeread", "open", "read", "write", "ended"}
ChildPoints  == {"none", "closewrite", "dest", "read", "copy", "print", "ended"}

TypeOK ==
    /\ program \in {"prob1", "pipes"}
    /\ count \in 0..MaxFiles /\ kind \in [1..count -> Kinds]
    /\ upTo \in Layouts(count, kind)
    /\ pc \in [Procs -> ParentPoints \cup ChildPoints]
    /\ pc["parent"] \in ParentPoints /\ pc["child"] \in ChildPoints
    /\ k \in 1..(count + 1) /\ (pc["parent"] \in {"read", "write"} => k <= count)
    /\ pos \in 0..MaxBytes /\ held \in 0..Chunk /\ piped \in 0..PipeSize /\ got \in 0..MaxBytes
    /\ dest \in BOOLEAN /\ copied \in 0..MaxBytes
    /\ readers \subseteq Procs /\ writers \subseteq Procs /\ kills \in 0..MaxKills

(* Every byte that was read from a file is in the parent's buffer, in the  *)
(* pipe or with the child, once, and what the child has written to its     *)
(* file is all of it or all but what it just read (prob1.c:65-72, 40-46,   *)
(* pipes.c:38-43, 58-63).                                                  *)
Conserved ==
    /\ got + piped + held = pos
    /\ dest /\ pc["child"] \in {"read", "print"} => copied = got

(* The files that are read: those before the first one that is missing.    *)
Wanted == CHOOSE j \in 0..count :
    /\ \A f \in 1..j : kind[f] # "absent"
    /\ j < count => kind[j + 1] = "absent"

(* The child sees the end of the pipe only when everything is through: the *)
(* sum it prints is that of all files before the first missing one, and    *)
(* the copy is complete.  Only if the parent was killed there is less      *)
(* (prob1.c:43-50, pipes.c:58-65).                                         *)
Complete ==
    pc["child"] = "print" =>
        /\ pc["parent"] = "ended" /\ piped = 0
        /\ kills = 0 => got = upTo[Wanted] /\ (dest => copied = upTo[Wanted])

(* Both end, also when the other one is killed in the middle: the child    *)
(* sees the end of the pipe, the parent gets SIGPIPE, and a full pipe does *)
(* not stop them, as each has closed the end it does not use               *)
(* (prob1.c:38, 57, pipes.c:33, 52).                                       *)
BothEnd == <>[](pc["parent"] = "ended" /\ ~Alive("child"))
=============================================================================
