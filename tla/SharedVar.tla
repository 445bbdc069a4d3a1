----------------------------- MODULE SharedVar ------------------------------
(***************************************************************************)
(* assignments/as4: a parent hands the numbers 1, 2, ... to its child in a *)
(* shared segment of two words, flag and n, without a lock.  The child is  *)
(* a fork (part1.c) or the program part_exec.c, which it executes          *)
(* (part2.c).  A handler of SIGINT removes the segment and kills both.     *)
(*                                                                         *)
(* Each access to the segment is a step.  Their order is the compiler's:   *)
(* unoptimized, the parent writes flag and then n, and the child clears    *)
(* flag and then reads n, once for fact() and once for printf(); gcc -O2   *)
(* writes n first, and reads it once and before it clears flag.            *)
(***************************************************************************)
EXTENDS Integers, Sequences

CONSTANTS
    Rounds,     \* the numbers to hand over: 10
    MaxKills    \* bound: processes killed from outside

ASSUME RoundsAssumption == Rounds \in Nat \ {0}
ASSUME KillsAssumption  == MaxKills \in Nat

Procs == {"parent", "child"}

VARIABLES
    program,        \* "part1" or "part2"
    build,          \* "O0" or "O2"
    pc,             \* what each process does next
    sig,            \* its SIGINT: none, pending, or the handler has begun
    flag, n,        \* the segment
    i,              \* the parent's loop
    arg,            \* what the child read for fact()
    taken,          \* what it printed: a number, and whose factorial
    seg,            \* the segment: none, there, removed
    known,          \* shmid has been assigned
    foreign,        \* the segment 0 of the user, made by another program
    interrupted,    \* ghost: Ctrl-C was pressed
    forkFailed,     \* ghost
    kills

fixed  == <<program, build>>
shared == <<flag, n>>
life   == <<seg, known, foreign>>
ghosts == <<interrupted, forkFailed, kills>>
vars   == <<fixed, pc, sig, shared, i, arg, taken, life, ghosts>>

Ended(p)    == pc[p] = "ended"
Alive(p)    == pc[p] \notin {"none", "ended"}
AllEnded    == Ended("parent") /\ ~Alive("child")
Attached(p) == Alive(p) /\ pc[p] \notin {"start", "get", "got", "fork", "exec", "attach"}

(* p is at the point at, and not in its handler.                           *)
At(p, at)  == pc[p] = at /\ sig[p] # "handling"
Go(p, to)  == pc' = [pc EXCEPT ![p] = to] /\ sig' = sig
ExitOf(p)  == pc' = [pc EXCEPT ![p] = "ended"] /\ sig' = [sig EXCEPT ![p] = "none"]

-----------------------------------------------------------------------------
(* The parent sets the handler, makes the segment and forks.               *)

Signal ==
    /\ At("parent", "start") /\ Go("parent", "get")
    /\ UNCHANGED <<fixed, shared, i, arg, taken, life, ghosts>>

Shmget ==
    /\ At("parent", "get")
    /\ \/ Go("parent", "got") /\ seg' = "there"
       \/ ExitOf("parent") /\ seg' = seg
    /\ UNCHANGED <<fixed, shared, i, arg, taken, known, foreign, ghosts>>

Assign ==
    /\ At("parent", "got") /\ Go("parent", "fork")
    /\ known' = TRUE
    /\ UNCHANGED <<fixed, shared, i, arg, taken, seg, foreign, ghosts>>

(* The child has the handler too.  fork() lets a pending signal go first.  *)
Fork ==
    /\ At("parent", "fork") /\ sig["parent"] = "none"
    /\ pc' = [parent |-> "attach", child |-> IF program = "part1" THEN "attach" ELSE "exec"]
    /\ UNCHANGED <<fixed, sig, shared, i, arg, taken, life, ghosts>>

ForkFails ==
    /\ At("parent", "fork") /\ ExitOf("parent")
    /\ forkFailed' = TRUE
    /\ UNCHANGED <<fixed, shared, i, arg, taken, life, interrupted, kills>>

(* The child prints shmid to where an uninitialized pointer points, and    *)
(* executes what the user typed: it goes on as part_exec, or it ends.      *)
Exec ==
    /\ At("child", "exec")
    /\ \/ pc' = [pc EXCEPT !["child"] = "attach"] /\ sig["child"] = "none" /\ sig' = sig
       \/ ExitOf("child")
    /\ UNCHANGED <<fixed, shared, i, arg, taken, life, ghosts>>

(* A removed segment is there while somebody is attached.  If it is not,   *)
(* shmat() returns -1 and the program reads through it.                    *)
Attach(p) ==
    /\ At(p, "attach")
    /\ IF seg = "removed" /\ ~\E q \in Procs : Attached(q)
       THEN ExitOf(p)
       ELSE Go(p, IF p = "parent" THEN "clear" ELSE "test")
    /\ UNCHANGED <<fixed, shared, i, arg, taken, life, ghosts>>

-----------------------------------------------------------------------------
(* The loop of the parent.                                                 *)

Clear ==
    /\ At("parent", "clear") /\ Go("parent", "test")
    /\ flag' = 0
    /\ UNCHANGED <<fixed, n, i, arg, taken, life, ghosts>>

(* A flag that is not 0 undoes the i++ of the loop.                        *)
ParentTest ==
    /\ At("parent", "test") /\ flag = 0
    /\ Go("parent", IF build = "O0" THEN "flag" ELSE "n")
    /\ UNCHANGED <<fixed, shared, i, arg, taken, life, ghosts>>

(* Mutant: the loop runs one round more. *)
NextRoundMore == IF i <= Rounds THEN "test" ELSE "wait"

NextRound == IF i < Rounds THEN "test" ELSE "wait"

SetFlag ==
    /\ At("parent", "flag")
    /\ flag' = 1
    /\ IF build = "O0" THEN Go("parent", "n") /\ i' = i
                       ELSE Go("parent", NextRound) /\ i' = i + 1
    /\ UNCHANGED <<fixed, n, arg, taken, life, ghosts>>

SetN ==
    /\ At("parent", "n")
    /\ n' = i
    /\ IF build = "O2" THEN Go("parent", "flag") /\ i' = i
                       ELSE Go("parent", NextRound) /\ i' = i + 1
    /\ UNCHANGED <<fixed, flag, arg, taken, life, ghosts>>

Wait ==
    /\ At("parent", "wait") /\ Ended("child") /\ Go("parent", "remove")
    /\ UNCHANGED <<fixed, shared, i, arg, taken, life, ghosts>>

Remove ==
    /\ At("parent", "remove") /\ ExitOf("parent")
    /\ seg' = "removed"
    /\ UNCHANGED <<fixed, shared, i, arg, taken, known, foreign, ghosts>>

-----------------------------------------------------------------------------
(* The loop of the child.                                                  *)

(* Mutant: the child does not look at flag. *)
ChildTestNot ==
    /\ At("child", "test")
    /\ Go("child", IF build = "O0" THEN "flag" ELSE "arg")
    /\ UNCHANGED <<fixed, shared, i, arg, taken, life, ghosts>>

ChildTest ==
    /\ At("child", "test") /\ flag = 1
    /\ Go("child", IF build = "O0" THEN "flag" ELSE "arg")
    /\ UNCHANGED <<fixed, shared, i, arg, taken, life, ghosts>>

(* It takes as many numbers as the parent hands over, then exits.          *)
Show(num) ==
    /\ taken' = Append(taken, [num |-> num, arg |-> arg])
    /\ IF Len(taken) + 1 < Rounds THEN Go("child", "test") ELSE ExitOf("child")

(* Mutant: the number is taken and flag stays. *)
ClearFlagNot ==
    /\ At("child", "flag")
    /\ IF build = "O0" THEN Go("child", "arg") /\ taken' = taken ELSE Show(arg)
    /\ UNCHANGED <<fixed, shared, i, arg, life, ghosts>>

ClearFlag ==
    /\ At("child", "flag")
    /\ flag' = 0
    /\ IF build = "O0" THEN Go("child", "arg") /\ taken' = taken ELSE Show(arg)
    /\ UNCHANGED <<fixed, n, i, arg, life, ghosts>>

ReadArg ==
    /\ At("child", "arg")
    /\ arg' = n
    /\ Go("child", IF build = "O0" THEN "num" ELSE "flag")
    /\ UNCHANGED <<fixed, shared, i, taken, life, ghosts>>

ReadNum ==
    /\ At("child", "num") /\ Show(n)
    /\ UNCHANGED <<fixed, shared, i, arg, life, ghosts>>

-----------------------------------------------------------------------------
(* SIGINT.  execve() sets the handler of the child back to the default,    *)
(* which is to end; so it is in the parent before signal().                *)

HasHandler(p) ==
    IF p = "parent" THEN pc[p] # "start" ELSE program = "part1" \/ pc[p] = "exec"

(* Ctrl-C goes to the processes in the foreground.                         *)
Interrupt ==
    /\ ~interrupted /\ Alive("parent")
    /\ interrupted' = TRUE
    /\ pc' = [p \in Procs |-> IF Alive(p) /\ ~HasHandler(p) THEN "ended" ELSE pc[p]]
    /\ sig' = [p \in Procs |-> IF Alive(p) /\ HasHandler(p) THEN "pending" ELSE "none"]
    /\ UNCHANGED <<fixed, shared, i, arg, taken, life, forkFailed, kills>>

(* Mutant: the handler only kills. *)
HandlerKeeps(p) ==
    /\ Alive(p) /\ sig[p] = "pending"
    /\ sig' = [sig EXCEPT ![p] = "handling"]
    /\ UNCHANGED <<fixed, pc, shared, i, arg, taken, life, ghosts>>

(* releaseSHM(): as long as shmid is not assigned it is 0.                 *)
HandlerRemoves(p) ==
    /\ Alive(p) /\ sig[p] = "pending"
    /\ sig' = [sig EXCEPT ![p] = "handling"]
    /\ IF known THEN seg' = "removed" /\ foreign' = foreign
                ELSE foreign' = FALSE /\ seg' = seg
    /\ UNCHANGED <<fixed, pc, shared, i, arg, taken, known, ghosts>>

(* Mutant: nobody is killed. *)
HandlerReturns(p) ==
    /\ Alive(p) /\ sig[p] = "handling"
    /\ sig' = [sig EXCEPT ![p] = "none"]
    /\ UNCHANGED <<fixed, pc, shared, i, arg, taken, life, ghosts>>

(* kill(0, SIGKILL)                                                        *)
HandlerKills(p) ==
    /\ Alive(p) /\ sig[p] = "handling"
    /\ pc' = [q \in Procs |-> IF Alive(q) THEN "ended" ELSE pc[q]]
    /\ sig' = [q \in Procs |-> "none"]
    /\ UNCHANGED <<fixed, shared, i, arg, taken, life, ghosts>>

Kill(p) ==
    /\ Alive(p) /\ kills < MaxKills /\ ExitOf(p)
    /\ kills' = kills + 1
    /\ UNCHANGED <<fixed, shared, i, arg, taken, life, interrupted, forkFailed>>

-----------------------------------------------------------------------------
(* A new segment holds zeros.                                              *)
Init ==
    /\ program \in {"part1", "part2"} /\ build \in {"O0", "O2"}
    /\ pc = [parent |-> "start", child |-> "none"]
    /\ sig = [p \in Procs |-> "none"]
    /\ flag = 0 /\ n = 0 /\ i = 1 /\ arg = 0 /\ taken = <<>>
    /\ seg = "none" /\ known = FALSE /\ foreign = TRUE
    /\ interrupted = FALSE /\ forkFailed = FALSE /\ kills = 0

Setup  == Signal \/ Shmget \/ Assign \/ Fork \/ ForkFails
Parent == Setup \/ Attach("parent") \/ Clear \/ ParentTest \/ SetFlag \/ SetN \/ Wait \/ Remove
Child  == Exec \/ Attach("child") \/ ChildTest \/ ClearFlag \/ ReadArg \/ ReadNum

Handler(p) == HandlerRemoves(p) \/ HandlerKills(p)

Next == Parent \/ Child \/ Interrupt \/ \E p \in Procs : Handler(p) \/ Kill(p)

(* The system runs both processes and delivers their signals; the user     *)
(* types a name.                                                           *)
Fairness ==
    /\ WF_vars(Parent) /\ WF_vars(Child)
    /\ \A p \in Procs : WF_vars(Handler(p))

Spec == Init /\ [][Next]_vars /\ Fairness

-----------------------------------------------------------------------------
(* Properties.                                                             *)

Points == {"none", "start", "get", "got", "fork", "exec", "attach", "clear", "test",
           "flag", "n", "arg", "num", "wait", "remove", "ended"}

TypeOK ==
    /\ program \in {"part1", "part2"} /\ build \in {"O0", "O2"}
    /\ pc \in [Procs -> Points]
    /\ sig \in [Procs -> {"none", "pending", "handling"}]
    /\ flag \in {0, 1} /\ n \in 0..Rounds /\ i \in 1..(Rounds + 1) /\ arg \in 0..Rounds
    /\ taken \in Seq([num : 0..Rounds, arg : 0..Rounds])
    /\ seg \in {"none", "there", "removed"}
    /\ known \in BOOLEAN /\ foreign \in BOOLEAN
    /\ interrupted \in BOOLEAN /\ forkFailed \in BOOLEAN /\ kills \in 0..MaxKills

(* Optimized, the k-th number the child takes is k.  Unoptimized, it may   *)
(* be the one before, which the parent has not yet overwritten, or the one *)
(* after, which it already has, and what is printed may be the number of   *)
(* one round and the factorial of an earlier one; but never further off    *)
(* (part1.c:78-86, 100-109; part_exec.c:38-46).                            *)
Handover ==
    \A k \in 1..Len(taken) :
        /\ build = "O2" => taken[k].num = k /\ taken[k].arg = k
        /\ taken[k].arg \in (k - 1)..(k + 1)
        /\ taken[k].num \in taken[k].arg..(k + 1)

(* When both have ended the segment has been removed, however SIGINT fell  *)
(* between their steps, unless a process was killed from outside, fork()   *)
(* failed, or the handler ran before shmid was assigned: then it removes   *)
(* the segment 0 of another program (releaseSHM, main).                    *)
CleanedUp ==
    AllEnded /\ kills = 0 /\ ~forkFailed /\ foreign => seg # "there"

(* Ctrl-C ends both, whichever handler runs first and also when the child  *)
(* has none any more or has been lost (part1.c:37, part2.c:32).            *)
InterruptEnds == interrupted ~> AllEnded

(* Without Ctrl-C both end, and all numbers have been taken, if the child  *)
(* was not lost and nobody was killed: neither waits for the other for     *)
(* ever (main).                                                            *)
ChildLost == Ended("child") /\ Len(taken) < Rounds

HandsOver ==
    <>(\/ AllEnded /\ Len(taken) = Rounds
       \/ interrupted \/ forkFailed \/ kills > 0 \/ ChildLost
       \/ Ended("parent") /\ seg = "none")
=============================================================================
