------------------------------ MODULE Counter -------------------------------
(***************************************************************************)
(* The threads of thread/: each adds to a shared counter in a loop.  In    *)
(* mutexes.c main runs loop(), under a semaphore of m slots and a lock,    *)
(* and then loop2(), under the lock alone; in raceCond.c two threads run   *)
(* increment(), with neither.                                              *)
(*                                                                         *)
(* counter++ is a load and a store.  Without a lock to keep them in it,    *)
(* gcc -O2 moves both out of the loop: one load, one store of the sum.     *)
(***************************************************************************)
EXTENDS Integers, FiniteSets

CONSTANTS
    Loops,          \* rounds of each thread: 10000
    MaxThreads,     \* the largest n a user types
    MaxSlots        \* the largest m

(* mutexes.c has an array for five threads.                                *)
ASSUME LoopsAssumption   == Loops \in Nat /\ Loops >= 2
ASSUME ThreadsAssumption == MaxThreads \in 0..5
ASSUME SlotsAssumption   == MaxSlots \in Nat

Threads == 1..5

VARIABLES
    mode,       \* what the threads run: loop, loop2, raceO0 or raceO2
    threads,    \* n
    slots,      \* m
    main,       \* what main does: create, join, report, over
    k,          \* the thread it creates or joins next
    pc, tmp,    \* of each thread: what it does next, the value it loaded
    added,      \* how much each thread has added
    sem,        \* free slots of the semaphore
    lock,       \* who has the lock, 0 for nobody
    counter,
    printed     \* what main has printed

config == <<threads, slots>>
locals == <<tmp, added>>
vars   == <<mode, config, main, k, pc, locals, sem, lock, counter, printed>>

Racing == mode \in {"raceO0", "raceO2"}

(* Where a round begins.                                                   *)
First == IF mode = "loop" THEN "sem" ELSE IF mode = "loop2" THEN "lock" ELSE "load"

(* Mutant: one round less. *)
AgainShort(sum) == IF sum < Loops - 1 THEN First ELSE "done"

(* Mutant: one round more. *)
AgainMore(sum) == IF sum <= Loops THEN First ELSE "done"

Again(sum) == IF sum < Loops THEN First ELSE "done"

Move(t, at) == pc' = [pc EXCEPT ![t] = at]

-----------------------------------------------------------------------------
(* main().                                                                 *)

Create ==
    /\ main = "create"
    /\ IF k <= threads
       THEN Move(k, First) /\ k' = k + 1 /\ main' = main
       ELSE main' = "join" /\ k' = 1 /\ pc' = pc
    /\ UNCHANGED <<mode, config, locals, sem, lock, counter, printed>>

(* Mutant: nobody is waited for. *)
JoinNot ==
    /\ main = "join"
    /\ main' = "report" /\ k' = k
    /\ UNCHANGED <<mode, config, pc, locals, sem, lock, counter, printed>>

Join ==
    /\ main = "join"
    /\ IF k <= threads
       THEN pc[k] = "done" /\ k' = k + 1 /\ main' = main
       ELSE main' = "report" /\ k' = k
    /\ UNCHANGED <<mode, config, pc, locals, sem, lock, counter, printed>>

(* The counter is printed; between the two loops it starts anew.           *)
Report ==
    /\ main = "report"
    /\ printed' = printed \cup {counter}
    /\ IF mode = "loop"
       THEN /\ mode' = "loop2" /\ main' = "create" /\ k' = 1
            /\ counter' = 0 /\ added' = [t \in Threads |-> 0]
            /\ pc' = [t \in Threads |-> "none"]
       ELSE main' = "over" /\ UNCHANGED <<mode, k, counter, added, pc>>
    /\ UNCHANGED <<config, tmp, sem, lock>>

-----------------------------------------------------------------------------
(* A thread.                                                               *)

SemWait(t) ==
    /\ pc[t] = "sem" /\ sem > 0
    /\ sem' = sem - 1 /\ Move(t, "lock")
    /\ UNCHANGED <<mode, config, main, k, locals, lock, counter, printed>>

(* Mutant: the lock is not looked at. *)
LockBlind(t) ==
    /\ pc[t] = "lock"
    /\ lock' = t /\ Move(t, "load")
    /\ UNCHANGED <<mode, config, main, k, locals, sem, counter, printed>>

Lock(t) ==
    /\ pc[t] = "lock" /\ lock = 0
    /\ lock' = t /\ Move(t, "load")
    /\ UNCHANGED <<mode, config, main, k, locals, sem, counter, printed>>

Load(t) ==
    /\ pc[t] = "load"
    /\ tmp' = [tmp EXCEPT ![t] = counter] /\ Move(t, "store")
    /\ UNCHANGED <<mode, config, main, k, added, sem, lock, counter, printed>>

Amount == IF mode = "raceO2" THEN Loops ELSE 1

Store(t) ==
    /\ pc[t] = "store"
    /\ counter' = tmp[t] + Amount
    /\ added' = [added EXCEPT ![t] = @ + Amount]
    /\ Move(t, IF Racing THEN Again(added[t] + Amount) ELSE "unlock")
    /\ UNCHANGED <<mode, config, main, k, tmp, sem, lock, printed>>

Unlock(t) ==
    /\ pc[t] = "unlock"
    /\ lock' = 0
    /\ Move(t, IF mode = "loop" THEN "signal" ELSE Again(added[t]))
    /\ UNCHANGED <<mode, config, main, k, locals, sem, counter, printed>>

(* Mutant: the slot is given back twice. *)
SemSignalTwice(t) ==
    /\ pc[t] = "signal"
    /\ sem' = sem + 2 /\ Move(t, Again(added[t]))
    /\ UNCHANGED <<mode, config, main, k, locals, lock, counter, printed>>

(* Mutant: the slot is not given back by the last round. *)
SemSignalForgotten(t) ==
    /\ pc[t] = "signal"
    /\ sem' = (IF added[t] < Loops THEN sem + 1 ELSE sem) /\ Move(t, Again(added[t]))
    /\ UNCHANGED <<mode, config, main, k, locals, lock, counter, printed>>

SemSignal(t) ==
    /\ pc[t] = "signal"
    /\ sem' = sem + 1 /\ Move(t, Again(added[t]))
    /\ UNCHANGED <<mode, config, main, k, locals, lock, counter, printed>>

-----------------------------------------------------------------------------
Init ==
    /\ \/ mode \in {"raceO0", "raceO2"} /\ threads = 2 /\ slots = 0
       \/ mode = "loop" /\ threads \in 0..MaxThreads /\ slots \in 0..MaxSlots
    /\ main = "create" /\ k = 1
    /\ pc = [t \in Threads |-> "none"]
    /\ tmp = [t \in Threads |-> 0] /\ added = [t \in Threads |-> 0]
    /\ sem = slots /\ lock = 0 /\ counter = 0 /\ printed = {}

Main      == Create \/ Join \/ Report
Thread(t) == SemWait(t) \/ Lock(t) \/ Load(t) \/ Store(t) \/ Unlock(t) \/ SemSignal(t)

Next == Main \/ \E t \in Threads : Thread(t)

(* The system runs main and every thread that can go on.                   *)
Spec == Init /\ [][Next]_vars /\ WF_vars(Main) /\ \A t \in Threads : WF_vars(Thread(t))

-----------------------------------------------------------------------------
(* Properties.                                                             *)

TypeOK ==
    /\ mode \in {"loop", "loop2", "raceO0", "raceO2"}
    /\ threads \in 0..5 /\ slots \in Nat
    /\ main \in {"create", "join", "report", "over"} /\ k \in 1..6
    /\ pc \in [Threads -> {"none", "sem", "lock", "load", "store", "unlock", "signal", "done"}]
    /\ tmp \in [Threads -> Nat] /\ added \in [Threads -> 0..Loops]
    /\ sem \in Nat /\ lock \in 0..5 /\ counter \in Nat
    /\ printed \subseteq Nat

(* Under the lock nothing is lost: the counter is what the threads have    *)
(* added, and the free slots and the threads between wait and signal are m *)
(* together, so that no more than m threads are there (loop, loop2).       *)
Total   == added[1] + added[2] + added[3] + added[4] + added[5]
Holding == {t \in Threads : mode = "loop" /\ pc[t] \in {"lock", "load", "store", "unlock", "signal"}}

NothingLost ==
    ~Racing => counter = Total /\ sem + Cardinality(Holding) = slots

(* mutexes.c prints the same sum twice, that of all rounds of all threads  *)
(* (mutexes.c:8, 12).  raceCond.c prints a number from 2 on, however few   *)
(* updates survive: the last one of a thread is on top of one of its own   *)
(* or a later one (raceCond.c:24-25).  Optimized, it is one or both sums.  *)
PrintedRight ==
    \A v \in printed :
        /\ ~Racing => v = threads * Loops
        /\ mode = "raceO0" => v \in 2..(2 * Loops)
        /\ mode = "raceO2" => v \in {Loops, 2 * Loops}

(* The programs end, unless threads wait for a semaphore of no slots       *)
(* (mutexes.c:31, 70).                                                     *)
Ends == (slots > 0 \/ threads = 0 \/ Racing) => <>(main = "over")
=============================================================================
