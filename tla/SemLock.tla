------------------------------ MODULE SemLock -------------------------------
(***************************************************************************)
(* assignments/as5/sample.c: a process sets a semaphore to 1 and forks;    *)
(* parent and child then take turns at a critical section in endless loops.*)
(*                                                                         *)
(* The semaphore belongs to the directory (ftok), so every launch of the   *)
(* program there uses the same one.  What semop(), SETVAL and the end of a *)
(* process do to it is Linux's: a process that cannot decrement waits in a *)
(* queue, and whoever raises the semaphore performs the operations of the  *)
(* first in the queue before it returns.                                   *)
(***************************************************************************)
EXTENDS Integers, Sequences, FiniteSets

CONSTANTS
    Launches,       \* the times the program is started
    Alone,          \* it is started only when the last launch has ended
    SemLimit,       \* SEMVMX and SEMAEM: 32767 in Linux
    MaxKills        \* bound: processes killed

ASSUME LaunchesAssumption == IsFiniteSet(Launches) /\ Cardinality(Launches) =< SemLimit
ASSUME AloneAssumption    == Alone \in BOOLEAN
ASSUME LimitAssumption    == SemLimit \in Nat \ {0}
ASSUME KillsAssumption    == MaxKills \in Nat

Procs == Launches \X {"parent", "child"}

VARIABLES
    sem,        \* the value of the semaphore
    adj,        \* per process, the adjustment to make when it ends
    queue,      \* the processes that wait in P
    state,      \* of each process
    kills

vars == <<sem, adj, queue, state, kills>>

Alive(p)     == state[p] \notin {"none", "ended"}
InSection(p) == state[p] = "section"

NoAdj == [p \in Procs |-> 0]

(* The semaphore has the value v, the processes q wait: the first of them  *)
(* go on as far as v allows, with adjustments a and states st before.      *)
Settle(v, q, a, st) ==
    LET n == IF v < Len(q) THEN v ELSE Len(q)
        go == {q[i] : i \in 1..n}
    IN  /\ sem' = v - n
        /\ queue' = SubSeq(q, n + 1, Len(q))
        /\ adj' = [p \in Procs |-> IF p \in go THEN a[p] + 1 ELSE a[p]]
        /\ state' = [p \in Procs |-> IF p \in go THEN "section" ELSE st[p]]

Clip(v) == IF v < 0 THEN 0 ELSE IF v > SemLimit THEN SemLimit ELSE v

(* The queue without the process p.                                        *)
Without(q, p) ==
    IF \A i \in 1..Len(q) : q[i] # p THEN q
    ELSE LET k == CHOOSE i \in 1..Len(q) : q[i] = p
         IN  [i \in 1..Len(q) - 1 |-> q[IF i < k THEN i ELSE i + 1]]

(* The system ends a process: its adjustment is made, the lock passed on.  *)
Exit(p) == Settle(Clip(sem + adj[p]), Without(queue, p),
                  [adj EXCEPT ![p] = 0], [state EXCEPT ![p] = "ended"])

(* Mutant: the semaphore is set to 2. *)
SetvalTwo(l) ==
    /\ state[<<l, "parent">>] = "none"
    /\ Alone => \A p \in Procs : ~Alive(p)
    /\ Settle(2, queue, NoAdj, [state EXCEPT ![<<l, "parent">>] = "set"])
    /\ UNCHANGED kills

(* A launch: semget() and SETVAL, which clears the adjustments of all.     *)
Setval(l) ==
    /\ state[<<l, "parent">>] = "none"
    /\ Alone => \A p \in Procs : ~Alive(p)
    /\ Settle(1, queue, NoAdj, [state EXCEPT ![<<l, "parent">>] = "set"])
    /\ UNCHANGED kills

(* The child inherits no adjustment.                                       *)
Fork(l) ==
    /\ state[<<l, "parent">>] = "set"
    /\ state' = [state EXCEPT ![<<l, "parent">>] = "outside",
                              ![<<l, "child">>] = "outside"]
    /\ UNCHANGED <<sem, adj, queue, kills>>

ForkFails(l) ==
    /\ state[<<l, "parent">>] = "set"
    /\ Exit(<<l, "parent">>)
    /\ UNCHANGED kills

(* Mutant: the flag SEM_UNDO is forgotten in P. *)
PNotUndone(p) ==
    /\ state[p] = "outside"
    /\ IF sem > 0
       THEN /\ sem' = sem - 1 /\ state' = [state EXCEPT ![p] = "section"]
            /\ UNCHANGED <<adj, queue>>
       ELSE /\ queue' = Append(queue, p) /\ state' = [state EXCEPT ![p] = "waiting"]
            /\ UNCHANGED <<sem, adj>>
    /\ UNCHANGED kills

P(p) ==
    /\ state[p] = "outside"
    /\ IF sem > 0
       THEN /\ sem' = sem - 1 /\ adj' = [adj EXCEPT ![p] = @ + 1]
            /\ state' = [state EXCEPT ![p] = "section"]
            /\ UNCHANGED queue
       ELSE /\ queue' = Append(queue, p) /\ state' = [state EXCEPT ![p] = "waiting"]
            /\ UNCHANGED <<sem, adj>>
    /\ UNCHANGED kills

(* Mutant: the operation raises the semaphore by 2. *)
VTwice(p) ==
    /\ InSection(p)
    /\ Settle(sem + 2, queue, [adj EXCEPT ![p] = @ - 2],
              [state EXCEPT ![p] = "outside"])
    /\ UNCHANGED kills

(* Mutant: the lock is not given back. *)
VForgotten(p) ==
    /\ InSection(p)
    /\ state' = [state EXCEPT ![p] = "outside"]
    /\ UNCHANGED <<sem, adj, queue, kills>>

(* The limits of the system are not reached: each launch raises the        *)
(* semaphore by one at the most.                                           *)
V(p) ==
    /\ InSection(p)
    /\ Settle(sem + 1, queue, [adj EXCEPT ![p] = @ - 1],
              [state EXCEPT ![p] = "outside"])
    /\ UNCHANGED kills

Kill(p) ==
    /\ Alive(p) /\ kills < MaxKills
    /\ kills' = kills + 1
    /\ Exit(p)

Init ==
    /\ sem = 0 /\ adj = NoAdj /\ queue = <<>>
    /\ state = [p \in Procs |-> "none"]
    /\ kills = 0

Launch(l) == Setval(l) \/ Fork(l) \/ ForkFails(l)
Loop(p)   == P(p) \/ V(p)

Next ==
    \/ \E l \in Launches : Launch(l)
    \/ \E p \in Procs : Loop(p) \/ Kill(p)

(* The system runs each process that can go on.                            *)
Spec == Init /\ [][Next]_vars /\ \A p \in Procs : WF_vars(Loop(p))

-----------------------------------------------------------------------------
(* Properties.                                                             *)

TypeOK ==
    /\ sem \in 0..SemLimit
    /\ adj \in [Procs -> (-SemLimit - 1)..SemLimit]
    /\ queue \in Seq(Procs)
    /\ state \in [Procs -> {"none", "set", "outside", "waiting", "section", "ended"}]
    /\ kills \in 0..MaxKills

(* No two processes are in the critical section at once, also when some    *)
(* are killed there (sample.c:97-106, 109-118).                            *)
MutualExclusion == \A p, q \in Procs : InSection(p) /\ InSection(q) => p = q

(* A process that is killed does not take the lock with it: while somebody *)
(* is in the loop the semaphore is 1 or somebody is in the section, and    *)
(* nobody waits for a free semaphore (SEM_UNDO: sample.c:51, 55).          *)
LockNotLost ==
    (\E p \in Procs : Alive(p)) =>
        /\ sem = 1 \/ \E p \in Procs : InSection(p)
        /\ sem = 1 => queue = <<>>

(* Whoever waits goes on, though the parent asks again at once when it     *)
(* leaves (sample.c:116) and holders are killed.                           *)
EveryWaitEnds == \A p \in Procs : state[p] = "waiting" ~> state[p] # "waiting"
=============================================================================
