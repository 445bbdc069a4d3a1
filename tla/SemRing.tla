------------------------------ MODULE SemRing -------------------------------
(***************************************************************************)
(* The ring of assignments/as5: p1.c, p2.c and p3.c share a set of four    *)
(* System V semaphores, one per section, and pass a token around it.       *)
(*                                                                         *)
(* Every operation has the flag SEM_UNDO, so the system keeps an           *)
(* adjustment per process and semaphore and adds it when the process ends. *)
(* The semaphores are the system's, not the repository's: SemOp, Exit and  *)
(* SetAll say what semop(), exit_sem() and semctl(SETALL) do in Linux.     *)
(***************************************************************************)
EXTENDS Integers, Sequences

CONSTANTS
    SemLimit,       \* SEMVMX and SEMAEM: 32767 in Linux
    P1First,        \* only a dead ring is started again, and p1 first
    MaxKills,       \* bound: processes killed
    MaxRestarts     \* bound: processes started again

ASSUME LimitAssumption  == SemLimit \in Nat \ {0}
ASSUME P1FirstAssumption == P1First \in BOOLEAN
ASSUME BoundsAssumption == MaxKills \in Nat /\ MaxRestarts \in Nat

Sems  == 0..3
Procs == {"p1", "p2", "p3"}

VARIABLES
    sem,        \* the values of the semaphores
    adj,        \* per process, the adjustments to make when it ends
    state,      \* of each process
    at,         \* the call of semop() that is next in its loop
    last,       \* ghost: the section entered last
    rings,      \* ghost: the times the semaphores were set
    kills, restarts

vars == <<sem, adj, state, at, last, rings, kills, restarts>>

(* The loop of each program: its calls of semop(), in order.  A section    *)
(* follows each Acquire.                                                   *)
Acquire(s) == [num |-> s, op |-> -1]
Release(s) == [num |-> s, op |-> 1]

(* Mutant: p3 releases the semaphore of its own section. *)
LoopOwn == [p1 |-> <<Acquire(0), Release(1)>>,
            p2 |-> <<Acquire(1), Release(2), Acquire(3), Release(0)>>,
            p3 |-> <<Acquire(2), Release(2)>>]

Loop == [p1 |-> <<Acquire(0), Release(1)>>,
         p2 |-> <<Acquire(1), Release(2), Acquire(3), Release(0)>>,
         p3 |-> <<Acquire(2), Release(3)>>]

(* The section before each call, 0 where there is none.                    *)
SectionAt == [p1 |-> <<0, 1>>, p2 |-> <<0, 2, 0, 4>>, p3 |-> <<0, 3>>]

Running(p)   == state[p] = "running"
Alive(p)     == state[p] \in {"setall", "running"}
Section(p)   == SectionAt[p][at[p]]
InSection(p) == Running(p) /\ Section(p) # 0

Call(p)   == Loop[p][at[p]]
NextAt(p) == IF at[p] = Len(Loop[p]) THEN 1 ELSE at[p] + 1

NoAdj == [s \in Sems |-> 0]

(* semget() creates the semaphores, with zeros, if they are not there;     *)
(* what an earlier ring left in them is still there.                       *)
Start(p) ==
    /\ state[p] = "new"
    /\ P1First /\ restarts > 0 /\ p # "p1" => Running("p1")
    /\ state' = [state EXCEPT ![p] = IF p = "p1" THEN "setall" ELSE "running"]
    /\ UNCHANGED <<sem, adj, at, last, rings, kills, restarts>>

(* Mutant: every semaphore is initialized to 1. *)
SetAllOnes ==
    /\ state["p1"] = "setall"
    /\ sem' = [s \in Sems |-> 1]
    /\ adj' = [p \in Procs |-> NoAdj]
    /\ state' = [state EXCEPT !["p1"] = "running"]
    /\ last' = 4 /\ rings' = rings + 1
    /\ UNCHANGED <<at, kills, restarts>>

(* p1 sets the four values, which clears the adjustments of all processes. *)
SetAll ==
    /\ state["p1"] = "setall"
    /\ sem' = [s \in Sems |-> IF s = 0 THEN 1 ELSE 0]
    /\ adj' = [p \in Procs |-> NoAdj]
    /\ state' = [state EXCEPT !["p1"] = "running"]
    /\ last' = 4 /\ rings' = rings + 1
    /\ UNCHANGED <<at, kills, restarts>>

(* Mutant: an adjusted value may be below zero. *)
UndoneNegative(v, a) == IF v + a > SemLimit THEN SemLimit ELSE v + a

(* The value v of a semaphore once a process with adjustment a has ended.  *)
Undone(v, a) == IF v + a < 0 THEN 0 ELSE IF v + a > SemLimit THEN SemLimit ELSE v + a

Exit(p) ==
    /\ sem' = [s \in Sems |-> Undone(sem[s], adj[p][s])]
    /\ adj' = [adj EXCEPT ![p] = NoAdj]
    /\ state' = [state EXCEPT ![p] = "ended"]
    /\ at' = [at EXCEPT ![p] = 1]

(* The new value, then the new adjustment, must be in range.               *)
Blocked(p) == sem[Call(p).num] + Call(p).op < 0
OutOfRange(p) ==
    \/ sem[Call(p).num] + Call(p).op > SemLimit
    \/ adj[p][Call(p).num] - Call(p).op \notin (-SemLimit - 1)..SemLimit

SemOp(p) ==
    /\ Running(p) /\ ~Blocked(p) /\ ~OutOfRange(p)
    /\ sem' = [sem EXCEPT ![Call(p).num] = @ + Call(p).op]
    /\ adj' = [adj EXCEPT ![p][Call(p).num] = @ - Call(p).op]
    /\ at' = [at EXCEPT ![p] = NextAt(p)]
    /\ last' = IF InSection(p) THEN last ELSE SectionAt[p][NextAt(p)]
    /\ UNCHANGED <<state, rings, kills, restarts>>

(* semop() fails with ERANGE: the program prints the error and exits.      *)
SemOpFails(p) ==
    /\ Running(p) /\ ~Blocked(p) /\ OutOfRange(p)
    /\ Exit(p)
    /\ UNCHANGED <<last, rings, kills, restarts>>

Kill(p) ==
    /\ Alive(p) /\ kills < MaxKills
    /\ kills' = kills + 1
    /\ Exit(p)
    /\ UNCHANGED <<last, rings, restarts>>

Restart(p) ==
    /\ state[p] = "ended" /\ restarts < MaxRestarts
    /\ P1First => \A q \in Procs : ~Alive(q)
    /\ restarts' = restarts + 1
    /\ state' = [state EXCEPT ![p] = "new"]
    /\ UNCHANGED <<sem, adj, at, last, rings, kills>>

Init ==
    /\ sem = NoAdj
    /\ adj = [p \in Procs |-> NoAdj]
    /\ state = [p \in Procs |-> "new"]
    /\ at = [p \in Procs |-> 1]
    /\ last = 4 /\ rings = 0
    /\ kills = 0 /\ restarts = 0

Proc(p) == Start(p) \/ SemOp(p) \/ SemOpFails(p) \/ (p = "p1" /\ SetAll)

Next == \E p \in Procs : Proc(p) \/ Kill(p) \/ Restart(p)

(* Every program is started, and the system runs each that can go on.      *)
Fairness == \A p \in Procs : WF_vars(Proc(p))

Spec == Init /\ [][Next]_vars /\ Fairness

-----------------------------------------------------------------------------
(* Properties.                                                             *)

TypeOK ==
    /\ sem \in [Sems -> 0..SemLimit]
    /\ adj \in [Procs -> [Sems -> (-SemLimit - 1)..SemLimit]]
    /\ state \in [Procs -> {"new", "setall", "running", "ended"}]
    /\ at \in [Procs -> 1..4]
    /\ last \in 1..4 /\ rings \in Nat
    /\ kills \in 0..MaxKills /\ restarts \in 0..MaxRestarts

(* No two programs are in their sections at once, whichever of them are    *)
(* killed and whatever the system then adds to the semaphores: a token is  *)
(* lost with its process and never doubled.  A ring after the first one is *)
(* safe if all of the last has ended and p1 starts first: its SETALL makes *)
(* good what the last one left (the loops of p1, p2, p3).                  *)
MutualExclusion == \A p, q \in Procs : InSection(p) /\ InSection(q) => p = q

(* In each ring the sections are entered in the order p1, p2 section 1,    *)
(* p3, p2 section 2, and the next one only when the last is left, also     *)
(* when programs are killed (p1.c:10-12).                                  *)
Occupied == {Section(p) : p \in {q \in Procs : InSection(q)}}

Ring == INSTANCE Turns WITH inside <- Occupied

TakesTurns == Ring!Spec

(* If nobody is killed the ring goes round until the adjustment of p1 on   *)
(* its own semaphore reaches the limit of the system: no program waits for *)
(* another that waits for it before (the loops of p1, p2, p3).             *)
RunsToLimit == <>(kills > 0 \/ adj["p1"][0] = SemLimit)
=============================================================================
