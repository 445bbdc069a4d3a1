--------------------------- MODULE SemRingProofs ----------------------------
(***************************************************************************)
(* Proofs about SemRing, for every limit of the system and any number of   *)
(* kills and restarts.                                                     *)
(*                                                                         *)
(* The semaphore s is acquired by one program, Consumer(s), and only that  *)
(* program may hold a positive adjustment on it.  So what the system adds  *)
(* when another program ends can only lower it, and what it adds when the  *)
(* consumer itself ends does not matter: nobody waits on it any more.      *)
(***************************************************************************)
EXTENDS SemRing, TLAPS

Consumer(s) == IF s = 0 THEN "p1" ELSE IF s = 2 THEN "p3" ELSE "p2"

(* The section entered before the one that Acquire(s) enters.              *)
Before(s) == IF s = 0 THEN 4 ELSE s

(* The program acquires s now, or may yet be started to do so.             *)
CanConsume(s) ==
    \/ Running(Consumer(s))
    \/ /\ state[Consumer(s)] = "new"
       /\ P1First /\ restarts > 0 => Running("p1")

Token(s) == CanConsume(s) /\ sem[s] = 1

(* The ring is there: p1 has set the semaphores.                           *)
IsSet == state["p1"] \in {"running", "ended"}

NoAdjs == [p \in Procs |-> NoAdj]

Resting == \A p \in Procs : ~Running(p) => at[p] = 1 /\ adj[p] = NoAdj

AtInLoop == \A p \in Procs : at[p] \in 1..Len(Loop[p])

Quiet ==
    /\ at = [p \in Procs |-> 1] /\ adj = NoAdjs
    /\ restarts > 0 => ~Running("p2") /\ ~Running("p3")
    /\ restarts = 0 => sem = NoAdj

OnlyP1Sets == \A p \in Procs : state[p] = "setall" => p = "p1"

Binary    == \A s \in Sems : CanConsume(s) => sem[s] \in {0, 1}
OneToken  == \A s, t \in Sems : Token(s) /\ Token(t) => s = t
TokenFree == \A s \in Sems : Token(s) => \A p \in Procs : ~InSection(p)
NotOwed   == \A s \in Sems, p \in Procs : p # Consumer(s) => adj[p][s] =< 0

Core == Binary /\ OneToken /\ TokenFree /\ NotOwed /\ MutualExclusion

Orderly == P1First \/ restarts = 0

OneRing == P1First \/ MaxRestarts = 0

IInv ==
    /\ TypeOK /\ AtInLoop /\ Resting /\ OnlyP1Sets
    /\ Orderly
    /\ ~IsSet => Quiet
    /\ IsSet => Core

(* The order: the ghost knows whose turn it is.                            *)
LastOK ==
    /\ IsSet => \A s \in Sems : Token(s) => last = Before(s)
    /\ \A p \in Procs : InSection(p) => last = Section(p)

-----------------------------------------------------------------------------
(* The facts of the table of the loops that the proofs need.               *)
LEMMA Calls ==
    ASSUME TypeOK, AtInLoop, NEW p \in Procs
    PROVE  /\ Call(p).num \in Sems
           /\ Call(p).op \in {-1, 1}
           /\ NextAt(p) \in 1..Len(Loop[p])
           /\ NextAt(p) \in 1..4
           /\ Call(p).op = -1 => /\ p = Consumer(Call(p).num)
                                /\ Section(p) = 0
                                /\ SectionAt[p][NextAt(p)] = Call(p).num + 1
           /\ Call(p).op = 1 => /\ p # Consumer(Call(p).num)
                               /\ Section(p) = Before(Call(p).num)
                               /\ SectionAt[p][NextAt(p)] = 0
<1>1. Len(Loop["p1"]) = 2 /\ Len(Loop["p2"]) = 4 /\ Len(Loop["p3"]) = 2
  BY DEF Loop
<1>2. at[p] \in 1..Len(Loop[p]) /\ at[p] \in 1..4
  BY DEF AtInLoop, TypeOK
<1>3. CASE p = "p1"
  <2>1. Len(Loop[p]) = 2
    BY <1>1, <1>3
  <2>2. at[p] = 1 \/ at[p] = 2
    BY <1>2, <2>1
  <2> QED BY <1>3, <2>1, <2>2
       DEF Call, Loop, NextAt, Section, SectionAt, Acquire, Release, Consumer, Before, Sems
<1>4. CASE p = "p2"
  <2>1. Len(Loop[p]) = 4
    BY <1>1, <1>4
  <2>2. at[p] = 1 \/ at[p] = 2 \/ at[p] = 3 \/ at[p] = 4
    BY <1>2
  <2> QED BY <1>4, <2>1, <2>2
       DEF Call, Loop, NextAt, Section, SectionAt, Acquire, Release, Consumer, Before, Sems
<1>5. CASE p = "p3"
  <2>1. Len(Loop[p]) = 2
    BY <1>1, <1>5
  <2>2. at[p] = 1 \/ at[p] = 2
    BY <1>2, <2>1
  <2> QED BY <1>5, <2>1, <2>2
       DEF Call, Loop, NextAt, Section, SectionAt, Acquire, Release, Consumer, Before, Sems
<1> QED BY <1>3, <1>4, <1>5 DEF Procs

LEMMA AtFirst == \A p \in Procs : 1 \in 1..Len(Loop[p])
BY DEF Procs, Loop

(* What the end of a process leaves in a semaphore.                        *)
LEMMA UndoneRange ==
    ASSUME NEW v \in 0..SemLimit, NEW a \in (-SemLimit - 1)..SemLimit
    PROVE  Undone(v, a) \in 0..SemLimit /\ (a =< 0 => Undone(v, a) =< v)
BY LimitAssumption DEF Undone

LEMMA ExitType ==
    ASSUME TypeOK, AtInLoop, NEW p \in Procs, Exit(p)
    PROVE  /\ sem' \in [Sems -> 0..SemLimit]
           /\ adj' \in [Procs -> [Sems -> (-SemLimit - 1)..SemLimit]]
           /\ state' \in [Procs -> {"new", "setall", "running", "ended"}]
           /\ at' \in [Procs -> 1..4]
           /\ AtInLoop'
<1>1. \A s \in Sems : Undone(sem[s], adj[p][s]) \in 0..SemLimit
  BY UndoneRange DEF TypeOK
<1>2. NoAdj \in [Sems -> (-SemLimit - 1)..SemLimit]
  BY LimitAssumption DEF NoAdj
<1> QED BY <1>1, <1>2, AtFirst DEF TypeOK, AtInLoop, Exit

LEMMA SemOpType ==
    ASSUME TypeOK, AtInLoop, NEW p \in Procs, SemOp(p)
    PROVE  TypeOK' /\ AtInLoop'
<1> DEFINE s == Call(p).num
           d == Call(p).op
<1>1. s \in Sems /\ d \in {-1, 1} /\ NextAt(p) \in 1..Len(Loop[p]) /\ NextAt(p) \in 1..4
  BY Calls
<1>0. /\ d = -1 => Section(p) = 0 /\ SectionAt[p][NextAt(p)] = s + 1
      /\ d = 1 => Section(p) = Before(s)
  BY Calls
<1>2. at' \in [Procs -> 1..4] /\ AtInLoop'
  BY <1>1 DEF SemOp, TypeOK, AtInLoop
<1>3. sem' \in [Sems -> 0..SemLimit]
  <2>1. sem[s] + d \in 0..SemLimit
    BY <1>1, LimitAssumption DEF SemOp, Blocked, OutOfRange, TypeOK
  <2> QED BY <1>1, <2>1 DEF SemOp, TypeOK
<1>4. adj' \in [Procs -> [Sems -> (-SemLimit - 1)..SemLimit]]
  <2>1. adj[p][s] - d \in (-SemLimit - 1)..SemLimit
    BY <1>1, LimitAssumption DEF SemOp, OutOfRange, TypeOK
  <2>2. adj' = [adj EXCEPT ![p] = [adj[p] EXCEPT ![s] = adj[p][s] - d]]
    BY DEF SemOp, TypeOK
  <2> QED BY <1>1, <2>1, <2>2 DEF TypeOK
<1>5. last' \in 1..4
  <2>1. last' = IF InSection(p) THEN last ELSE SectionAt[p][NextAt(p)]
    BY DEF SemOp
  <2>2. Running(p)
    BY DEF SemOp
  <2>3. CASE d = -1
    BY <1>0, <1>1, <2>1, <2>3 DEF InSection, Sems
  <2>4. CASE d = 1
    <3>1. Section(p) # 0
      BY <1>0, <1>1, <2>4 DEF Before, Sems
    <3> QED BY <2>1, <2>2, <3>1 DEF InSection, TypeOK
  <2> QED BY <1>1, <2>3, <2>4
<1> QED BY <1>2, <1>3, <1>4, <1>5 DEF SemOp, TypeOK

LEMMA InitType == Init => TypeOK /\ AtInLoop
BY LimitAssumption, BoundsAssumption, AtFirst DEF Init, TypeOK, AtInLoop, NoAdj

LEMMA NextType == TypeOK /\ AtInLoop /\ [Next]_vars => TypeOK' /\ AtInLoop'
<1> SUFFICES ASSUME TypeOK, AtInLoop, [Next]_vars PROVE TypeOK' /\ AtInLoop'
  OBVIOUS
<1>1. ASSUME NEW p \in Procs, Start(p) PROVE TypeOK' /\ AtInLoop'
  BY <1>1 DEF Start, TypeOK, AtInLoop
<1>2. ASSUME SetAll PROVE TypeOK' /\ AtInLoop'
  <2>1. NoAdj \in [Sems -> (-SemLimit - 1)..SemLimit]
    BY LimitAssumption DEF NoAdj
  <2>2. sem' \in [Sems -> 0..SemLimit]
    BY <1>2, LimitAssumption DEF SetAll
  <2>3. rings' \in Nat /\ last' \in 1..4
    BY <1>2 DEF SetAll, TypeOK
  <2> QED BY <1>2, <2>1, <2>2, <2>3 DEF SetAll, TypeOK, AtInLoop
<1>3. ASSUME NEW p \in Procs, SemOpFails(p) PROVE TypeOK' /\ AtInLoop'
  BY <1>3, ExitType DEF SemOpFails, TypeOK
<1>4. ASSUME NEW p \in Procs, Kill(p) PROVE TypeOK' /\ AtInLoop'
  BY <1>4, ExitType, BoundsAssumption DEF Kill, TypeOK
<1>5. ASSUME NEW p \in Procs, Restart(p) PROVE TypeOK' /\ AtInLoop'
  BY <1>5, BoundsAssumption DEF Restart, TypeOK, AtInLoop
<1>6. CASE UNCHANGED vars
  BY <1>6 DEF vars, TypeOK, AtInLoop
<1> QED BY <1>1, <1>2, <1>3, <1>4, <1>5, <1>6, SemOpType DEF Next, Proc

(* The semaphores and the adjustments stay in the ranges of the system,    *)
(* and each program stays in its loop.                                     *)
THEOREM TypeCorrect == Spec => []TypeOK
<1>1. Spec => [](TypeOK /\ AtInLoop)
  BY InitType, NextType, PTL DEF Spec
<1> QED BY <1>1, PTL

-----------------------------------------------------------------------------
(* The inductive invariant, action by action.                              *)
IInvRest == TypeOK /\ AtInLoop /\ Resting /\ OnlyP1Sets

LEMMA InitIInv == Init => IInv
<1> SUFFICES ASSUME Init PROVE IInv
  OBVIOUS
<1>1. TypeOK /\ AtInLoop
  BY InitType
<1>2. ~IsSet /\ Quiet /\ Resting /\ OnlyP1Sets /\ Orderly
  BY DEF Init, Orderly, IsSet, Quiet, Resting, OnlyP1Sets, NoAdjs, Running, Procs
<1> QED BY <1>1, <1>2 DEF IInv

LEMMA StartIInv ==
    ASSUME IInv, NEW p \in Procs, Start(p), TypeOK', AtInLoop'
    PROVE  IInv'
<1> USE DEF Procs
<1>1. Resting' /\ OnlyP1Sets' /\ Orderly' /\ restarts' = restarts
  BY DEF IInv, Orderly, TypeOK, Start, Resting, OnlyP1Sets, Running
<1>2. ASSUME ~IsSet' PROVE Quiet'
  <2>1. ~IsSet
    BY <1>2 DEF IInv, TypeOK, Start, IsSet
  <2>2. restarts > 0 => p = "p1"
    BY <2>1 DEF Start, IsSet, Running, IInv, Orderly
  <2> QED BY <2>1, <2>2 DEF IInv, Quiet, Start, Running, TypeOK
<1>3. ASSUME IsSet' PROVE Core'
  <2>1. IsSet /\ Core
    BY <1>3 DEF IInv, TypeOK, Start, IsSet
  <2>2. \A s \in Sems : CanConsume(s)' => CanConsume(s)
    BY DEF CanConsume, Running, Start, IInv, TypeOK, Consumer, Sems
  <2>3. \A q \in Procs : InSection(q)' => InSection(q)
    <3>1. at[p] = 1
      BY DEF IInv, Resting, Start, Running
    <3>2. SectionAt[p][1] = 0
      BY DEF SectionAt
    <3> QED BY <3>1, <3>2 DEF InSection, Running, Section, Start, IInv, TypeOK
  <2>4. sem' = sem /\ adj' = adj
    BY DEF Start
  <2>5. \A s \in Sems : Token(s)' => Token(s)
    BY <2>2, <2>4 DEF Token
  <2> QED BY <2>1, <2>2, <2>3, <2>4, <2>5
       DEF Core, Binary, OneToken, TokenFree, NotOwed, MutualExclusion
<1> QED BY <1>1, <1>2, <1>3 DEF IInv

LEMMA SetAllIInv ==
    ASSUME IInv, SetAll, TypeOK', AtInLoop'
    PROVE  IInv'
<1> USE DEF Procs
<1>1. Quiet /\ ~IsSet
  BY DEF IInv, SetAll, IsSet
<1>2. IsSet'
  BY DEF IInv, TypeOK, SetAll, IsSet
<1>3. at' = at /\ \A p \in Procs : at'[p] = 1
  BY <1>1 DEF Quiet, SetAll
<1>4. \A s \in Sems : sem'[s] = IF s = 0 THEN 1 ELSE 0
  BY DEF SetAll
<1>5. adj' = NoAdjs
  BY DEF SetAll, NoAdjs
<1>6. Resting' /\ OnlyP1Sets' /\ Orderly'
  BY <1>3, <1>5 DEF IInv, Orderly, TypeOK, SetAll, Resting, OnlyP1Sets, Running, NoAdjs
<1>7. \A p \in Procs : ~InSection(p)'
  BY <1>3 DEF InSection, Section, SectionAt
<1>8. \A s \in Sems : Token(s)' => s = 0
  BY <1>4 DEF Token
<1>9. \A s \in Sems, p \in Procs : adj'[p][s] = 0
  BY <1>5 DEF NoAdjs, NoAdj
<1> QED BY <1>2, <1>4, <1>6, <1>7, <1>8, <1>9
     DEF IInv, Core, Binary, OneToken, TokenFree, NotOwed, MutualExclusion

(* What the end of a program takes from the semaphores and never adds.     *)
LEMMA ExitTokens ==
    ASSUME IInv, NEW p \in Procs, Alive(p), Exit(p), TypeOK', IsSet', restarts' = restarts
    PROVE  /\ \A s \in Sems : CanConsume(s)' => sem'[s] \in {0, 1}
           /\ \A s \in Sems : Token(s)' => IsSet /\ Token(s)
<1> USE DEF Procs
<1>1. \A s \in Sems : CanConsume(s)' => CanConsume(s) /\ p # Consumer(s)
  BY DEF CanConsume, Running, Exit, IInv, TypeOK, Consumer, Sems
<1>2. \A s \in Sems : sem'[s] = Undone(sem[s], adj[p][s])
  BY DEF Exit
<1>3. CASE ~IsSet
  <2>1. Quiet /\ p = "p1"
    BY <1>3 DEF IInv, TypeOK, Exit, IsSet, Alive
  <2> SUFFICES ASSUME NEW s \in Sems, CanConsume(s)' PROVE sem'[s] = 0
    BY DEF Token
  <2>2. CASE restarts > 0
    <3>1. ~Running("p2") /\ ~Running("p3")
      BY <2>1, <2>2 DEF Quiet
    <3>0. P1First
      BY <2>2 DEF IInv, Orderly
    <3>2. state' = [state EXCEPT !["p1"] = "ended"]
      BY <2>1 DEF Exit
    <3>3. \A q \in Procs : ~Running(q)'
      BY <3>1, <3>2 DEF Running, IInv, TypeOK
    <3>4. Consumer(s) \in Procs
      BY DEF Consumer
    <3> QED BY <2>2, <3>0, <3>3, <3>4 DEF CanConsume
  <2>3. CASE restarts = 0
    <3>1. sem[s] = 0 /\ adj[p][s] = 0
      BY <2>1, <2>3 DEF Quiet, NoAdjs, NoAdj
    <3>2. Undone(0, 0) = 0
      BY LimitAssumption DEF Undone
    <3> QED BY <1>2, <3>1, <3>2
  <2> QED BY <2>2, <2>3 DEF IInv, TypeOK
<1>4. CASE IsSet
  <2>1. Core
    BY <1>4 DEF IInv
  <2>2. \A s \in Sems : CanConsume(s)' => sem'[s] \in {0, 1} /\ sem'[s] =< sem[s]
    <3> SUFFICES ASSUME NEW s \in Sems, CanConsume(s)'
                 PROVE  sem'[s] \in {0, 1} /\ sem'[s] =< sem[s]
      OBVIOUS
    <3>1. adj[p][s] =< 0 /\ sem[s] \in {0, 1}
      BY <1>1, <2>1 DEF Core, NotOwed, Binary
    <3>2. sem[s] \in 0..SemLimit /\ adj[p][s] \in (-SemLimit - 1)..SemLimit
      BY DEF IInv, TypeOK
    <3>3. sem'[s] \in 0..SemLimit /\ sem'[s] =< sem[s]
      BY <1>2, <3>1, <3>2, UndoneRange
    <3> QED BY <3>1, <3>3, LimitAssumption
  <2>3. \A s \in Sems : Token(s)' => Token(s)
    BY <1>1, <2>1, <2>2 DEF Token, Core, Binary
  <2> QED BY <1>4, <2>2, <2>3
<1> QED BY <1>3, <1>4

(* A program ends: nobody else comes to hold a token for it.               *)
LEMMA ExitIInv ==
    ASSUME IInv, NEW p \in Procs, Alive(p), Exit(p), TypeOK', AtInLoop', restarts' = restarts
    PROVE  IInv'
<1> USE DEF Procs
<1>1. Resting' /\ OnlyP1Sets' /\ Orderly'
  BY DEF IInv, Orderly, TypeOK, Exit, Resting, OnlyP1Sets, Running
<1>2. \A q \in Procs : InSection(q)' => InSection(q)
  BY DEF IInv, TypeOK, Exit, InSection, Section, Running
<1>3. adj' = [adj EXCEPT ![p] = NoAdj]
  BY DEF Exit
<1>4. ASSUME ~IsSet' PROVE Quiet'
  <2>1. ~IsSet /\ Quiet
    BY <1>4 DEF IInv, TypeOK, Exit, IsSet, Alive
  <2>2. at' = at /\ adj' = adj
    BY <2>1 DEF Quiet, NoAdjs, Exit
  <2>3. restarts = 0 => sem' = sem
    BY <2>1 DEF Quiet, NoAdjs, NoAdj, Exit, Undone, IInv, TypeOK
  <2> QED BY <2>1, <2>2, <2>3 DEF Quiet, Exit, Running, IInv, TypeOK
<1>5. ASSUME IsSet' PROVE Core'
  <2>1. /\ \A s \in Sems : CanConsume(s)' => sem'[s] \in {0, 1}
        /\ \A s \in Sems : Token(s)' => IsSet /\ Token(s)
    BY <1>5, ExitTokens
  <2>2. CASE ~IsSet
    <3>1. Quiet
      BY <2>2 DEF IInv
    <3>2. adj' = NoAdjs
      BY <3>1, <1>3 DEF Quiet, NoAdjs
    <3>3. \A s \in Sems, q \in Procs : adj'[q][s] = 0
      BY <3>2 DEF NoAdjs, NoAdj
    <3>4. \A q \in Procs : ~InSection(q)
      BY <3>1 DEF Quiet, InSection, Section, SectionAt
    <3> QED BY <2>1, <2>2, <3>3, <3>4, <1>2
         DEF Core, Binary, OneToken, TokenFree, NotOwed, MutualExclusion
  <2>3. CASE IsSet
    <3>1. Core
      BY <2>3 DEF IInv
    <3>2. NotOwed'
      <4>1. \A s \in Sems : NoAdj[s] = 0
        BY DEF NoAdj
      <4> QED BY <4>1, <1>3, <3>1 DEF Core, NotOwed, IInv, TypeOK
    <3> QED BY <2>1, <3>1, <3>2, <1>2
         DEF Core, Binary, OneToken, TokenFree, MutualExclusion
  <2> QED BY <2>2, <2>3
<1> QED BY <1>1, <1>4, <1>5 DEF IInv

(* A call of semop() that does not wait: the token goes into a section, or *)
(* out of one.                                                             *)
LEMMA SemOpIInv ==
    ASSUME IInv, NEW p \in Procs, SemOp(p), TypeOK', AtInLoop'
    PROVE  IInv'
<1> USE DEF Procs
<1> DEFINE s == Call(p).num
           d == Call(p).op
<1>1. /\ s \in Sems /\ d \in {-1, 1}
      /\ d = -1 => p = Consumer(s) /\ Section(p) = 0
      /\ d = 1 => p # Consumer(s) /\ Section(p) = Before(s) /\ SectionAt[p][NextAt(p)] = 0
  BY Calls DEF IInv
<1>2. Running(p) /\ state' = state /\ restarts' = restarts /\ sem[s] + d >= 0
  BY <1>1 DEF SemOp, Blocked, IInv, TypeOK
<1>3. /\ sem' = [sem EXCEPT ![s] = sem[s] + d]
      /\ adj' = [adj EXCEPT ![p] = [adj[p] EXCEPT ![s] = adj[p][s] - d]]
      /\ at' = [at EXCEPT ![p] = NextAt(p)]
  BY DEF SemOp, IInv, TypeOK
<1>4. Resting' /\ OnlyP1Sets' /\ Orderly'
  BY <1>2, <1>3 DEF IInv, Orderly, TypeOK, Resting, OnlyP1Sets, Running
<1>5. \A t \in Sems : CanConsume(t)' <=> CanConsume(t)
  BY <1>2 DEF CanConsume, Running
<1>6. IsSet
  <2> SUFFICES ASSUME ~IsSet PROVE FALSE
    OBVIOUS
  <2>1. Quiet
    BY DEF IInv
  <2>2. p # "p1"
    BY <1>2 DEF IsSet, Running
  <2>3. sem = NoAdj
    BY <1>2, <2>1, <2>2 DEF Quiet, IInv, TypeOK
  <2>4. at[p] = 1
    BY <2>1 DEF Quiet
  <2>5. d = -1
    BY <2>2, <2>4 DEF Call, Loop, Acquire
  <2>6. sem[s] = 0
    BY <1>1, <2>3 DEF NoAdj
  <2> QED BY <1>2, <2>5, <2>6
<1>7. Core /\ IsSet'
  BY <1>2, <1>6 DEF IInv, IsSet
<1>8. \A q \in Procs : q # p => (InSection(q)' <=> InSection(q))
  BY <1>2, <1>3 DEF InSection, Section, Running, IInv, TypeOK
<1>9. NotOwed'
  <2>1. \A t \in Sems, q \in Procs : q # p \/ t # s => adj'[q][t] = adj[q][t]
    BY <1>1, <1>3 DEF IInv, TypeOK
  <2>2. adj'[p][s] = adj[p][s] - d
    BY <1>1, <1>3 DEF IInv, TypeOK
  <2>3. p # Consumer(s) => adj'[p][s] =< 0
    <3>1. ASSUME p # Consumer(s) PROVE d = 1 /\ adj[p][s] =< 0
      BY <1>1, <1>7, <3>1 DEF Core, NotOwed
    <3>2. adj[p][s] \in Int
      BY <1>1 DEF IInv, TypeOK
    <3> QED BY <2>2, <3>1, <3>2
  <2> QED BY <1>7, <2>1, <2>3 DEF Core, NotOwed
<1>10. CASE d = -1
  <2>1. p = Consumer(s) /\ CanConsume(s)
    BY <1>1, <1>2, <1>10 DEF CanConsume
  <2>2. sem[s] = 1
    BY <1>1, <1>2, <1>7, <1>10, <2>1 DEF Core, Binary
  <2>3. Token(s)
    BY <2>1, <2>2 DEF Token
  <2>4. \A q \in Procs : ~InSection(q)
    BY <1>1, <1>7, <2>3 DEF Core, TokenFree
  <2>5. \A t \in Sems : t # s => ~Token(t)
    BY <1>1, <1>7, <2>3 DEF Core, OneToken
  <2>6. sem'[s] = 0 /\ \A t \in Sems : t # s => sem'[t] = sem[t]
    BY <1>1, <1>3, <1>10, <2>2 DEF IInv, TypeOK
  <2>7. \A t \in Sems : ~Token(t)'
    BY <1>5, <2>5, <2>6 DEF Token
  <2>8. Binary'
    BY <1>5, <1>7, <2>6 DEF Core, Binary
  <2>9. MutualExclusion'
    BY <1>8, <2>4 DEF MutualExclusion
  <2> QED BY <1>4, <1>7, <1>9, <2>7, <2>8, <2>9
       DEF IInv, Core, OneToken, TokenFree
<1>11. CASE d = 1
  <2>1. InSection(p)
    BY <1>1, <1>2, <1>11 DEF InSection, Before, Sems
  <2>2. \A q \in Procs : InSection(q) => q = p
    BY <1>7, <2>1 DEF Core, MutualExclusion
  <2>3. \A t \in Sems : ~Token(t)
    BY <1>7, <2>1 DEF Core, TokenFree
  <2>4. ~InSection(p)'
    BY <1>1, <1>3, <1>11 DEF InSection, Section, IInv, TypeOK
  <2>5. \A q \in Procs : ~InSection(q)'
    BY <1>8, <2>2, <2>4
  <2>6. sem'[s] = sem[s] + 1 /\ \A t \in Sems : t # s => sem'[t] = sem[t]
    BY <1>1, <1>3, <1>11 DEF IInv, TypeOK
  <2>7. CanConsume(s) => sem[s] = 0
    BY <1>1, <1>7, <2>3 DEF Core, Binary, Token
  <2>8. \A t \in Sems : Token(t)' => t = s
    BY <1>5, <2>3, <2>6 DEF Token
  <2>9. Binary'
    BY <1>1, <1>5, <1>7, <2>6, <2>7 DEF Core, Binary
  <2> QED BY <1>4, <1>7, <1>9, <2>5, <2>8, <2>9
       DEF IInv, Core, OneToken, TokenFree, MutualExclusion
<1> QED BY <1>1, <1>10, <1>11

LEMMA RestartIInv ==
    ASSUME IInv, OneRing, NEW p \in Procs, Restart(p), TypeOK', AtInLoop'
    PROVE  IInv'
<1> USE DEF Procs
<1>1. P1First
  BY BoundsAssumption DEF Restart, OneRing, IInv, TypeOK
<1>2. \A q \in Procs : ~Alive(q)
  BY <1>1 DEF Restart
<1>3. \A q \in Procs : ~Running(q) /\ ~Running(q)' /\ state'[q] # "setall"
  BY <1>2 DEF Alive, Running, Restart, IInv, TypeOK
<1>4. at' = at /\ adj' = adj /\ sem' = sem
  BY DEF Restart
<1>5. Resting' /\ OnlyP1Sets' /\ \A q \in Procs : at[q] = 1 /\ adj[q] = NoAdj
  BY <1>3, <1>4 DEF IInv, Resting, OnlyP1Sets
<1>6. ASSUME ~IsSet' PROVE Quiet'
  BY <1>1, <1>3, <1>4, <1>5 DEF Quiet, NoAdjs, IInv, TypeOK, Restart
<1>7. ASSUME IsSet' PROVE Core'
  <2>1. \A s \in Sems : ~CanConsume(s)'
    <3>1. \A s \in Sems : Consumer(s) \in Procs
      BY DEF Consumer
    <3> QED BY <1>1, <1>3, <3>1 DEF CanConsume, Restart, IInv, TypeOK
  <2>2. \A q \in Procs : ~InSection(q)'
    BY <1>3 DEF InSection
  <2>3. \A s \in Sems, q \in Procs : adj'[q][s] = 0
    BY <1>4, <1>5 DEF NoAdj
  <2> QED BY <2>1, <2>2, <2>3
       DEF Core, Binary, OneToken, TokenFree, NotOwed, MutualExclusion, Token
<1> QED BY <1>1, <1>5, <1>6, <1>7 DEF IInv, Orderly

LEMMA NextIInv == OneRing /\ IInv /\ [Next]_vars => IInv'
<1> SUFFICES ASSUME OneRing, IInv, [Next]_vars PROVE IInv'
  OBVIOUS
<1>1. TypeOK' /\ AtInLoop'
  BY NextType DEF IInv
<1>2. ASSUME NEW p \in Procs, Start(p) PROVE IInv'
  BY <1>1, <1>2, StartIInv
<1>3. ASSUME SetAll PROVE IInv'
  BY <1>1, <1>3, SetAllIInv
<1>4. ASSUME NEW p \in Procs, SemOp(p) PROVE IInv'
  BY <1>1, <1>4, SemOpIInv
<1>5. ASSUME NEW p \in Procs, SemOpFails(p) PROVE IInv'
  BY <1>1, <1>5, ExitIInv DEF SemOpFails, Running, Alive
<1>6. ASSUME NEW p \in Procs, Kill(p) PROVE IInv'
  BY <1>1, <1>6, ExitIInv DEF Kill
<1>7. ASSUME NEW p \in Procs, Restart(p) PROVE IInv'
  BY <1>1, <1>7, RestartIInv
<1>8. CASE UNCHANGED vars
  BY <1>8 DEF vars, IInv, TypeOK, AtInLoop, Resting, OnlyP1Sets, IsSet, Quiet, Core,
     Binary, OneToken, TokenFree, NotOwed, MutualExclusion, Token, CanConsume,
     Orderly, InSection, Section, Running
<1> QED BY <1>2, <1>3, <1>4, <1>5, <1>6, <1>7, <1>8 DEF Next, Proc

(* In one ring, or in rings one after the other that p1 begins, no two     *)
(* programs are in their sections at once, whatever is killed and however  *)
(* long it runs.                                                           *)
THEOREM Exclusion == OneRing => (Spec => []MutualExclusion)
<1>1. IInv => MutualExclusion
  <2> SUFFICES ASSUME IInv, ~IsSet PROVE MutualExclusion
    BY DEF IInv, Core
  <2>1. \A p \in Procs : ~InSection(p)
    BY DEF IInv, Quiet, InSection, Section, SectionAt, Procs
  <2> QED BY <2>1 DEF MutualExclusion
<1> SUFFICES ASSUME OneRing PROVE Spec => []MutualExclusion
  OBVIOUS
<1>2. IInv /\ [Next]_vars => IInv'
  BY NextIInv
<1> QED BY InitIInv, <1>1, <1>2, PTL DEF Spec

-----------------------------------------------------------------------------
(* The turns.                                                              *)
LEMMA SetAllLast ==
    ASSUME IInv, SetAll
    PROVE  LastOK' /\ Ring!Begin
<1> USE DEF Procs
<1>1. Quiet
  BY DEF IInv, SetAll, IsSet
<1>2. last' = 4 /\ rings' = rings + 1
  BY DEF SetAll
<1>3. \A p \in Procs : ~InSection(p) /\ ~InSection(p)'
  BY <1>1 DEF Quiet, SetAll, InSection, Section, SectionAt
<1>4. \A s \in Sems : Token(s)' => s = 0
  BY DEF SetAll, Token
<1>5. Occupied = {} /\ Occupied' = {}
  BY <1>3 DEF Occupied
<1>6. LastOK'
  BY <1>2, <1>3, <1>4 DEF LastOK, Before
<1> QED BY <1>2, <1>5, <1>6 DEF Ring!Begin

LEMMA RestartLast ==
    ASSUME OneRing, IInv, LastOK, NEW p \in Procs, Restart(p)
    PROVE  LastOK' /\ Occupied' = Occupied /\ last' = last /\ rings' = rings
<1> USE DEF Procs
<1>1. P1First /\ restarts' > 0
  BY BoundsAssumption DEF Restart, OneRing, IInv, TypeOK
<1>2. \A q \in Procs : ~Running(q) /\ ~Running(q)'
  BY <1>1 DEF Alive, Running, Restart, IInv, TypeOK
<1>3. \A s \in Sems : ~Token(s)'
  <2>1. \A s \in Sems : Consumer(s) \in Procs
    BY DEF Consumer
  <2> QED BY <1>1, <1>2, <2>1 DEF Token, CanConsume
<1>4. \A q \in Procs : ~InSection(q) /\ ~InSection(q)'
  BY <1>2 DEF InSection
<1> QED BY <1>3, <1>4 DEF LastOK, Occupied, Restart

LEMMA StartLast ==
    ASSUME IInv, LastOK, NEW p \in Procs, Start(p)
    PROVE  LastOK' /\ Occupied' = Occupied /\ last' = last /\ rings' = rings
<1> USE DEF Procs
<1>2. IsSet' <=> IsSet
  BY DEF IInv, TypeOK, Start, IsSet
<1>3. \A s \in Sems : Token(s)' => Token(s)
  BY DEF Token, CanConsume, Running, Start, IInv, TypeOK, Consumer, Sems
<1>4. at[p] = 1 /\ SectionAt[p][1] = 0
  BY DEF IInv, Resting, Start, Running, SectionAt
<1>5. \A q \in Procs : (InSection(q)' <=> InSection(q)) /\ Section(q)' = Section(q)
  BY <1>4 DEF InSection, Running, Section, Start, IInv, TypeOK
<1>6. Occupied' = Occupied /\ last' = last /\ rings' = rings
  BY <1>5 DEF Occupied, Start
<1> QED BY <1>2, <1>3, <1>5, <1>6 DEF LastOK

LEMMA ExitLast ==
    ASSUME IInv, LastOK, NEW p \in Procs, Alive(p), Exit(p), TypeOK', last' = last, restarts' = restarts
    PROVE  LastOK' /\ (Occupied' = {} \/ Occupied' = Occupied)
<1> USE DEF Procs
<1>2. IsSet' => \A s \in Sems : Token(s)' => IsSet /\ Token(s)
  BY ExitTokens
<1>3. ~IsSet' => ~IsSet
  BY DEF IInv, TypeOK, Exit, IsSet, Alive
<1>4. \A q \in Procs : InSection(q)' => InSection(q) /\ Section(q)' = Section(q)
  BY DEF IInv, TypeOK, Exit, InSection, Section, Running
<1>5. LastOK'
  BY <1>2, <1>3, <1>4 DEF LastOK
<1>6. \A q \in Procs : InSection(q)' => q # p /\ \A r \in Procs : InSection(r) => r = q
  <2>1. ~InSection(p)'
    BY DEF InSection, Running, Exit, IInv, TypeOK
  <2>2. \A q \in Procs : InSection(q) => MutualExclusion
    BY DEF IInv, Core, Quiet, InSection, Section, SectionAt
  <2> QED BY <1>4, <2>1, <2>2 DEF MutualExclusion
<1>7. ASSUME Occupied' # {} PROVE Occupied' = Occupied
  <2>1. PICK q \in Procs : InSection(q)'
    BY <1>7 DEF Occupied
  <2>2. Occupied' = {Section(q)'}
    BY <1>4, <1>6, <2>1 DEF Occupied
  <2>3. Occupied = {Section(q)}
    BY <1>4, <1>6, <2>1 DEF Occupied
  <2> QED BY <1>4, <2>1, <2>2, <2>3
<1> QED BY <1>5, <1>7

LEMMA SemOpLast ==
    ASSUME IInv, IInv', LastOK, NEW p \in Procs, SemOp(p)
    PROVE  LastOK' /\ Ring!Next
<1> USE DEF Procs
<1> DEFINE s == Call(p).num
           d == Call(p).op
<1>1. /\ s \in Sems /\ d \in {-1, 1}
      /\ d = -1 => p = Consumer(s) /\ Section(p) = 0 /\ SectionAt[p][NextAt(p)] = s + 1
      /\ d = 1 => Section(p) = Before(s) /\ SectionAt[p][NextAt(p)] = 0
  BY Calls DEF IInv
<1>2. Running(p) /\ state' = state /\ restarts' = restarts /\ sem[s] + d >= 0
  BY <1>1 DEF SemOp, Blocked, IInv, TypeOK
<1>3. /\ sem' = [sem EXCEPT ![s] = sem[s] + d]
      /\ at' = [at EXCEPT ![p] = NextAt(p)]
      /\ last' = IF InSection(p) THEN last ELSE SectionAt[p][NextAt(p)]
      /\ rings' = rings
  BY DEF SemOp
<1>4. \A t \in Sems : CanConsume(t)' <=> CanConsume(t)
  BY <1>2 DEF CanConsume, Running
<1>5. \A q \in Procs : q # p => (InSection(q)' <=> InSection(q))
  BY <1>2, <1>3 DEF InSection, Section, Running, IInv, TypeOK
<1>6. Running(p)' /\ Section(p)' = SectionAt[p][NextAt(p)]
  BY <1>2, <1>3 DEF Running, Section, IInv, TypeOK
<1>7. IsSet /\ Core /\ IsSet' /\ Core'
  <2>1. IsSet' <=> IsSet
    BY <1>2 DEF IsSet
  <2>2. ~IsSet => Quiet /\ Quiet'
    BY <2>1 DEF IInv
  <2>3. ~IsSet => NextAt(p) = 1 /\ at[p] = 1
    BY <1>3, <2>2 DEF Quiet, IInv, TypeOK
  <2>4. at[p] = 1 => NextAt(p) = 2
    <3>1. Len(Loop[p]) # 1
      BY DEF Loop
    <3> QED BY <3>1 DEF NextAt
  <2>5. IsSet
    BY <2>3, <2>4
  <2> QED BY <2>1, <2>5 DEF IInv
<1>8. CASE d = -1
  <2>1. CanConsume(s)
    BY <1>1, <1>2, <1>8 DEF CanConsume
  <2>2. sem[s] = 1
    BY <1>1, <1>2, <1>7, <1>8, <2>1 DEF Core, Binary
  <2>3. last = Before(s) /\ \A q \in Procs : ~InSection(q)
    BY <1>1, <1>7, <2>1, <2>2 DEF Token, LastOK, Core, TokenFree
  <2>4. InSection(p)' /\ Section(p)' = s + 1 /\ last' = s + 1
    BY <1>1, <1>3, <1>6, <1>8, <2>3 DEF InSection, Sems
  <2>5. \A q \in Procs : InSection(q)' => q = p
    BY <1>5, <2>3
  <2>6. \A t \in Sems : ~Token(t)'
    BY <1>7, <2>4 DEF Core, TokenFree
  <2>7. LastOK'
    BY <1>7, <2>4, <2>5, <2>6 DEF LastOK
  <2>8. Occupied = {} /\ Occupied' = {s + 1}
    BY <2>3, <2>4, <2>5 DEF Occupied
  <2>9. s + 1 \in 1..4 /\ s + 1 = (last % 4) + 1
    BY <1>1, <2>3 DEF Sems, Before
  <2>10. Ring!Enter(s + 1)
    BY <1>3, <2>4, <2>8, <2>9 DEF Ring!Enter
  <2> QED BY <2>7, <2>9, <2>10 DEF Ring!Next, Ring!Sections
<1>9. CASE d = 1
  <2>1. InSection(p)
    BY <1>1, <1>2, <1>9 DEF InSection, Before, Sems
  <2>2. last = Before(s) /\ last' = last
    BY <1>1, <1>3, <1>9, <2>1 DEF LastOK
  <2>3. \A t \in Sems : t # s => ~Token(t)'
    <3>1. \A t \in Sems : t # s => sem'[t] = sem[t]
      BY <1>1, <1>3 DEF IInv, TypeOK
    <3>2. \A t \in Sems : ~Token(t)
      BY <1>7, <2>1 DEF Core, TokenFree
    <3> QED BY <1>4, <3>1, <3>2 DEF Token
  <2>4. \A q \in Procs : ~InSection(q)'
    <3>1. ~InSection(p)'
      BY <1>1, <1>6, <1>9 DEF InSection
    <3> QED BY <1>5, <1>7, <2>1, <3>1 DEF Core, MutualExclusion
  <2>5. LastOK'
    BY <1>7, <2>2, <2>3, <2>4 DEF LastOK
  <2>6. Occupied' = {}
    BY <2>4 DEF Occupied
  <2> QED BY <1>3, <2>2, <2>5, <2>6 DEF Ring!Next, Ring!Leave
<1> QED BY <1>1, <1>8, <1>9

LEMMA InitLast == Init => LastOK /\ Ring!Init
<1> SUFFICES ASSUME Init PROVE LastOK /\ Ring!Init
  OBVIOUS
<1>1. \A p \in Procs : ~InSection(p)
  BY DEF Init, InSection, Running
<1>2. ~IsSet /\ last = 4 /\ rings = 0
  BY DEF Init, IsSet, Procs
<1>3. Occupied = {}
  BY <1>1 DEF Occupied
<1> QED BY <1>1, <1>2, <1>3 DEF LastOK, Ring!Init

LEMMA NextLast ==
    ASSUME OneRing, IInv, IInv', LastOK, [Next]_vars
    PROVE  LastOK' /\ [Ring!Next]_<<Occupied, last, rings>>
<1>1. ASSUME NEW p \in Procs, Start(p)
      PROVE  LastOK' /\ [Ring!Next]_<<Occupied, last, rings>>
  BY <1>1, StartLast
<1>2. ASSUME SetAll PROVE LastOK' /\ [Ring!Next]_<<Occupied, last, rings>>
  BY <1>2, SetAllLast DEF Ring!Next
<1>3. ASSUME NEW p \in Procs, SemOp(p)
      PROVE  LastOK' /\ [Ring!Next]_<<Occupied, last, rings>>
  BY <1>3, SemOpLast
<1>4. ASSUME NEW p \in Procs, Alive(p), Exit(p), last' = last, rings' = rings, restarts' = restarts
      PROVE  LastOK' /\ [Ring!Next]_<<Occupied, last, rings>>
  <2>1. LastOK' /\ (Occupied' = {} \/ Occupied' = Occupied)
    BY <1>4, ExitLast DEF IInv
  <2> QED BY <1>4, <2>1 DEF Ring!Next, Ring!Leave
<1>5. ASSUME NEW p \in Procs, SemOpFails(p)
      PROVE  LastOK' /\ [Ring!Next]_<<Occupied, last, rings>>
  BY <1>4, <1>5 DEF SemOpFails, Running, Alive
<1>6. ASSUME NEW p \in Procs, Kill(p)
      PROVE  LastOK' /\ [Ring!Next]_<<Occupied, last, rings>>
  BY <1>4, <1>6 DEF Kill
<1>7. ASSUME NEW p \in Procs, Restart(p)
      PROVE  LastOK' /\ [Ring!Next]_<<Occupied, last, rings>>
  BY <1>7, RestartLast
<1>8. CASE UNCHANGED vars
  <2>1. Occupied' = Occupied /\ last' = last /\ rings' = rings
    BY <1>8 DEF vars, Occupied, InSection, Section, Running
  <2>2. LastOK'
    BY <1>8 DEF vars, LastOK, IsSet, Token, CanConsume, InSection, Section, Running
  <2> QED BY <2>1, <2>2
<1> QED BY <1>1, <1>2, <1>3, <1>5, <1>6, <1>7, <1>8 DEF Next, Proc

(* The same rings implement Turns: their sections are entered in the order *)
(* of p1.c:10-12, each when the one before it is left, also by a program   *)
(* that is killed in it.                                                   *)
THEOREM Implements == OneRing => (Spec => TakesTurns)
<1> SUFFICES ASSUME OneRing PROVE Spec => TakesTurns
  OBVIOUS
<1>1. IInv /\ [Next]_vars => IInv'
  BY NextIInv
<1>2. IInv /\ IInv' /\ LastOK /\ [Next]_vars => LastOK' /\ [Ring!Next]_<<Occupied, last, rings>>
  BY NextLast
<1> QED BY InitIInv, InitLast, <1>1, <1>2, PTL DEF Spec, TakesTurns, Ring!Spec

-----------------------------------------------------------------------------
(* A ring in which nobody has ended: where it is after k calls of a round, *)
(* when r rounds are complete.                                             *)

Unharmed == kills = 0 /\ restarts = 0 /\ \A p \in Procs : state[p] # "ended"

Mover(k) == IF k \in {0, 1} THEN "p1" ELSE IF k \in {4, 5} THEN "p3" ELSE "p2"

(* How often the call number c of a round has been made.                   *)
Made(k, r, c) == IF k >= c THEN r + 1 ELSE r

AtStage(k, r) ==
    /\ \A s \in Sems : sem[s] = IF k = 2 * s THEN 1 ELSE 0
    /\ at["p1"] = IF k = 1 THEN 2 ELSE 1
    /\ at["p2"] = IF k <= 2 THEN 1 ELSE IF k = 3 THEN 2 ELSE IF k <= 6 THEN 3 ELSE 4
    /\ at["p3"] = IF k = 5 THEN 2 ELSE 1
    /\ adj["p1"][0] = Made(k, r, 1) /\ adj["p1"][1] = -Made(k, r, 2)
    /\ adj["p1"][2] = 0 /\ adj["p1"][3] = 0
    /\ adj["p2"][1] = Made(k, r, 3) /\ adj["p2"][2] = -Made(k, r, 4)
    /\ adj["p2"][3] = Made(k, r, 7) /\ adj["p2"][0] = -r
    /\ adj["p3"][2] = Made(k, r, 5) /\ adj["p3"][3] = -Made(k, r, 6)
    /\ adj["p3"][0] = 0 /\ adj["p3"][1] = 0

RoundInv ==
    Unharmed =>
        \/ ~IsSet /\ sem = NoAdj /\ adj = NoAdjs /\ at = [p \in Procs |-> 1]
        \/ Running("p1") /\ \E k \in 0..7, r \in Nat : AtStage(k, r)

(* What RunsToLimit needs of each state: somebody can make a next step.    *)
CanGoOn ==
    \E p \in Procs :
        \/ state[p] = "new" \/ (p = "p1" /\ state[p] = "setall")
        \/ Running(p) /\ ~Blocked(p)

(* The first program to fail is p1, when its adjustment is at the limit.   *)
FailsAtLimit ==
    [][\A p \in Procs : Unharmed /\ SemOpFails(p) => p = "p1" /\ adj["p1"][0] = SemLimit]_vars

(* The calls that are next.                                                *)
LEMMA StageCalls ==
    ASSUME NEW k \in 0..7, NEW r \in Nat, AtStage(k, r)
    PROVE  /\ Call("p1") = IF k = 1 THEN Release(1) ELSE Acquire(0)
           /\ Call("p2") = IF k <= 2 THEN Acquire(1) ELSE IF k = 3 THEN Release(2)
                           ELSE IF k <= 6 THEN Acquire(3) ELSE Release(0)
           /\ Call("p3") = IF k = 5 THEN Release(3) ELSE Acquire(2)
           /\ NextAt("p1") = IF k = 1 THEN 1 ELSE 2
           /\ NextAt("p2") = IF k <= 2 THEN 2 ELSE IF k = 3 THEN 3 ELSE IF k <= 6 THEN 4 ELSE 1
           /\ NextAt("p3") = IF k = 5 THEN 1 ELSE 2
<1>1. /\ Loop["p1"] = <<Acquire(0), Release(1)>>
      /\ Loop["p2"] = <<Acquire(1), Release(2), Acquire(3), Release(0)>>
      /\ Loop["p3"] = <<Acquire(2), Release(3)>>
  BY DEF Loop
<1>2. Len(Loop["p1"]) = 2 /\ Len(Loop["p2"]) = 4 /\ Len(Loop["p3"]) = 2
  BY <1>1
<1>3. /\ Loop["p1"][1] = Acquire(0) /\ Loop["p1"][2] = Release(1)
      /\ Loop["p2"][1] = Acquire(1) /\ Loop["p2"][2] = Release(2)
      /\ Loop["p2"][3] = Acquire(3) /\ Loop["p2"][4] = Release(0)
      /\ Loop["p3"][1] = Acquire(2) /\ Loop["p3"][2] = Release(3)
  BY <1>1
<1>4. /\ at["p1"] = IF k = 1 THEN 2 ELSE 1
      /\ at["p2"] = IF k <= 2 THEN 1 ELSE IF k = 3 THEN 2 ELSE IF k <= 6 THEN 3 ELSE 4
      /\ at["p3"] = IF k = 5 THEN 2 ELSE 1
  BY DEF AtStage
<1> QED BY <1>2, <1>3, <1>4 DEF Call, NextAt

(* Exactly one of them does not wait.                                      *)
LEMMA StageMover ==
    ASSUME NEW k \in 0..7, NEW r \in Nat, AtStage(k, r), NEW p \in Procs
    PROVE  ~Blocked(p) <=> p = Mover(k)
<1>1. sem[0] = (IF k = 0 THEN 1 ELSE 0) /\ sem[1] = (IF k = 2 THEN 1 ELSE 0)
      /\ sem[2] = (IF k = 4 THEN 1 ELSE 0) /\ sem[3] = (IF k = 6 THEN 1 ELSE 0)
  BY DEF AtStage, Sems
<1>2. CASE p = "p1"
  BY <1>1, <1>2, StageCalls DEF Blocked, Mover, Acquire, Release
<1>3. CASE p = "p2"
  BY <1>1, <1>3, StageCalls DEF Blocked, Mover, Acquire, Release
<1>4. CASE p = "p3"
  BY <1>1, <1>4, StageCalls DEF Blocked, Mover, Acquire, Release
<1> QED BY <1>2, <1>3, <1>4 DEF Procs

(* What a call changes.                                                    *)
LEMMA SemOpDoes ==
    ASSUME TypeOK, NEW p \in Procs, SemOp(p), NEW s \in Sems, NEW d \in {-1, 1},
           Call(p).num = s, Call(p).op = d
    PROVE  /\ \A t \in Sems : sem'[t] = IF t = s THEN sem[t] + d ELSE sem[t]
           /\ \A q \in Procs : at'[q] = IF q = p THEN NextAt(p) ELSE at[q]
           /\ \A q \in Procs, t \in Sems :
                 adj'[q][t] = IF q = p /\ t = s THEN adj[q][t] - d ELSE adj[q][t]
<1>1. sem' = [sem EXCEPT ![s] = sem[s] + d] /\ at' = [at EXCEPT ![p] = NextAt(p)]
  BY DEF SemOp
<1>2. adj' = [adj EXCEPT ![p] = [adj[p] EXCEPT ![s] = adj[p][s] - d]]
  BY DEF SemOp, TypeOK
<1> QED BY <1>1, <1>2 DEF TypeOK

LEMMA StageStep ==
    ASSUME TypeOK, NEW k \in 0..7, NEW r \in Nat, AtStage(k, r), NEW p \in Procs, SemOp(p)
    PROVE  IF k = 7 THEN AtStage(0, r + 1)' ELSE AtStage(k + 1, r)'
<1>1. p = Mover(k)
  BY StageMover DEF SemOp
<1>2. /\ "p1" \in Procs /\ "p2" \in Procs /\ "p3" \in Procs
      /\ "p1" # "p2" /\ "p1" # "p3" /\ "p2" # "p3"
      /\ Sems = {0, 1, 2, 3}
  BY DEF Procs, Sems
<1>3. Acquire(0).num = 0 /\ Acquire(1).num = 1 /\ Acquire(2).num = 2 /\ Acquire(3).num = 3
      /\ Release(0).num = 0 /\ Release(1).num = 1 /\ Release(2).num = 2 /\ Release(3).num = 3
      /\ \A s \in Sems : Acquire(s).op = -1 /\ Release(s).op = 1
  BY DEF Acquire, Release
<1> DEFINE Does(q, s, d, to) ==
        /\ \A t \in Sems : sem'[t] = IF t = s THEN sem[t] + d ELSE sem[t]
        /\ \A x \in Procs : at'[x] = IF x = q THEN to ELSE at[x]
        /\ \A x \in Procs, t \in Sems :
              adj'[x][t] = IF x = q /\ t = s THEN adj[x][t] - d ELSE adj[x][t]
<1>4. ASSUME k = 0 PROVE Does("p1", 0, -1, 2)
  BY <1>1, <1>2, <1>3, <1>4, StageCalls, SemOpDoes DEF Mover
<1>5. ASSUME k = 1 PROVE Does("p1", 1, 1, 1)
  BY <1>1, <1>2, <1>3, <1>5, StageCalls, SemOpDoes DEF Mover
<1>6. ASSUME k = 2 PROVE Does("p2", 1, -1, 2)
  BY <1>1, <1>2, <1>3, <1>6, StageCalls, SemOpDoes DEF Mover
<1>7. ASSUME k = 3 PROVE Does("p2", 2, 1, 3)
  BY <1>1, <1>2, <1>3, <1>7, StageCalls, SemOpDoes DEF Mover
<1>8. ASSUME k = 4 PROVE Does("p3", 2, -1, 2)
  BY <1>1, <1>2, <1>3, <1>8, StageCalls, SemOpDoes DEF Mover
<1>9. ASSUME k = 5 PROVE Does("p3", 3, 1, 1)
  BY <1>1, <1>2, <1>3, <1>9, StageCalls, SemOpDoes DEF Mover
<1>10. ASSUME k = 6 PROVE Does("p2", 3, -1, 4)
  BY <1>1, <1>2, <1>3, <1>10, StageCalls, SemOpDoes DEF Mover
<1>11. ASSUME k = 7 PROVE Does("p2", 0, 1, 1)
  BY <1>1, <1>2, <1>3, <1>11, StageCalls, SemOpDoes DEF Mover
<1>12. CASE k = 0
  BY <1>2, <1>4, <1>12 DEF AtStage, Made
<1>13. CASE k = 1
  BY <1>2, <1>5, <1>13 DEF AtStage, Made
<1>14. CASE k = 2
  BY <1>2, <1>6, <1>14 DEF AtStage, Made
<1>15. CASE k = 3
  BY <1>2, <1>7, <1>15 DEF AtStage, Made
<1>16. CASE k = 4
  BY <1>2, <1>8, <1>16 DEF AtStage, Made
<1>17. CASE k = 5
  BY <1>2, <1>9, <1>17 DEF AtStage, Made
<1>18. CASE k = 6
  BY <1>2, <1>10, <1>18 DEF AtStage, Made
<1>19. CASE k = 7
  BY <1>2, <1>11, <1>19 DEF AtStage, Made
<1> QED BY <1>12, <1>13, <1>14, <1>15, <1>16, <1>17, <1>18, <1>19

LEMMA InitRoundInv == Init => TypeOK /\ OnlyP1Sets /\ RoundInv
BY InitType DEF Init, OnlyP1Sets, RoundInv, IsSet, NoAdjs, Procs

LEMMA NextRoundInv ==
    TypeOK /\ AtInLoop /\ OnlyP1Sets /\ RoundInv /\ [Next]_vars => OnlyP1Sets' /\ RoundInv'
<1> SUFFICES ASSUME TypeOK, AtInLoop, OnlyP1Sets, RoundInv, [Next]_vars
             PROVE  OnlyP1Sets' /\ RoundInv'
  OBVIOUS
<1> DEFINE Fresh == ~IsSet /\ sem = NoAdj /\ adj = NoAdjs /\ at = [p \in Procs |-> 1]
<1>0. "p1" \in Procs /\ state \in [Procs -> {"new", "setall", "running", "ended"}]
      /\ kills \in Nat /\ restarts \in Nat
  BY BoundsAssumption DEF TypeOK, Procs
<1>1. ASSUME NEW p \in Procs, Start(p) PROVE OnlyP1Sets' /\ RoundInv'
  <2>1. /\ UNCHANGED <<sem, adj, at, last, rings, kills, restarts>> /\ state[p] = "new"
        /\ \A q \in Procs : state'[q] = IF q # p THEN state[q]
                                        ELSE IF p = "p1" THEN "setall" ELSE "running"
    BY <1>0, <1>1 DEF Start
  <2>2. OnlyP1Sets'
    BY <2>1 DEF OnlyP1Sets
  <2>3. Unharmed' => Unharmed
    BY <2>1 DEF Unharmed
  <2>4. Fresh => Fresh'
    BY <1>0, <2>1 DEF IsSet
  <2>5. Running("p1") => Running("p1")'
    BY <1>0, <2>1 DEF Running
  <2>6. \A k \in 0..7, r \in Nat : AtStage(k, r) => AtStage(k, r)'
    BY <2>1 DEF AtStage
  <2> QED BY <2>2, <2>3, <2>4, <2>5, <2>6 DEF RoundInv
<1>2. ASSUME SetAll PROVE OnlyP1Sets' /\ RoundInv'
  <2>1. /\ state["p1"] = "setall" /\ UNCHANGED <<at, kills, restarts>>
        /\ \A q \in Procs : state'[q] = IF q = "p1" THEN "running" ELSE state[q]
        /\ sem' = [s \in Sems |-> IF s = 0 THEN 1 ELSE 0] /\ adj' = NoAdjs
    BY <1>0, <1>2 DEF SetAll, NoAdjs
  <2>2. OnlyP1Sets'
    BY <2>1 DEF OnlyP1Sets
  <2>3. ASSUME Unharmed' PROVE AtStage(0, 0)'
    <3>1. Unharmed
      BY <2>1, <2>3 DEF Unharmed
    <3>2. at = [p \in Procs |-> 1]
      BY <2>1, <3>1 DEF RoundInv, Running
    <3>3. (\A p \in Procs, s \in Sems : adj'[p][s] = 0) /\ (\A p \in Procs : at'[p] = 1)
      BY <2>1, <3>2 DEF NoAdjs, NoAdj
    <3>4. \A s \in Sems : sem'[s] = IF s = 0 THEN 1 ELSE 0
      BY <2>1
    <3>5. /\ "p1" \in Procs /\ "p2" \in Procs /\ "p3" \in Procs
          /\ 0 \in Sems /\ 1 \in Sems /\ 2 \in Sems /\ 3 \in Sems
          /\ \A s \in Sems : 0 = 2 * s <=> s = 0
      BY DEF Procs, Sems
    <3> QED BY <3>3, <3>4, <3>5 DEF AtStage, Made
  <2>4. Running("p1")'
    BY <1>0, <2>1 DEF Running
  <2> QED BY <2>2, <2>3, <2>4 DEF RoundInv
<1>3. ASSUME NEW p \in Procs, SemOp(p) PROVE OnlyP1Sets' /\ RoundInv'
  <2>1. UNCHANGED <<state, rings, kills, restarts>> /\ Running(p) /\ ~Blocked(p)
    BY <1>3 DEF SemOp
  <2>2. OnlyP1Sets'
    BY <2>1 DEF OnlyP1Sets
  <2>3. ASSUME Unharmed PROVE Running("p1") /\ \E k \in 0..7, r \in Nat : AtStage(k, r)
    <3>1. ASSUME Fresh PROVE FALSE
      <4>1. p # "p1"
        BY <2>1, <3>1 DEF IsSet, Running
      <4>2. Call(p).num \in Sems /\ Call(p).op = -1
        BY <3>1, <4>1 DEF Call, Loop, Acquire, Procs, Sems
      <4> QED BY <2>1, <3>1, <4>2 DEF Blocked, NoAdj
    <3> QED BY <2>3, <3>1 DEF RoundInv
  <2>4. ASSUME Unharmed PROVE \E k \in 0..7, r \in Nat : AtStage(k, r)'
    <3>1. PICK k \in 0..7, r \in Nat : AtStage(k, r)
      BY <2>3, <2>4
    <3>2. IF k = 7 THEN AtStage(0, r + 1)' ELSE AtStage(k + 1, r)'
      BY <1>3, <3>1, StageStep
    <3>3. r + 1 \in Nat /\ 0 \in 0..7 /\ (k # 7 => k + 1 \in 0..7)
      OBVIOUS
    <3> QED BY <3>2, <3>3
  <2>5. Unharmed' <=> Unharmed
    BY <2>1 DEF Unharmed
  <2>6. Running("p1")' <=> Running("p1")
    BY <2>1 DEF Running
  <2> QED BY <2>2, <2>3, <2>4, <2>5, <2>6 DEF RoundInv
<1>4. ASSUME NEW p \in Procs, SemOpFails(p) \/ Kill(p) PROVE OnlyP1Sets' /\ RoundInv'
  <2>1. state' = [state EXCEPT ![p] = "ended"]
    BY <1>4 DEF SemOpFails, Kill, Exit
  <2>2. ~Unharmed'
    BY <1>0, <2>1 DEF Unharmed
  <2>3. OnlyP1Sets'
    BY <1>0, <2>1 DEF OnlyP1Sets
  <2> QED BY <2>2, <2>3 DEF RoundInv
<1>5. ASSUME NEW p \in Procs, Restart(p) PROVE OnlyP1Sets' /\ RoundInv'
  <2>1. state' = [state EXCEPT ![p] = "new"] /\ restarts' = restarts + 1
    BY <1>5 DEF Restart
  <2>2. ~Unharmed'
    BY <1>0, <2>1 DEF Unharmed
  <2>3. OnlyP1Sets'
    BY <1>0, <2>1 DEF OnlyP1Sets
  <2> QED BY <2>2, <2>3 DEF RoundInv
<1>6. CASE UNCHANGED vars
  BY <1>6 DEF vars, OnlyP1Sets, RoundInv, Unharmed, IsSet, Running, AtStage
<1> QED BY <1>1, <1>2, <1>3, <1>4, <1>5, <1>6 DEF Next, Proc

LEMMA RoundInvariant == Spec => [](TypeOK /\ AtInLoop /\ OnlyP1Sets /\ RoundInv)
BY InitType, InitRoundInv, NextType, NextRoundInv, PTL DEF Spec

(* As long as nobody has ended, the programs never all wait: the token is  *)
(* where the next one will take it (the loops of p1, p2, p3).              *)
THEOREM NeverStuck == Spec => [](Unharmed => CanGoOn)
<1>1. TypeOK /\ OnlyP1Sets /\ RoundInv => (Unharmed => CanGoOn)
  <2> SUFFICES ASSUME TypeOK, OnlyP1Sets, RoundInv, Unharmed PROVE CanGoOn
    OBVIOUS
  <2>0. "p1" \in Procs /\ \A p \in Procs : state[p] \in {"new", "setall", "running"}
    BY DEF TypeOK, Unharmed, Procs
  <2>1. CASE ~IsSet
    BY <2>0, <2>1 DEF IsSet, CanGoOn
  <2>2. CASE IsSet
    <3>1. PICK k \in 0..7, r \in Nat : AtStage(k, r)
      BY <2>2 DEF RoundInv
    <3>2. Mover(k) \in Procs
      BY DEF Mover, Procs
    <3>3. ~Blocked(Mover(k))
      BY <3>1, <3>2, StageMover
    <3>4. state[Mover(k)] = "new" \/ Running(Mover(k)) \/ (Mover(k) = "p1" /\ state[Mover(k)] = "setall")
      BY <2>0, <3>2 DEF OnlyP1Sets, Running
    <3> QED BY <3>2, <3>3, <3>4 DEF CanGoOn
  <2> QED BY <2>1, <2>2
<1> QED BY <1>1, RoundInvariant, PTL

(* The ring goes round until p1 has taken its semaphore so often that its  *)
(* adjustment cannot grow: no call of another program fails before.        *)
THEOREM LastsToLimit == Spec => FailsAtLimit
<1>1. TypeOK /\ AtInLoop /\ OnlyP1Sets /\ RoundInv =>
          \A p \in Procs : Unharmed /\ SemOpFails(p) => p = "p1" /\ adj["p1"][0] = SemLimit
  <2> SUFFICES ASSUME TypeOK, AtInLoop, RoundInv, NEW p \in Procs, Unharmed, SemOpFails(p)
               PROVE  p = "p1" /\ adj["p1"][0] = SemLimit
    OBVIOUS
  <2>1. Running(p) /\ ~Blocked(p) /\ OutOfRange(p)
    BY DEF SemOpFails
  <2>2. ~(~IsSet /\ sem = NoAdj /\ at = [q \in Procs |-> 1])
    <3> SUFFICES ASSUME ~IsSet, sem = NoAdj, at = [q \in Procs |-> 1] PROVE FALSE
      OBVIOUS
    <3>1. p # "p1"
      BY <2>1 DEF IsSet, Running
    <3>2. Call(p).num \in Sems /\ Call(p).op = -1
      BY <3>1 DEF Call, Loop, Acquire, Procs, Sems
    <3> QED BY <2>1, <3>2 DEF Blocked, NoAdj
  <2>3. PICK k \in 0..7, r \in Nat : AtStage(k, r)
    BY <2>2 DEF RoundInv
  <2>4. p = Mover(k)
    BY <2>1, <2>3, StageMover
  <2>5. SemLimit \in Nat \ {0} /\ adj["p1"][0] \in (-SemLimit - 1)..SemLimit
    BY LimitAssumption DEF TypeOK, Procs, Sems
  <2>6. adj["p1"][0] = Made(k, r, 1) /\ Made(k, r, 1) <= SemLimit
    BY <2>3, <2>5 DEF AtStage
  <2>7. /\ adj["p1"][1] = -Made(k, r, 2)
        /\ adj["p2"][1] = Made(k, r, 3) /\ adj["p2"][2] = -Made(k, r, 4)
        /\ adj["p2"][3] = Made(k, r, 7) /\ adj["p2"][0] = -r
        /\ adj["p3"][2] = Made(k, r, 5) /\ adj["p3"][3] = -Made(k, r, 6)
        /\ \A s \in Sems : sem[s] = IF k = 2 * s THEN 1 ELSE 0
    BY <2>3 DEF AtStage
  <2>8. CASE k = 0
    <3>1. p = "p1" /\ Call(p) = Acquire(0)
      BY <2>3, <2>4, <2>8, StageCalls DEF Mover
    <3> QED BY <2>1, <2>5, <2>6, <2>7, <2>8, <3>1 DEF OutOfRange, Acquire, Made, Sems
  <2>9. CASE k # 0
    <3>1. r + 1 <= SemLimit
      BY <2>6, <2>9 DEF Made
    <3>2. CASE p = "p1"
      <4>1. k = 1 /\ Call(p) = Release(1)
        BY <2>3, <2>4, <2>9, <3>2, StageCalls DEF Mover
      <4> QED BY <2>1, <2>5, <2>7, <3>1, <3>2, <4>1 DEF OutOfRange, Release, Made, Sems
    <3>3. CASE p = "p2"
      <4>1. k \in {2, 3, 6, 7}
        BY <2>4, <2>9, <3>3 DEF Mover
      <4>2. Call(p) = IF k = 2 THEN Acquire(1) ELSE IF k = 3 THEN Release(2)
                      ELSE IF k = 6 THEN Acquire(3) ELSE Release(0)
        BY <2>3, <3>3, <4>1, StageCalls
      <4> QED BY <2>1, <2>5, <2>7, <3>1, <3>3, <4>1, <4>2
           DEF OutOfRange, Acquire, Release, Made, Sems
    <3>4. CASE p = "p3"
      <4>1. k \in {4, 5}
        BY <2>4, <2>9, <3>4 DEF Mover
      <4>2. Call(p) = IF k = 5 THEN Release(3) ELSE Acquire(2)
        BY <2>3, <3>4, StageCalls
      <4> QED BY <2>1, <2>5, <2>7, <3>1, <3>4, <4>1, <4>2
           DEF OutOfRange, Acquire, Release, Made, Sems
    <3> QED BY <3>2, <3>3, <3>4 DEF Procs
  <2> QED BY <2>8, <2>9
<1> QED BY <1>1, RoundInvariant, PTL DEF FailsAtLimit

-----------------------------------------------------------------------------
(* Rounds come to an end: an adjustment moves in one direction only, up    *)
(* where its process acquires and down where it releases.                  *)

(* The calls that the limit leaves to p.                                   *)
RoomAt(p, s) ==
    IF p = Consumer(s) THEN SemLimit - adj[p][s] ELSE SemLimit + 1 + adj[p][s]

Room(p) == RoomAt(p, 0) + RoomAt(p, 1) + RoomAt(p, 2) + RoomAt(p, 3)

(* More than a program that runs can have left.                            *)
Full == 8 * SemLimit + 6

(* A SETALL gives all three programs their room back.                      *)
Left(p) ==
    IF state[p] = "new" THEN 5 * Full
    ELSE IF state[p] = "setall" THEN 4 * Full
    ELSE IF Running(p) THEN 1 + Room(p) ELSE 0

Budget == (MaxRestarts - restarts) * (5 * Full + 1)

Work == Left("p1") + Left("p2") + Left("p3") + Budget

Shrinks     == Work \in Nat /\ Work' < Work
WorkShrinks == [][Shrinks]_vars

LEMMA FullNat == Full \in Nat /\ Full > 0 /\ SemLimit \in Nat /\ Full = 8 * SemLimit + 6
BY LimitAssumption DEF Full

LEMMA RoomAtRange ==
    ASSUME TypeOK, NEW p \in Procs, NEW s \in Sems
    PROVE  RoomAt(p, s) \in 0..(2 * SemLimit + 1)
<1>1. adj[p][s] \in (-SemLimit - 1)..SemLimit
  BY DEF TypeOK
<1> QED BY <1>1, LimitAssumption DEF RoomAt

LeftOK ==
    \A p \in Procs :
        /\ Left(p) \in Nat
        /\ state[p] = "new" => Left(p) = 5 * Full
        /\ state[p] = "setall" => Left(p) = 4 * Full
        /\ Running(p) => Left(p) >= 1 /\ Left(p) < Full /\ Left(p) = 1 + Room(p)
        /\ state[p] = "ended" => Left(p) = 0
LEMMA LeftRange == TypeOK => LeftOK
<1> SUFFICES ASSUME TypeOK, NEW p \in Procs
             PROVE  /\ Left(p) \in Nat
                    /\ state[p] = "new" => Left(p) = 5 * Full
                    /\ state[p] = "setall" => Left(p) = 4 * Full
                    /\ Running(p) => Left(p) >= 1 /\ Left(p) < Full /\ Left(p) = 1 + Room(p)
                    /\ state[p] = "ended" => Left(p) = 0
  BY DEF LeftOK
<1>1. /\ RoomAt(p, 0) \in 0..(2 * SemLimit + 1) /\ RoomAt(p, 1) \in 0..(2 * SemLimit + 1)
      /\ RoomAt(p, 2) \in 0..(2 * SemLimit + 1) /\ RoomAt(p, 3) \in 0..(2 * SemLimit + 1)
  BY RoomAtRange DEF Sems
<1>2. Room(p) \in 0..(8 * SemLimit + 4)
  BY <1>1, LimitAssumption DEF Room
<1>3. state[p] \in {"new", "setall", "running", "ended"}
  BY DEF TypeOK
<1> QED BY <1>2, <1>3, FullNat DEF Left, Running

LEMMA LeftRangeNext ==
    TypeOK' => \A p \in Procs :
        /\ Left(p)' \in Nat
        /\ state'[p] = "new" => Left(p)' = 5 * Full
        /\ state'[p] = "setall" => Left(p)' = 4 * Full
        /\ Running(p)' => Left(p)' >= 1 /\ Left(p)' < Full /\ Left(p)' = 1 + Room(p)'
        /\ state'[p] = "ended" => Left(p)' = 0
<1>1. TypeOK' => LeftOK'
  BY LeftRange, PTL
<1> QED BY <1>1 DEF LeftOK, Full

LEMMA BudgetRange ==
    TypeOK => /\ Budget \in Nat
              /\ restarts' = restarts => Budget' = Budget
              /\ restarts' = restarts + 1 => Budget' = Budget - (5 * Full + 1)
<1> SUFFICES ASSUME TypeOK
             PROVE  /\ Budget \in Nat
                    /\ restarts' = restarts => Budget' = Budget
                    /\ restarts' = restarts + 1 => Budget' = Budget - (5 * Full + 1)
  OBVIOUS
<1> DEFINE k == 5 * Full + 1
           d == MaxRestarts - restarts
<1>1. k \in Nat /\ d \in Nat /\ restarts \in Int /\ MaxRestarts \in Int
  BY FullNat, BoundsAssumption DEF TypeOK
<1>2. Budget = d * k /\ Budget' = (MaxRestarts - restarts') * k
  BY DEF Budget
<1>3. restarts' = restarts + 1 => MaxRestarts - restarts' = d - 1
  BY <1>1
<1> HIDE DEF k, d
<1>4. d * k \in Nat /\ (d - 1) * k = d * k - k
  BY <1>1
<1>5. restarts' = restarts => Budget' = Budget
  BY DEF Budget
<1> QED BY <1>2, <1>3, <1>4, <1>5 DEF k

(* One process has less to do, and the others no more.                     *)
LEMMA OneLess ==
    ASSUME TypeOK, TypeOK', NEW p \in Procs, Left(p)' < Left(p), restarts' = restarts,
           \A q \in Procs : q # p => Left(q)' = Left(q)
    PROVE  Work' < Work
<1> DEFINE a == Left("p1")
           b == Left("p2")
           c == Left("p3")
           x == Left("p1")'
           y == Left("p2")'
           z == Left("p3")'
           m == Budget
           n == Budget'
<1>1. Work = a + b + c + m /\ Work' = x + y + z + n
  BY DEF Work
<1>2. a \in Nat /\ b \in Nat /\ c \in Nat
  BY LeftRange DEF LeftOK, Procs
<1>3. x \in Nat /\ y \in Nat /\ z \in Nat
  BY LeftRangeNext DEF Procs
<1>4. m \in Nat /\ n = m
  BY BudgetRange
<1>5. \/ x < a /\ y = b /\ z = c
      \/ x = a /\ y < b /\ z = c
      \/ x = a /\ y = b /\ z < c
  BY DEF Procs
<1> HIDE DEF a, b, c, x, y, z, m, n
<1>6. x + y + z + n < a + b + c + m
  BY <1>2, <1>3, <1>4, <1>5
<1> QED BY <1>1, <1>6

LEMMA StartWork == ASSUME TypeOK, TypeOK', NEW p \in Procs, Start(p) PROVE Work' < Work
<1>1. /\ state[p] = "new" /\ state'[p] \in {"setall", "running"}
      /\ \A q \in Procs : q # p => state'[q] = state[q]
      /\ adj' = adj /\ restarts' = restarts
  BY DEF Start, TypeOK
<1>2. \A q \in Procs : q # p => Left(q)' = Left(q)
  BY <1>1 DEF Left, Running, Room, RoomAt
<1>3. Left(p) = 5 * Full /\ (Left(p)' = 4 * Full \/ Left(p)' < Full) /\ Left(p)' \in Nat
  BY <1>1, LeftRange, LeftRangeNext DEF LeftOK, Running
<1> DEFINE l == Left(p)'
<1>4. l < Left(p)
  <2> HIDE DEF l
  <2> QED BY <1>3, FullNat DEF l
<1> QED BY <1>1, <1>2, <1>4, OneLess

LEMMA SetAllWork == ASSUME TypeOK, TypeOK', SetAll PROVE Work' < Work
<1> DEFINE a == Left("p1")
           b == Left("p2")
           c == Left("p3")
           x == Left("p1")'
           y == Left("p2")'
           z == Left("p3")'
           m == Budget
           n == Budget'
<1>0. "p1" \in Procs /\ "p2" \in Procs /\ "p3" \in Procs
  BY DEF Procs
<1>1. /\ state["p1"] = "setall" /\ state'["p1"] = "running" /\ restarts' = restarts
      /\ state'["p2"] = state["p2"] /\ state'["p3"] = state["p3"]
  BY <1>0 DEF SetAll, TypeOK
<1>2. Work = a + b + c + m /\ Work' = x + y + z + n
  BY DEF Work
<1>3. a = 4 * Full /\ b \in Nat /\ c \in Nat
  BY <1>0, <1>1, LeftRange DEF LeftOK
<1>4. x \in Nat /\ y \in Nat /\ z \in Nat /\ x < Full
  BY <1>0, <1>1, LeftRangeNext DEF Running
<1>5. m \in Nat /\ n = m
  BY <1>1, BudgetRange
<1>6. y < Full \/ y = b
  <2>1. state["p2"] \in {"new", "setall", "running", "ended"}
    BY <1>0 DEF TypeOK
  <2>2. CASE state["p2"] = "running"
    BY <1>0, <1>1, <2>2, LeftRangeNext DEF Running
  <2>3. CASE state["p2"] # "running"
    BY <1>1, <2>3 DEF Left, Running
  <2> QED BY <2>2, <2>3
<1>7. z < Full \/ z = c
  <2>2. CASE state["p3"] = "running"
    BY <1>0, <1>1, <2>2, LeftRangeNext DEF Running
  <2>3. CASE state["p3"] # "running"
    BY <1>1, <2>3 DEF Left, Running
  <2> QED BY <2>2, <2>3
<1> HIDE DEF a, b, c, x, y, z, m, n
<1>8. x + y + z + n < a + b + c + m
  BY <1>3, <1>4, <1>5, <1>6, <1>7, FullNat
<1> QED BY <1>2, <1>8

LEMMA SemOpWork == ASSUME TypeOK, TypeOK', AtInLoop, NEW p \in Procs, SemOp(p) PROVE Work' < Work
<1>1. PICK s \in Sems, d \in {-1, 1} :
          /\ Call(p).num = s /\ Call(p).op = d
          /\ d = -1 <=> p = Consumer(s)
  BY Calls
<1>2. /\ Running(p) /\ state' = state /\ restarts' = restarts
      /\ \A q \in Procs, t \in Sems :
            adj'[q][t] = IF q = p /\ t = s THEN adj[q][t] - d ELSE adj[q][t]
  <2>1. \A q \in Procs, t \in Sems :
            adj'[q][t] = IF q = p /\ t = s THEN adj[q][t] - d ELSE adj[q][t]
    BY <1>1, SemOpDoes
  <2> QED BY <2>1 DEF SemOp
<1>3. \A q \in Procs : q # p => Left(q)' = Left(q)
  BY <1>2 DEF Left, Running, Room, RoomAt, Sems
<1>4. ASSUME NEW t \in Sems
      PROVE  RoomAt(p, t)' = IF t = s THEN RoomAt(p, t) - 1 ELSE RoomAt(p, t)
  <2>1. adj[p][t] \in Int /\ SemLimit \in Int
    BY LimitAssumption DEF TypeOK
  <2> QED BY <1>1, <1>2, <2>1 DEF RoomAt
<1>5. Room(p)' = Room(p) - 1
  <2> DEFINE r(t) == RoomAt(p, t)
             w(t) == RoomAt(p, t)'
  <2>1. r(0) \in Int /\ r(1) \in Int /\ r(2) \in Int /\ r(3) \in Int
    BY RoomAtRange, FullNat DEF Sems
  <2>2. \A t \in {0, 1, 2, 3} : w(t) = IF t = s THEN r(t) - 1 ELSE r(t)
    BY <1>4 DEF Sems
  <2>3. s \in {0, 1, 2, 3}
    BY DEF Sems
  <2>4. Room(p) = r(0) + r(1) + r(2) + r(3) /\ Room(p)' = w(0) + w(1) + w(2) + w(3)
    BY DEF Room
  <2> HIDE DEF r, w
  <2>5. w(0) + w(1) + w(2) + w(3) = (r(0) + r(1) + r(2) + r(3)) - 1
    BY <2>1, <2>2, <2>3
  <2> QED BY <2>4, <2>5
<1>6. Left(p)' < Left(p)
  <2>1. Left(p) = 1 + Room(p) /\ Left(p)' = 1 + Room(p)' /\ Left(p) \in Nat
    BY <1>2, LeftRange, LeftRangeNext DEF LeftOK, Running
  <2>2. Room(p) \in Int
    BY RoomAtRange, FullNat DEF Room, Sems
  <2> DEFINE l == Left(p)'
             w == Room(p)'
             v == Room(p)
             g == Left(p)
  <2>3. g = 1 + v /\ l = 1 + w /\ w = v - 1 /\ v \in Int
    BY <1>5, <2>1, <2>2
  <2> HIDE DEF l, w, v, g
  <2>4. l < g
    BY <2>3
  <2> QED BY <2>4 DEF l, g
<1> QED BY <1>2, <1>3, <1>6, OneLess

LEMMA ExitWork ==
    ASSUME TypeOK, TypeOK', NEW p \in Procs, Exit(p), Alive(p), restarts' = restarts
    PROVE  Work' < Work
<1>1. /\ state[p] \in {"setall", "running"} /\ state'[p] = "ended"
      /\ \A q \in Procs : q # p => state'[q] = state[q] /\ adj'[q] = adj[q]
  BY DEF Exit, Alive, TypeOK
<1>2. \A q \in Procs : q # p => Left(q)' = Left(q)
  BY <1>1 DEF Left, Running, Room, RoomAt
<1>3. Left(p)' = 0 /\ (Left(p) = 4 * Full \/ Left(p) >= 1) /\ Left(p) \in Nat
  BY <1>1, LeftRange, LeftRangeNext DEF LeftOK, Running
<1>4. Left(p)' < Left(p)
  BY <1>3, FullNat
<1> QED BY <1>2, <1>4, OneLess

LEMMA RestartWork == ASSUME TypeOK, TypeOK', NEW p \in Procs, Restart(p) PROVE Work' < Work
<1> DEFINE a == Left("p1")
           b == Left("p2")
           c == Left("p3")
           x == Left("p1")'
           y == Left("p2")'
           z == Left("p3")'
           m == Budget
           n == Budget'
<1>1. /\ state[p] = "ended" /\ state'[p] = "new" /\ restarts' = restarts + 1 /\ adj' = adj
      /\ \A q \in Procs : q # p => state'[q] = state[q]
  BY DEF Restart, TypeOK
<1>2. \A q \in Procs : q # p => Left(q)' = Left(q)
  BY <1>1 DEF Left, Running, Room, RoomAt
<1>3. Left(p) = 0 /\ Left(p)' = 5 * Full
  BY <1>1, LeftRange, LeftRangeNext DEF LeftOK
<1>4. Work = a + b + c + m /\ Work' = x + y + z + n
  BY DEF Work
<1>5. a \in Nat /\ b \in Nat /\ c \in Nat /\ m \in Nat /\ n = m - (5 * Full + 1)
  BY <1>1, LeftRange, BudgetRange DEF LeftOK, Procs
<1>6. \/ a = 0 /\ x = 5 * Full /\ y = b /\ z = c
      \/ x = a /\ b = 0 /\ y = 5 * Full /\ z = c
      \/ x = a /\ y = b /\ c = 0 /\ z = 5 * Full
  BY <1>2, <1>3 DEF Procs
<1> HIDE DEF a, b, c, x, y, z, m, n
<1>7. x + y + z + n < a + b + c + m
  BY <1>5, <1>6, FullNat
<1> QED BY <1>4, <1>7

(* No ring goes round for ever: every step of it, an end of a program and  *)
(* a start included, leaves less to be done, whatever is killed and        *)
(* started again in what order.  With NeverStuck and LastsToLimit: a ring  *)
(* nobody interferes with stops, and where p1 is at the limit.             *)
THEOREM WorkEnds == Spec => WorkShrinks
<1>1. TypeOK /\ AtInLoop /\ TypeOK' /\ [Next]_vars => [Shrinks]_vars
  <2> SUFFICES ASSUME TypeOK, AtInLoop, TypeOK', Next PROVE Shrinks
    BY DEF Shrinks
  <2>1. Work \in Nat
    <3>1. Left("p1") \in Nat /\ Left("p2") \in Nat /\ Left("p3") \in Nat /\ Budget \in Nat
      BY LeftRange, BudgetRange DEF LeftOK, Procs
    <3> QED BY <3>1 DEF Work
  <2>2. ASSUME NEW p \in Procs, SemOpFails(p) \/ Kill(p) PROVE Work' < Work
    BY <2>2, ExitWork DEF SemOpFails, Kill, Alive, Running
  <2> QED BY <2>1, <2>2, StartWork, SetAllWork, SemOpWork, RestartWork DEF Next, Proc, Shrinks
<1>2. Spec => [](TypeOK /\ AtInLoop)
  BY InitType, NextType, PTL DEF Spec
<1> QED BY <1>1, <1>2, PTL DEF Spec, WorkShrinks
=============================================================================
