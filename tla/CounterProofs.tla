--------------------------- MODULE CounterProofs ----------------------------
(***************************************************************************)
(* Proofs about Counter, for any number of rounds, up to five threads and  *)
(* any number of slots.                                                    *)
(***************************************************************************)
EXTENDS Counter, FiniteSetTheorems, TLAPS

Inside == {"load", "store", "unlock"}

(* Which points a mode has, and how far a thread is at each.               *)
Points ==
    /\ mode = "loop2" => \A t \in Threads : pc[t] \notin {"sem", "signal"}
    /\ Racing => threads = 2 /\ \A t \in Threads : pc[t] \in {"none", "load", "store", "done"}

Rounds ==
    \A t \in Threads :
        /\ pc[t] = "none" => added[t] = 0
        /\ pc[t] \in {"sem", "lock", "load", "store"} =>
              IF mode = "raceO2" THEN added[t] = 0 ELSE added[t] < Loops
        /\ pc[t] = "done" => added[t] = Loops

(* Main has made the threads before k, and waited for those before k.      *)
Started ==
    /\ main = "create" => \A t \in Threads : pc[t] = "none" <=> t >= k
    /\ main # "create" => \A t \in Threads : pc[t] = "none" <=> t > threads
    /\ main = "create" => k <= threads + 1

Joined ==
    /\ main = "join" => \A t \in Threads : t < k /\ t <= threads => pc[t] = "done"
    /\ main \in {"report", "over"} => \A t \in Threads : t <= threads => pc[t] = "done"
    /\ main = "over" => mode # "loop"

(* A thread between lock and unlock has the lock, and what it loaded is    *)
(* still there.                                                            *)
Locked ==
    ~Racing =>
        /\ \A t \in Threads : pc[t] \in Inside <=> lock = t
        /\ \A t \in Threads : pc[t] = "store" => tmp[t] = counter

(* The increments that are left.  A thread on its second round loaded      *)
(* something greater than 0: so the last store of all is at least 2.       *)
RaceO0 ==
    mode = "raceO0" =>
        /\ counter <= Total
        /\ \A t \in Threads : pc[t] = "store" => tmp[t] <= Total
        /\ \A t \in Threads : added[t] > 0 => counter > 0
        /\ \A t \in Threads : pc[t] = "store" /\ added[t] > 0 => tmp[t] > 0
        /\ added[1] = Loops /\ added[2] = Loops => counter >= 2

(* A thread that loaded the sum of the other is the last one.              *)
RaceO2 ==
    mode = "raceO2" =>
        /\ \A t \in Threads : pc[t] = "store" =>
              \/ tmp[t] = 0
              \/ tmp[t] = Loops /\ \A u \in {1, 2} \ {t} : pc[u] = "done"
        /\ counter \in {0, Loops, 2 * Loops}
        /\ counter = 0 => \A t \in Threads : pc[t] # "done"
        /\ counter # 0 => pc[1] = "done" \/ pc[2] = "done"
        /\ counter = 2 * Loops => pc[1] = "done" /\ pc[2] = "done"

IInv ==
    /\ TypeOK /\ Points /\ Rounds /\ Started /\ Joined
    /\ Locked /\ NothingLost /\ RaceO0 /\ RaceO2 /\ PrintedRight

LEMMA ConstantsOK == Loops \in Nat /\ Loops >= 2 /\ MaxThreads \in 0..5 /\ MaxSlots \in Nat
BY LoopsAssumption, ThreadsAssumption, SlotsAssumption

LEMMA HoldingFinite == IsFiniteSet(Holding)
<1>1. IsFiniteSet(1..5)
  <2>1. \A a, b \in Int : IsFiniteSet(a..b)
    BY FS_Interval
  <2>2. 1 \in Int /\ 5 \in Int
    OBVIOUS
  <2> QED BY <2>1, <2>2, Zenon
<1>2. Holding \subseteq 1..5
  BY DEF Holding, Threads
<1> QED BY <1>1, <1>2, FS_Subset

LEMMA InitIInv == Init => IInv
<1> SUFFICES ASSUME Init PROVE IInv
  OBVIOUS
<1> USE ConstantsOK DEF Init
<1>1. TypeOK
  BY DEF TypeOK, Threads
<1>2. Points /\ Rounds /\ Started /\ Joined /\ Locked
  BY DEF Points, Rounds, Started, Joined, Locked, Inside, Racing, Threads
<1>3. NothingLost
  <2>1. Holding = {}
    BY DEF Holding
  <2>2. Total = 0
    BY DEF Total, Threads
  <2> QED BY <2>1, <2>2, FS_EmptySet DEF NothingLost, Threads
<1>4. RaceO0 /\ RaceO2
  BY DEF RaceO0, RaceO2, Total, Threads
<1>5. PrintedRight
  BY DEF PrintedRight
<1> QED BY <1>1, <1>2, <1>3, <1>4, <1>5 DEF IInv

-----------------------------------------------------------------------------
(* Main.                                                                   *)

LEMMA CreateIInv == IInv /\ Create => IInv'
<1> SUFFICES ASSUME IInv, Create PROVE IInv'
  OBVIOUS
<1> USE ConstantsOK DEF IInv, Create
<1>0. First \in {"sem", "lock", "load"}
  BY DEF First
<1>1. TypeOK'
  BY <1>0 DEF TypeOK, Move, config, locals, Threads
<1>2. Points'
  BY <1>0 DEF TypeOK, Points, Move, First, Racing, config, Threads
<1>7. Rounds'
  <2>1. CASE k <= threads
    <3>1. k \in Threads /\ pc[k] = "none" /\ added[k] = 0
      BY <2>1 DEF TypeOK, Started, Rounds, Threads
    <3> QED BY <1>0, <2>1, <3>1 DEF TypeOK, Rounds, Move, locals
  <2>2. CASE ~(k <= threads)
    BY <2>2 DEF Rounds, locals
  <2> QED BY <2>1, <2>2
<1>3. (Started /\ Joined)'
  BY <1>0 DEF TypeOK, Started, Joined, Move, config, Threads
<1>4. (Locked /\ RaceO0 /\ RaceO2)'
  <2>1. /\ \A t \in Threads : pc'[t] \in {"store", "done"} \/ pc[t] \in {"store", "done"} => pc'[t] = pc[t]
        /\ ~Racing => \A t \in Threads : pc'[t] \in Inside <=> pc[t] \in Inside
    <3>1. CASE k <= threads
      <4>1. k \in Threads /\ pc[k] = "none" /\ (~Racing => First \notin Inside)
        BY <3>1 DEF TypeOK, Started, Threads, First, Racing, Inside
      <4>2. pc' = [pc EXCEPT ![k] = First]
        BY <3>1 DEF Move
      <4> QED BY <1>0, <4>1, <4>2 DEF TypeOK, Inside
    <3>2. CASE ~(k <= threads)
      BY <3>2
    <3> QED BY <3>1, <3>2
  <2>2. UNCHANGED <<mode, tmp, added, lock, counter>>
    BY DEF locals
  <2>3. Locked'
    BY <2>1, <2>2 DEF Locked, Racing
  <2>4. RaceO0'
    BY <2>1, <2>2 DEF RaceO0, Total
  <2>5. RaceO2'
    BY <2>1, <2>2 DEF RaceO2, Threads
  <2> QED BY <2>3, <2>4, <2>5
<1>5. NothingLost'
  <2>1. CASE ~Racing
    <3>1. Holding' = Holding
      BY <1>0, <2>1 DEF Holding, Move, First, TypeOK, Started, Threads
    <3> QED BY <2>1, <3>1 DEF NothingLost, Total, Racing, config, locals
  <2> QED BY <2>1 DEF NothingLost, Racing
<1>6. PrintedRight'
  BY DEF PrintedRight, Racing, config
<1> QED BY <1>1, <1>2, <1>3, <1>4, <1>5, <1>6, <1>7

LEMMA JoinIInv == IInv /\ Join => IInv'
<1> SUFFICES ASSUME IInv, Join PROVE IInv'
  OBVIOUS
<1> USE ConstantsOK DEF IInv, Join
<1>1. TypeOK'
  BY DEF TypeOK, config, locals
<1>2. (Points /\ Rounds)'
  BY DEF Points, Rounds, Racing, config, locals
<1>3. (Started /\ Joined)'
  BY DEF TypeOK, Started, Joined, config, Threads
<1>4. (Locked /\ RaceO0 /\ RaceO2)'
  BY DEF Locked, RaceO0, RaceO2, Racing, Inside, Total, config, locals
<1>5. NothingLost'
  BY DEF NothingLost, Holding, Total, Racing, config, locals
<1>6. PrintedRight'
  BY DEF PrintedRight, Racing, config
<1> QED BY <1>1, <1>2, <1>3, <1>4, <1>5, <1>6

(* When all have been waited for each has done its rounds.                 *)
LEMMA AllAdded ==
    ASSUME IInv, main = "report"
    PROVE  \A t \in Threads : added[t] = IF t <= threads THEN Loops ELSE 0
BY DEF IInv, TypeOK, Started, Joined, Rounds, Threads

LEMMA TotalAll == IInv /\ main = "report" => Total = threads * Loops
<1> SUFFICES ASSUME IInv, main = "report" PROVE Total = threads * Loops
  OBVIOUS
<1>1. \A t \in 1..5 : added[t] = IF t <= threads THEN Loops ELSE 0
  BY AllAdded DEF Threads
<1>2. threads \in 0..5 /\ Loops \in Nat
  BY ConstantsOK DEF IInv, TypeOK
<1>3. threads = 0 \/ threads = 1 \/ threads = 2 \/ threads = 3 \/ threads = 4 \/ threads = 5
  BY <1>2
<1>4. CASE threads = 0
  BY <1>1, <1>2, <1>4 DEF Total
<1>5. CASE threads = 1
  BY <1>1, <1>2, <1>5 DEF Total
<1>6. CASE threads = 2
  BY <1>1, <1>2, <1>6 DEF Total
<1>7. CASE threads = 3
  BY <1>1, <1>2, <1>7 DEF Total
<1>8. CASE threads = 4
  BY <1>1, <1>2, <1>8 DEF Total
<1>9. CASE threads = 5
  BY <1>1, <1>2, <1>9 DEF Total
<1> QED BY <1>3, <1>4, <1>5, <1>6, <1>7, <1>8, <1>9

LEMMA ReportIInv == IInv /\ Report => IInv'
<1> SUFFICES ASSUME IInv, Report PROVE IInv'
  OBVIOUS
<1> USE ConstantsOK DEF IInv, Report
<1>1. TypeOK'
  BY DEF TypeOK, config, Threads
<1>2. (Points /\ Rounds)'
  BY DEF TypeOK, Points, Rounds, Racing, config, Threads
<1>3. (Started /\ Joined)'
  BY DEF TypeOK, Started, Joined, config, Threads
<1>4. Locked'
  BY DEF TypeOK, Locked, Started, Joined, Racing, Inside, config, Threads
<1>5. (RaceO0 /\ RaceO2)'
  BY DEF TypeOK, RaceO0, RaceO2, Racing, Total, config, Threads
<1>6. NothingLost'
  <2>1. CASE mode = "loop"
    <3>1. Holding = {} /\ Holding' = {}
      BY <2>1 DEF Holding, Started, Joined, Threads, TypeOK
    <3>2. Total' = 0
      BY <2>1 DEF Total, Threads
    <3> QED BY <2>1, <3>1, <3>2, FS_EmptySet DEF NothingLost, Racing, config
  <2>2. CASE mode # "loop"
    BY <2>2 DEF NothingLost, Racing, Holding, Total, config, Threads
  <2> QED BY <2>1, <2>2
<1>7. PrintedRight'
  <2>1. ~Racing => counter = threads * Loops
    BY TotalAll DEF NothingLost
  <2>2. Racing => added[1] = Loops /\ added[2] = Loops /\ Total = 2 * Loops /\ pc[1] = "done"
    BY AllAdded, TotalAll DEF Points, Joined, Threads
  <2>3. mode = "raceO0" => counter \in 2..(2 * Loops)
    BY <2>2 DEF RaceO0, Racing, TypeOK
  <2>4. mode = "raceO2" => counter \in {Loops, 2 * Loops}
    BY <2>2 DEF RaceO2, Racing, Threads
  <2> QED BY <2>1, <2>3, <2>4 DEF PrintedRight, Racing, config
<1> QED BY <1>1, <1>2, <1>3, <1>4, <1>5, <1>6, <1>7

-----------------------------------------------------------------------------
(* Threads.                                                                *)

LEMMA SemWaitIInv == ASSUME IInv, NEW t \in Threads, SemWait(t) PROVE IInv'
<1> USE ConstantsOK DEF IInv, SemWait
<1>0. mode = "loop" /\ ~Racing
  BY DEF TypeOK, Points, Racing
<1>1. TypeOK'
  BY DEF TypeOK, Move, config, locals
<1>2. (Points /\ Rounds)'
  BY <1>0 DEF TypeOK, Points, Rounds, Move, Racing, config, locals
<1>3. (Started /\ Joined)'
  BY DEF TypeOK, Started, Joined, Move, config
<1>4. (Locked /\ RaceO0 /\ RaceO2)'
  BY <1>0 DEF TypeOK, Locked, RaceO0, RaceO2, Move, Inside, config, locals
<1>5. NothingLost'
  <2>1. t \notin Holding /\ Holding' = Holding \cup {t}
    BY <1>0 DEF TypeOK, Holding, Move
  <2>2. Cardinality(Holding') = Cardinality(Holding) + 1
    BY <2>1, HoldingFinite, FS_AddElement
  <2>3. Cardinality(Holding) \in Nat
    BY HoldingFinite, FS_CardinalityType
  <2> QED BY <1>0, <2>2, <2>3 DEF TypeOK, NothingLost, Total, Racing, config, locals
<1>6. PrintedRight'
  BY DEF PrintedRight, Racing, config
<1> QED BY <1>1, <1>2, <1>3, <1>4, <1>5, <1>6

LEMMA LockIInv == ASSUME IInv, NEW t \in Threads, Lock(t) PROVE IInv'
<1> USE ConstantsOK DEF IInv, Lock
<1>0. ~Racing
  BY DEF TypeOK, Points
<1>1. TypeOK'
  BY DEF TypeOK, Move, config, locals, Threads
<1>2. (Points /\ Rounds)'
  BY <1>0 DEF TypeOK, Points, Rounds, Move, Racing, config, locals
<1>3. (Started /\ Joined)'
  BY DEF TypeOK, Started, Joined, Move, config
<1>4. (Locked /\ RaceO0 /\ RaceO2)'
  BY <1>0 DEF TypeOK, Locked, RaceO0, RaceO2, Move, Inside, Racing, config, locals, Threads
<1>5. NothingLost'
  <2>1. Holding' = Holding
    BY DEF TypeOK, Holding, Move
  <2> QED BY <2>1 DEF NothingLost, Total, Racing, config, locals
<1>6. PrintedRight'
  BY DEF PrintedRight, Racing, config
<1> QED BY <1>1, <1>2, <1>3, <1>4, <1>5, <1>6

LEMMA LoadIInv == ASSUME IInv, NEW t \in Threads, Load(t) PROVE IInv'
<1> USE ConstantsOK DEF IInv, Load
<1>1. TypeOK'
  BY DEF TypeOK, Move, config
<1>2. (Points /\ Rounds)'
  BY DEF TypeOK, Points, Rounds, Move, Racing, config
<1>3. (Started /\ Joined)'
  BY DEF TypeOK, Started, Joined, Move, config
<1>4. Locked'
  BY DEF TypeOK, Locked, Move, Inside, Racing, config
<1>5. (RaceO0 /\ RaceO2)'
  <2>1. mode = "raceO0" => RaceO0'
    BY DEF TypeOK, RaceO0, Move, Total
  <2>2. mode = "raceO2" => RaceO2'
    <3> SUFFICES ASSUME mode = "raceO2" PROVE RaceO2'
      OBVIOUS
    <3>1. t \in {1, 2}
      BY DEF TypeOK, Points, Started, Racing, Threads
    <3>2. counter \in {0, Loops}
      BY <3>1 DEF RaceO2
    <3>3. counter = Loops => \A u \in {1, 2} \ {t} : pc[u] = "done"
      BY <3>1 DEF RaceO2
    <3>4. \A u \in Threads :
             /\ pc'[u] = IF u = t THEN "store" ELSE pc[u]
             /\ tmp'[u] = IF u = t THEN counter ELSE tmp[u]
      BY DEF TypeOK, Move
    <3>5. \A u \in Threads : pc[u] = "done" => pc'[u] = "done"
      BY <3>4
    <3>6. ASSUME NEW u \in Threads, pc'[u] = "store"
          PROVE  \/ tmp'[u] = 0
                 \/ tmp'[u] = Loops /\ \A w \in {1, 2} \ {u} : pc'[w] = "done"
      <4>1. CASE u = t
        <5>1. tmp'[u] = counter
          BY <3>4, <4>1
        <5>2. \A w \in {1, 2} : pc[w] = "done" => pc'[w] = "done"
          BY <3>5 DEF Threads
        <5>3. counter = Loops => \A w \in {1, 2} \ {u} : pc'[w] = "done"
          BY <3>3, <4>1, <5>2
        <5>4. CASE counter = 0
          BY <5>1, <5>4
        <5>5. CASE counter = Loops
          BY <5>1, <5>3, <5>5
        <5> QED BY <3>2, <5>4, <5>5
      <4>2. CASE u # t
        BY <3>1, <3>4, <3>5, <3>6, <4>2 DEF RaceO2, Threads
      <4> QED BY <4>1, <4>2
    <3>7. counter' = counter /\ mode' = mode
      OBVIOUS
    <3>8. counter = 0 => \A u \in Threads : pc'[u] # "done"
      BY <3>4 DEF RaceO2
    <3>9. /\ counter # 0 => pc'[1] = "done" \/ pc'[2] = "done"
          /\ counter # 2 * Loops
      BY <3>2, <3>5 DEF RaceO2, Threads
    <3> QED BY <3>2, <3>6, <3>7, <3>8, <3>9 DEF RaceO2
  <2> QED BY <2>1, <2>2 DEF RaceO0, RaceO2
<1>6. NothingLost'
  <2>1. Holding' = Holding
    BY DEF TypeOK, Holding, Move
  <2> QED BY <2>1 DEF NothingLost, Total, Racing, config
<1>7. PrintedRight'
  BY DEF PrintedRight, Racing, config
<1> QED BY <1>1, <1>2, <1>3, <1>4, <1>5, <1>6, <1>7
LEMMA StoreIInv == ASSUME IInv, NEW t \in Threads, Store(t) PROVE IInv'
<1> USE ConstantsOK DEF IInv, Store
<1> DEFINE next == IF Racing THEN Again(added[t] + Amount) ELSE "unlock"
<1>0. next \in {"load", "done", "unlock"}
  BY DEF Again, First, Racing
<1>1. added[t] + Amount \in 0..Loops /\ Amount \in Nat \ {0}
  BY DEF TypeOK, Rounds, Amount
<1>2. added[t] + Amount < Loops => mode # "raceO2"
  BY DEF TypeOK, Amount
<1>3. next = "done" => added[t] + Amount = Loops
  BY <1>1 DEF Again, First, Racing
<1>4. /\ Racing => (next = "load" <=> added[t] + Amount < Loops) /\ next \in {"load", "done"}
      /\ ~Racing => next = "unlock"
  BY DEF Again, First, Racing
<1>5. Total' = Total + Amount /\ Total \in Nat
  <2>1. added[1] \in Nat /\ added[2] \in Nat /\ added[3] \in Nat /\ added[4] \in Nat /\ added[5] \in Nat
    BY DEF TypeOK, Threads
  <2>2. \A u \in 1..5 : added'[u] = IF u = t THEN added[u] + Amount ELSE added[u]
    BY DEF TypeOK, Threads
  <2>3. /\ added'[1] = IF 1 = t THEN added[1] + Amount ELSE added[1]
        /\ added'[2] = IF 2 = t THEN added[2] + Amount ELSE added[2]
        /\ added'[3] = IF 3 = t THEN added[3] + Amount ELSE added[3]
        /\ added'[4] = IF 4 = t THEN added[4] + Amount ELSE added[4]
        /\ added'[5] = IF 5 = t THEN added[5] + Amount ELSE added[5]
    BY <2>2
  <2>4. t = 1 \/ t = 2 \/ t = 3 \/ t = 4 \/ t = 5
    BY DEF Threads
  <2> HIDE DEF Store, IInv
  <2> QED BY <1>1, <2>1, <2>3, <2>4 DEF Total
<1>6. pc' = [pc EXCEPT ![t] = next]
  BY DEF Move
<1> HIDE DEF next
<1>7. TypeOK'
  BY <1>0, <1>1, <1>6 DEF TypeOK, config
<1>8. Points'
  BY <1>0, <1>4, <1>6 DEF TypeOK, Points, Racing, config
<1>9. Rounds'
  <2>1. \A u \in Threads :
           /\ pc'[u] = IF u = t THEN next ELSE pc[u]
           /\ added'[u] = IF u = t THEN added[t] + Amount ELSE added[u]
    BY <1>6 DEF TypeOK
  <2>2. next = "load" => mode # "raceO2" /\ added[t] + Amount < Loops
    BY <1>2, <1>4
  <2> QED BY <1>0, <1>3, <2>1, <2>2 DEF Rounds
<1>10. (Started /\ Joined)'
  BY <1>0, <1>6 DEF TypeOK, Started, Joined, config
<1>11. ~Racing => (Locked /\ NothingLost)'
  <2> SUFFICES ASSUME ~Racing PROVE (Locked /\ NothingLost)'
    OBVIOUS
  <2>1. next = "unlock" /\ Amount = 1
    BY DEF next, Racing, Amount
  <2>2. Holding' = Holding
    BY <1>6, <2>1 DEF TypeOK, Holding
  <2>3. lock = t /\ tmp[t] = counter
    BY DEF Locked, Inside
  <2> QED BY <1>5, <1>6, <2>1, <2>2, <2>3 DEF TypeOK, Locked, NothingLost, Inside, Racing, config
<1>12. mode = "raceO0" => RaceO0'
  <2> SUFFICES ASSUME mode = "raceO0" PROVE RaceO0'
    OBVIOUS
  <2>1. Amount = 1 /\ counter' = tmp[t] + 1 /\ tmp' = tmp
    BY DEF Amount
  <2>2. tmp[t] \in Nat /\ tmp[t] <= Total /\ Total' = Total + 1
    BY <1>5, <2>1 DEF TypeOK, RaceO0
  <2>3. \A u \in Threads : added'[u] = IF u = t THEN added[u] + 1 ELSE added[u]
    BY <2>1 DEF TypeOK
  <2>4. \A u \in Threads : pc'[u] = "store" => u # t /\ pc[u] = "store"
    BY <1>0, <1>6 DEF TypeOK
  <2>5. \A u \in Threads : pc'[u] = "store" => tmp[u] <= Total'
    BY <1>5, <2>2, <2>4 DEF TypeOK, RaceO0
  <2>6. \A u \in Threads : pc'[u] = "store" /\ added'[u] > 0 => tmp[u] > 0
    BY <2>3, <2>4 DEF RaceO0
  <2>7. added'[1] = Loops /\ added'[2] = Loops => counter' >= 2
    <3>1. t \in {1, 2}
      BY DEF TypeOK, Points, Started, Racing, Threads
    <3>2. added'[t] = Loops => added[t] > 0
      BY <2>3 DEF TypeOK
    <3>3. added[t] > 0 => tmp[t] > 0
      BY DEF RaceO0
    <3> QED BY <2>1, <2>2, <3>1, <3>2, <3>3
  <2> QED BY <2>1, <2>2, <2>5, <2>6, <2>7, <1>5 DEF RaceO0
<1>13. mode = "raceO2" => RaceO2'
  <2> SUFFICES ASSUME mode = "raceO2" PROVE RaceO2'
    OBVIOUS
  <2>1. Amount = Loops /\ counter' = tmp[t] + Loops /\ tmp' = tmp
    BY DEF Amount
  <2>2. t \in {1, 2}
    BY DEF TypeOK, Points, Started, Racing, Threads
  <2>3. next = "done"
    BY <1>1, <2>1, <1>4 DEF Rounds, Racing
  <2>4. \A u \in Threads : pc'[u] = IF u = t THEN "done" ELSE pc[u]
    BY <1>6, <2>3 DEF TypeOK
  <2>5. tmp[t] \in {0, Loops} /\ counter' # 0
    BY <2>1 DEF RaceO2
  <2>6. counter' = 2 * Loops => pc'[1] = "done" /\ pc'[2] = "done"
    BY <2>1, <2>2, <2>4, <2>5 DEF RaceO2, Threads
  <2>7. \A u \in Threads : pc'[u] = "store" =>
           \/ tmp[u] = 0
           \/ tmp[u] = Loops /\ \A w \in {1, 2} \ {u} : pc'[w] = "done"
    BY <2>2, <2>4 DEF RaceO2, Threads
  <2>8. pc'[1] = "done" \/ pc'[2] = "done"
    BY <2>2, <2>4 DEF Threads
  <2>9. counter' \in {0, Loops, 2 * Loops}
    BY <2>1, <2>5
  <2> QED BY <2>1, <2>5, <2>6, <2>7, <2>8, <2>9 DEF RaceO2
<1>14. PrintedRight'
  BY DEF PrintedRight, Racing, config
<1> QED BY <1>7, <1>8, <1>9, <1>10, <1>11, <1>12, <1>13, <1>14
        DEF Locked, NothingLost, RaceO0, RaceO2, Racing

LEMMA UnlockIInv == ASSUME IInv, NEW t \in Threads, Unlock(t) PROVE IInv'
<1> USE ConstantsOK DEF IInv, Unlock
<1> DEFINE next == IF mode = "loop" THEN "signal" ELSE Again(added[t])
<1>0. ~Racing /\ lock = t
  BY DEF TypeOK, Points, Locked, Inside
<1>1. next \in {"signal", "lock", "done"} /\ (next = "signal" <=> mode = "loop")
  BY <1>0 DEF TypeOK, Again, First, Racing
<1>2. /\ next = "lock" => added[t] < Loops
      /\ next = "done" => added[t] = Loops
  BY <1>0 DEF TypeOK, Again, First, Racing
<1>3. pc' = [pc EXCEPT ![t] = next]
  BY DEF Move
<1> HIDE DEF next
<1>4. TypeOK'
  BY <1>1, <1>3 DEF TypeOK, config, locals
<1>5. (Points /\ Rounds)'
  BY <1>0, <1>1, <1>2, <1>3 DEF TypeOK, Points, Rounds, Racing, config, locals
<1>6. (Started /\ Joined)'
  BY <1>1, <1>3 DEF TypeOK, Started, Joined, config
<1>7. (Locked /\ RaceO0 /\ RaceO2)'
  BY <1>0, <1>1, <1>3 DEF TypeOK, Locked, RaceO0, RaceO2, Inside, Racing, config, locals, Threads
<1>8. NothingLost'
  <2>1. Holding' = Holding
    BY <1>1, <1>3 DEF TypeOK, Holding
  <2> QED BY <2>1 DEF NothingLost, Total, Racing, config, locals
<1>9. PrintedRight'
  BY DEF PrintedRight, Racing, config
<1> QED BY <1>4, <1>5, <1>6, <1>7, <1>8, <1>9

LEMMA SemSignalIInv == ASSUME IInv, NEW t \in Threads, SemSignal(t) PROVE IInv'
<1> USE ConstantsOK DEF IInv, SemSignal
<1>0. mode = "loop" /\ ~Racing
  BY DEF TypeOK, Points, Racing
<1>1. Again(added[t]) \in {"sem", "done"}
  BY <1>0 DEF Again, First
<1>2. /\ Again(added[t]) = "sem" => added[t] < Loops
      /\ Again(added[t]) = "done" => added[t] = Loops
  BY <1>0 DEF TypeOK, Again, First
<1>3. pc' = [pc EXCEPT ![t] = Again(added[t])]
  BY DEF Move
<1>4. TypeOK'
  BY <1>1, <1>3 DEF TypeOK, config, locals
<1>5. (Points /\ Rounds)'
  BY <1>0, <1>1, <1>2, <1>3 DEF TypeOK, Points, Rounds, Racing, config, locals
<1>6. (Started /\ Joined)'
  BY <1>1, <1>3 DEF TypeOK, Started, Joined, config
<1>7. (Locked /\ RaceO0 /\ RaceO2)'
  BY <1>0, <1>1, <1>3 DEF TypeOK, Locked, RaceO0, RaceO2, Inside, Racing, config, locals
<1>8. NothingLost'
  <2>1. t \in Holding /\ Holding' = Holding \ {t}
    BY <1>0, <1>1, <1>3 DEF TypeOK, Holding
  <2>2. Cardinality(Holding') = Cardinality(Holding) - 1
    BY <2>1, HoldingFinite, FS_RemoveElement
  <2>3. Cardinality(Holding) \in Nat
    BY HoldingFinite, FS_CardinalityType
  <2> QED BY <1>0, <2>2, <2>3 DEF TypeOK, NothingLost, Total, Racing, config, locals
<1>9. PrintedRight'
  BY DEF PrintedRight, Racing, config
<1> QED BY <1>4, <1>5, <1>6, <1>7, <1>8, <1>9

LEMMA StutterIInv == IInv /\ UNCHANGED vars => IInv'
BY DEF IInv, TypeOK, Points, Rounds, Started, Joined, Locked, NothingLost, RaceO0, RaceO2,
       PrintedRight, Holding, Total, Inside, Racing, vars, config, locals

LEMMA StepIInv == IInv /\ [Next]_vars => IInv'
<1> SUFFICES ASSUME IInv, [Next]_vars PROVE IInv'
  OBVIOUS
<1>1. CASE Create
  BY <1>1, CreateIInv
<1>2. CASE Join
  BY <1>2, JoinIInv
<1>3. CASE Report
  BY <1>3, ReportIInv
<1>4. ASSUME NEW t \in Threads, Thread(t) PROVE IInv'
  BY <1>4, SemWaitIInv, LockIInv, LoadIInv, StoreIInv, UnlockIInv, SemSignalIInv DEF Thread
<1>5. CASE UNCHANGED vars
  BY <1>5, StutterIInv
<1> QED BY <1>1, <1>2, <1>3, <1>4, <1>5 DEF Next, Main

LEMMA Invariant == Spec => []IInv
BY InitIInv, StepIInv, PTL DEF Spec

(* Every variable keeps its type (thread/mutexes.c, thread/raceCond.c).    *)
THEOREM TypeCorrect == Spec => []TypeOK
<1>1. IInv => TypeOK
  BY DEF IInv
<1> QED BY <1>1, Invariant, PTL

(* Under the lock no increment and no slot is lost (mutexes.c:28-48).      *)
THEOREM LockKeeps == Spec => []NothingLost
<1>1. IInv => NothingLost
  BY DEF IInv
<1> QED BY <1>1, Invariant, PTL

(* Main prints n * Loops under the lock, and without it at least 2 and at  *)
(* most 2 * Loops (mutexes.c:75, 92, raceCond.c:21).                       *)
THEOREM Prints == Spec => []PrintedRight
<1>1. IInv => PrintedRight
  BY DEF IInv
<1> QED BY <1>1, Invariant, PTL
(* What Ends needs of each state: main or a thread can make its next step. *)
CanGoOn ==
    \/ main \in {"create", "report"}
    \/ main = "join" /\ (k > threads \/ pc[k] = "done")
    \/ \E t \in Threads :
          \/ pc[t] \in {"load", "store", "unlock", "signal"}
          \/ pc[t] = "lock" /\ lock = 0
          \/ pc[t] = "sem" /\ sem > 0

(* Semaphore and lock never stop each other: who holds the lock can give   *)
(* it back, and when no slot is free somebody has one.  Only threads that  *)
(* wait for a semaphore of no slots stay there (mutexes.c:28-48).          *)
THEOREM NeverStuck ==
    Spec => [](main = "over" \/ CanGoOn \/ (mode = "loop" /\ slots = 0 /\ threads > 0))
<1>1. IInv => main = "over" \/ CanGoOn \/ (mode = "loop" /\ slots = 0 /\ threads > 0)
  <2> SUFFICES ASSUME IInv, main # "over", ~CanGoOn
               PROVE  mode = "loop" /\ slots = 0 /\ threads > 0
    OBVIOUS
  <2>1. /\ main = "join" /\ k <= threads /\ k \in Threads /\ pc[k] # "done"
        /\ threads \in 0..5 /\ slots \in Nat /\ sem \in Nat /\ lock \in 0..5
    BY DEF IInv, TypeOK, CanGoOn, Threads
  <2>2. \A t \in Threads : pc[t] \in {"none", "sem", "lock", "done"}
    BY DEF IInv, TypeOK, CanGoOn
  <2>3. ~Racing
    <3>1. Racing => pc[k] = "none"
      BY <2>1, <2>2 DEF IInv, Points
    <3>2. pc[k] # "none"
      BY <2>1 DEF IInv, Started, Threads
    <3> QED BY <3>1, <3>2
  <2>4. lock = 0
    <3>1. ASSUME lock # 0 PROVE FALSE
      <4>1. lock \in Threads /\ pc[lock] \in Inside
        BY <2>1, <2>3, <3>1 DEF IInv, Locked, Threads
      <4> QED BY <2>2, <4>1 DEF Inside
    <3> QED BY <3>1
  <2>5. \A t \in Threads : pc[t] \in {"none", "sem", "done"}
    BY <2>2, <2>4 DEF CanGoOn
  <2>6. pc[k] = "sem" /\ sem = 0
    <3>1. pc[k] # "none"
      BY <2>1 DEF IInv, Started, Threads
    <3>2. pc[k] = "sem"
      BY <2>1, <2>5, <3>1
    <3> QED BY <2>1, <3>2 DEF CanGoOn
  <2>7. slots = 0
    <3>1. Holding = {}
      BY <2>5 DEF Holding
    <3>2. sem + Cardinality(Holding) = slots
      BY <2>3 DEF IInv, NothingLost
    <3>3. Cardinality(Holding) = 0
      BY <3>1, FS_EmptySet
    <3> QED BY <2>6, <3>2, <3>3
  <2>8. mode = "loop"
    BY <2>1, <2>3, <2>6 DEF IInv, TypeOK, Points, Racing
  <2> QED BY <2>1, <2>7, <2>8 DEF Threads
<1> QED BY <1>1, Invariant, PTL

(* What is left to be done.  A round is worth its six steps; between the   *)
(* loops main starts the threads anew.                                     *)
StepsLeft(at) ==
    IF at = "unlock" THEN 8 ELSE IF at \in {"none", "signal"} THEN 7
    ELSE IF at = "sem" THEN 6 ELSE IF at = "lock" THEN 5
    ELSE IF at = "load" THEN 4 ELSE IF at = "store" THEN 3 ELSE 0

ThreadLeft(t) == 6 * (Loops - added[t]) + StepsLeft(pc[t])
ThreadsLeft   == ThreadLeft(1) + ThreadLeft(2) + ThreadLeft(3) + ThreadLeft(4) + ThreadLeft(5)

MainLeft ==
    (IF main = "create" THEN 26 - k ELSE IF main = "join" THEN 16 - k
     ELSE IF main = "report" THEN 1 ELSE 0)
    + (IF mode = "loop" THEN 30 * Loops + 60 ELSE 0)

Work == MainLeft + ThreadsLeft

Shrinks     == Work \in Nat /\ Work' < Work
WorkShrinks == [][Shrinks]_vars

WorkOK ==
    /\ \A t \in Threads : ThreadLeft(t) \in Nat
    /\ ThreadsLeft \in Nat /\ MainLeft \in Nat /\ Work \in Nat

LEMMA WorkTypes == TypeOK => WorkOK
<1> SUFFICES ASSUME TypeOK PROVE WorkOK
  OBVIOUS
<1>1. Loops \in Nat /\ k \in 1..6
  BY ConstantsOK DEF TypeOK
<1>2. ASSUME NEW t \in Threads PROVE ThreadLeft(t) \in Nat
  <2>1. added[t] \in Nat /\ added[t] <= Loops
    BY <1>1 DEF TypeOK
  <2>2. StepsLeft(pc[t]) \in Nat
    BY DEF StepsLeft
  <2> QED BY <1>1, <2>1, <2>2 DEF ThreadLeft
<1>3. ThreadsLeft \in Nat
  <2>1. /\ ThreadLeft(1) \in Nat /\ ThreadLeft(2) \in Nat /\ ThreadLeft(3) \in Nat
        /\ ThreadLeft(4) \in Nat /\ ThreadLeft(5) \in Nat
    BY <1>2 DEF Threads
  <2> QED BY <2>1 DEF ThreadsLeft
<1>4. MainLeft \in Nat
  BY <1>1 DEF MainLeft
<1> QED BY <1>2, <1>3, <1>4 DEF WorkOK, Work

LEMMA WorkTypesNext == TypeOK' => WorkOK'
BY WorkTypes, PTL

(* A step of one thread: the others have as much left as before.           *)
LEMMA OneLess ==
    ASSUME TypeOK, TypeOK', NEW t \in Threads,
           ThreadLeft(t)' < ThreadLeft(t),
           \A u \in Threads : u # t => ThreadLeft(u)' = ThreadLeft(u)
    PROVE  ThreadsLeft' < ThreadsLeft
<1>1. \A u \in Threads : ThreadLeft(u) \in Nat /\ ThreadLeft(u)' \in Nat
  BY WorkTypes, WorkTypesNext DEF WorkOK
<1>2. /\ ThreadLeft(1) \in Nat /\ ThreadLeft(2) \in Nat /\ ThreadLeft(3) \in Nat
      /\ ThreadLeft(4) \in Nat /\ ThreadLeft(5) \in Nat
      /\ ThreadLeft(1)' \in Nat /\ ThreadLeft(2)' \in Nat /\ ThreadLeft(3)' \in Nat
      /\ ThreadLeft(4)' \in Nat /\ ThreadLeft(5)' \in Nat
  BY <1>1 DEF Threads
<1>3. /\ ThreadLeft(1)' <= ThreadLeft(1) /\ ThreadLeft(2)' <= ThreadLeft(2)
      /\ ThreadLeft(3)' <= ThreadLeft(3) /\ ThreadLeft(4)' <= ThreadLeft(4)
      /\ ThreadLeft(5)' <= ThreadLeft(5)
  <2>1. ASSUME NEW u \in Threads PROVE ThreadLeft(u)' <= ThreadLeft(u)
    BY <1>1
  <2> QED BY <2>1 DEF Threads
<1>4. \/ ThreadLeft(1)' < ThreadLeft(1) \/ ThreadLeft(2)' < ThreadLeft(2)
      \/ ThreadLeft(3)' < ThreadLeft(3) \/ ThreadLeft(4)' < ThreadLeft(4)
      \/ ThreadLeft(5)' < ThreadLeft(5)
  BY DEF Threads
<1> HIDE DEF ThreadLeft
<1> QED BY <1>2, <1>3, <1>4 DEF ThreadsLeft

LEMMA LessWork ==
    ASSUME TypeOK, TypeOK',
           \/ MainLeft' < MainLeft /\ ThreadsLeft' <= ThreadsLeft
           \/ MainLeft' <= MainLeft /\ ThreadsLeft' < ThreadsLeft
    PROVE  Work' < Work
<1> DEFINE m == MainLeft
           n == MainLeft'
           s == ThreadsLeft
           r == ThreadsLeft'
<1>1. m \in Nat /\ s \in Nat
  BY WorkTypes DEF WorkOK
<1>2. n \in Nat /\ r \in Nat
  BY WorkTypesNext DEF WorkOK
<1>3. (n < m /\ r <= s) \/ (n <= m /\ r < s)
  OBVIOUS
<1>4. Work = m + s /\ Work' = n + r
  BY DEF Work
<1> HIDE DEF m, n, s, r
<1> QED BY <1>1, <1>2, <1>3, <1>4

LEMMA CreateWork == ASSUME IInv, IInv', Create PROVE Work' < Work
<1>1. TypeOK /\ TypeOK' /\ main = "create" /\ k \in 1..6 /\ threads \in 0..5 /\ Loops \in Nat
  BY ConstantsOK DEF Create, IInv, TypeOK
<1>2. MainLeft \in Nat /\ MainLeft' \in Nat /\ ThreadsLeft \in Nat /\ ThreadsLeft' \in Nat
  BY <1>1, WorkTypes, WorkTypesNext DEF WorkOK
<1>3. MainLeft' < MainLeft
  BY <1>1 DEF Create, MainLeft
<1>4. CASE k <= threads
  <2>1. k \in Threads /\ pc[k] = "none" /\ added' = added /\ pc' = [pc EXCEPT ![k] = First]
    BY <1>1, <1>4 DEF Create, Move, locals, Threads, IInv, Started
  <2>2. pc'[k] = First /\ added'[k] = added[k] /\ added[k] \in Nat /\ Loops \in Nat
    BY <1>1, <2>1 DEF TypeOK
  <2>3. StepsLeft(pc'[k]) < StepsLeft(pc[k]) /\ StepsLeft(pc[k]) = 7 /\ StepsLeft(pc'[k]) \in Nat
    BY <2>1, <2>2 DEF First, StepsLeft
  <2>4. 6 * (Loops - added'[k]) + StepsLeft(pc'[k]) < 6 * (Loops - added[k]) + StepsLeft(pc[k])
    BY <2>2, <2>3
  <2>5. \A u \in Threads : u # k => ThreadLeft(u)' = ThreadLeft(u)
    BY <1>1, <2>1 DEF TypeOK, ThreadLeft
  <2>6. ASSUME NEW t \in Threads, t = k PROVE ThreadsLeft' < ThreadsLeft
    <3>1. ThreadLeft(t)' < ThreadLeft(t)
      BY <2>1, <2>4, <2>6 DEF ThreadLeft, Create
    <3>2. \A u \in Threads : u # t => ThreadLeft(u)' = ThreadLeft(u)
      BY <2>5, <2>6
    <3> QED BY <1>1, <3>1, <3>2, OneLess
  <2>7. ThreadsLeft' < ThreadsLeft
    BY <2>1, <2>6
  <2> QED BY <1>1, <1>2, <1>3, <2>7, LessWork
<1>5. CASE ~(k <= threads)
  <2>1. ThreadsLeft' = ThreadsLeft
    BY <1>5 DEF Create, locals, ThreadsLeft, ThreadLeft
  <2> QED BY <1>1, <1>2, <1>3, <2>1, LessWork
<1> QED BY <1>4, <1>5

LEMMA JoinWork == ASSUME IInv, IInv', Join PROVE Work' < Work
<1>1. TypeOK /\ TypeOK' /\ main = "join" /\ k \in 1..6 /\ k' \in 1..6 /\ Loops \in Nat
  BY ConstantsOK DEF Join, IInv, TypeOK
<1>2. MainLeft \in Nat /\ MainLeft' \in Nat /\ ThreadsLeft \in Nat
  BY <1>1, WorkTypes, WorkTypesNext DEF WorkOK
<1>3. MainLeft' < MainLeft
  <2>1. (k' = k + 1 /\ main' = main) \/ (k' = k /\ main' = "report")
    <3>1. CASE k <= threads
      BY <3>1 DEF Join
    <3>2. CASE ~(k <= threads)
      BY <3>2 DEF Join
    <3> QED BY <3>1, <3>2
  <2>2. mode' = mode
    BY DEF Join
  <2>3. CASE k' = k + 1 /\ main' = main
    BY <1>1, <2>2, <2>3 DEF MainLeft
  <2>4. CASE k' = k /\ main' = "report"
    BY <1>1, <2>2, <2>4 DEF MainLeft
  <2> QED BY <2>1, <2>3, <2>4
<1>4. ThreadsLeft' = ThreadsLeft
  BY DEF Join, locals, ThreadsLeft, ThreadLeft
<1> QED BY <1>1, <1>2, <1>3, <1>4, LessWork

LEMMA ReportWork == ASSUME IInv, IInv', Report PROVE Work' < Work
<1>1. TypeOK /\ TypeOK' /\ main = "report" /\ Loops \in Nat
  BY ConstantsOK DEF Report, IInv
<1>2. MainLeft \in Nat /\ MainLeft' \in Nat /\ ThreadsLeft \in Nat /\ ThreadsLeft' \in Nat
  BY <1>1, WorkTypes, WorkTypesNext DEF WorkOK
<1>3. CASE mode = "loop"
  <2>1. MainLeft = 30 * Loops + 61 /\ MainLeft' = 25
    BY <1>1, <1>3 DEF Report, MainLeft
  <2>2. ASSUME NEW t \in Threads PROVE ThreadLeft(t)' = 6 * Loops + 7
    <3>1. added'[t] = 0 /\ pc'[t] = "none"
      BY <1>3, <2>2 DEF Report
    <3>2. StepsLeft(pc'[t]) = 7
      BY <3>1 DEF StepsLeft
    <3> QED BY <1>1, <3>1, <3>2 DEF ThreadLeft
  <2>3. /\ ThreadLeft(1)' = 6 * Loops + 7 /\ ThreadLeft(2)' = 6 * Loops + 7
        /\ ThreadLeft(3)' = 6 * Loops + 7 /\ ThreadLeft(4)' = 6 * Loops + 7
        /\ ThreadLeft(5)' = 6 * Loops + 7
    BY <2>2 DEF Threads
  <2>4. ThreadsLeft' = 30 * Loops + 35
    BY <1>1, <2>3 DEF ThreadsLeft
  <2> QED BY <1>1, <1>2, <2>1, <2>4 DEF Work
<1>4. CASE mode # "loop"
  <2>1. ThreadsLeft' = ThreadsLeft
    BY <1>4 DEF Report, ThreadsLeft, ThreadLeft
  <2>2. MainLeft' < MainLeft
    BY <1>1, <1>4 DEF Report, MainLeft
  <2> QED BY <1>1, <1>2, <2>1, <2>2, LessWork
<1> QED BY <1>3, <1>4

(* A thread that goes on with nothing added makes one step less; one that  *)
(* has added something may begin another round.                            *)
LEMMA ThreadWork == ASSUME IInv, IInv', NEW t \in Threads, Thread(t) PROVE Work' < Work
<1>1. TypeOK /\ TypeOK' /\ Loops \in Nat /\ Loops >= 2
  BY ConstantsOK DEF IInv
<1>2. MainLeft \in Nat /\ ThreadsLeft \in Nat /\ ThreadsLeft' \in Nat
  BY <1>1, WorkTypes, WorkTypesNext DEF WorkOK
<1>3. UNCHANGED <<main, k, mode>>
  BY DEF Thread, SemWait, Lock, Load, Store, Unlock, SemSignal
<1>4. \A u \in Threads : u # t => pc'[u] = pc[u] /\ added'[u] = added[u]
  BY <1>1 DEF TypeOK, Thread, SemWait, Lock, Load, Store, Unlock, SemSignal, Move, locals
<1>5. /\ added[t] \in 0..Loops /\ added'[t] \in 0..Loops
      /\ \/ added'[t] = added[t] /\ StepsLeft(pc'[t]) < StepsLeft(pc[t])
         \/ added'[t] >= added[t] + 1 /\ StepsLeft(pc'[t]) <= 8 /\ StepsLeft(pc[t]) = 3
  <2>1. added[t] \in 0..Loops /\ added'[t] \in 0..Loops
    BY <1>1 DEF TypeOK
  <2>2. CASE SemWait(t)
    <3>1. pc[t] = "sem" /\ pc'[t] = "lock" /\ added'[t] = added[t]
      BY <1>1, <2>2 DEF SemWait, TypeOK, Move, locals
    <3> QED BY <2>1, <3>1 DEF StepsLeft
  <2>3. CASE Lock(t)
    <3>1. pc[t] = "lock" /\ pc'[t] = "load" /\ added'[t] = added[t]
      BY <1>1, <2>3 DEF Lock, TypeOK, Move, locals
    <3> QED BY <2>1, <3>1 DEF StepsLeft
  <2>4. CASE Load(t)
    <3>1. pc[t] = "load" /\ pc'[t] = "store" /\ added'[t] = added[t]
      BY <1>1, <2>4 DEF Load, TypeOK, Move
    <3> QED BY <2>1, <3>1 DEF StepsLeft
  <2>5. CASE Store(t)
    <3>1. pc[t] = "store" /\ added'[t] = added[t] + Amount
      BY <1>1, <2>5 DEF Store, TypeOK
    <3>2. Amount \in Nat /\ Amount >= 1
      BY <1>1 DEF Amount
    <3>3. StepsLeft(pc'[t]) <= 8 /\ StepsLeft(pc[t]) = 3
      BY <3>1 DEF StepsLeft
    <3> QED BY <2>1, <3>1, <3>2, <3>3
  <2>6. CASE Unlock(t)
    <3>1. /\ pc[t] = "unlock" /\ added'[t] = added[t]
          /\ pc'[t] = IF mode = "loop" THEN "signal" ELSE Again(added[t])
      BY <1>1, <2>6 DEF Unlock, TypeOK, Move, locals
    <3>2. pc'[t] \in {"signal", "sem", "lock", "load", "done"}
      BY <3>1 DEF Again, First
    <3> QED BY <2>1, <3>1, <3>2 DEF StepsLeft
  <2>7. CASE SemSignal(t)
    <3>1. pc[t] = "signal" /\ added'[t] = added[t] /\ pc'[t] = Again(added[t])
      BY <1>1, <2>7 DEF SemSignal, TypeOK, Move, locals
    <3>2. pc'[t] \in {"sem", "lock", "load", "done"}
      BY <3>1 DEF Again, First
    <3> QED BY <2>1, <3>1, <3>2 DEF StepsLeft
  <2> QED BY <2>2, <2>3, <2>4, <2>5, <2>6, <2>7 DEF Thread
<1>6. ThreadLeft(t)' < ThreadLeft(t)
  <2>1. StepsLeft(pc[t]) \in Nat /\ StepsLeft(pc'[t]) \in Nat
    BY DEF StepsLeft
  <2>2. 6 * (Loops - added'[t]) + StepsLeft(pc'[t]) < 6 * (Loops - added[t]) + StepsLeft(pc[t])
    BY <1>1, <1>5, <2>1
  <2> QED BY <2>2 DEF ThreadLeft
<1>7. \A u \in Threads : u # t => ThreadLeft(u)' = ThreadLeft(u)
  BY <1>4 DEF ThreadLeft
<1>8. ThreadsLeft' < ThreadsLeft
  BY <1>1, <1>6, <1>7, OneLess
<1>9. MainLeft' = MainLeft
  BY <1>3 DEF MainLeft
<1> QED BY <1>1, <1>2, <1>8, <1>9, LessWork

(* Neither loop goes on for ever, whatever the threads do to each other,   *)
(* and by NeverStuck only a semaphore of no slots stops it before its end. *)
THEOREM WorkEnds == Spec => WorkShrinks
<1>1. IInv /\ IInv' /\ [Next]_vars => [Shrinks]_vars
  <2> SUFFICES ASSUME IInv, IInv', Next PROVE Shrinks
    OBVIOUS
  <2>1. TypeOK
    BY DEF IInv
  <2> QED BY <2>1, WorkTypes, CreateWork, JoinWork, ReportWork, ThreadWork
          DEF Next, Main, Shrinks, WorkOK
<1> QED BY <1>1, Invariant, PTL DEF Spec, WorkShrinks
=============================================================================
