--------------------------- MODULE SemLockProofs ----------------------------
(***************************************************************************)
(* Proofs about SemLock, for any number of launches and kills.             *)
(***************************************************************************)
EXTENDS SemLock, SequenceTheorems, TLAPS

(* The value v, the queue q, the adjustments a and the states st fit       *)
(* together, but for processes that v lets go on.                          *)
Queued(q, st) ==
    /\ q \in Seq(Procs)
    /\ \A i \in 1..Len(q) : st[q[i]] = "waiting"
    /\ \A i, j \in 1..Len(q) : q[i] = q[j] => i = j
    /\ \A p \in Procs : st[p] = "waiting" => \E i \in 1..Len(q) : q[i] = p

Undo(a, st) == a = [p \in Procs |-> IF st[p] = "section" THEN 1 ELSE 0]

Held(v, st) ==
    /\ \A p, q \in Procs : st[p] = "section" /\ st[q] = "section" => p = q
    /\ v = 1 => \A p \in Procs : st[p] # "section"
    /\ v = 0 => \/ \E p \in Procs : st[p] = "section"
                \/ \A p \in Procs : st[p] \in {"none", "ended"}

Unborn(st) ==
    \A l \in Launches : st[<<l, "parent">>] \in {"none", "set"}
                          => st[<<l, "child">>] = "none"

States == {"none", "set", "outside", "waiting", "section", "ended"}

Good(v, q, a, st) ==
    /\ v \in {0, 1} /\ st \in [Procs -> States]
    /\ Queued(q, st) /\ Undo(a, st) /\ Held(v, st) /\ Unborn(st)

IInv ==
    /\ Good(sem, queue, adj, state)
    /\ sem = 1 => queue = <<>>
    /\ kills \in 0..MaxKills

LEMMA SettleGood ==
    ASSUME NEW v, NEW q, NEW a, NEW st, Good(v, q, a, st), Settle(v, q, a, st)
    PROVE  /\ Good(sem', queue', adj', state')
           /\ sem' = 1 => queue' = <<>>
<1>0. v \in {0, 1} /\ q \in Seq(Procs) /\ st \in [Procs -> States]
  BY DEF Good, Queued
<1>1. CASE v = 0 \/ q = <<>>
  <2> DEFINE n == IF v < Len(q) THEN v ELSE Len(q)
  <2>1. n = 0
    BY <1>0, <1>1
  <2>2. {q[i] : i \in 1..n} = {}
    BY <2>1
  <2>3. sem' = v - n /\ queue' = SubSeq(q, n + 1, Len(q))
    BY DEF Settle
  <2>4. sem' = v /\ queue' = q
    <3>1. SubSeq(q, 1, Len(q)) = q
      BY <1>0, SubSeqFull
    <3>2. n + 1 = 1 /\ v - n = v
      BY <1>0, <2>1
    <3> QED BY <2>3, <3>1, <3>2
  <2>5. adj' = [p \in Procs |-> a[p]] /\ state' = [p \in Procs |-> st[p]]
    BY <2>2 DEF Settle
  <2>6. adj' = a /\ state' = st
    BY <1>0, <2>5 DEF Good, Undo
  <2> QED BY <1>1, <2>4, <2>6
<1>2. CASE v = 1 /\ q # <<>>
  <2> DEFINE n == IF v < Len(q) THEN v ELSE Len(q)
             h == q[1]
  <2>1. n = 1 /\ Len(q) \in Nat \ {0} /\ h \in Procs
    <3>1. Len(q) \in Nat \ {0} /\ h \in Procs
      BY <1>0, <1>2, EmptySeq
    <3>2. CASE Len(q) = 1
      BY <1>2, <3>1, <3>2
    <3>3. CASE 1 < Len(q)
      BY <1>2, <3>1, <3>3
    <3> QED BY <3>1, <3>2, <3>3
  <2>2. {q[i] : i \in 1..n} = {h}
    BY <2>1
  <2>3. sem' = v - n /\ queue' = SubSeq(q, n + 1, Len(q))
    BY DEF Settle
  <2>4. /\ adj' = [p \in Procs |-> IF p \in {h} THEN a[p] + 1 ELSE a[p]]
        /\ state' = [p \in Procs |-> IF p \in {h} THEN "section" ELSE st[p]]
    BY <2>2 DEF Settle
  <2>5. sem' = 0
    BY <1>2, <2>1, <2>3
  <2>6. queue' = SubSeq(q, 2, Len(q))
    <3> HIDE DEF n
    <3> QED BY <2>1, <2>3
  <2>7. /\ queue' \in Seq(Procs) /\ Len(queue') = Len(q) - 1
        /\ \A i \in 1..Len(queue') : i + 1 \in 1..Len(q) /\ queue'[i] = q[i + 1]
    BY <1>0, <2>1, <2>6
  <2>8. st[h] = "waiting" /\ \A p \in Procs : st[p] # "section"
    BY <1>2, <2>1 DEF Good, Queued, Held
  <2>9. \A p \in Procs : state'[p] = IF p = h THEN "section" ELSE st[p]
    BY <2>4
  <2>10. state' \in [Procs -> States]
    BY <1>0, <2>4 DEF States
  <2>11. Queued(queue', state')
    <3>1. \A i \in 1..Len(queue') : queue'[i] # h
      BY <2>1, <2>7 DEF Good, Queued
    <3>2. \A i \in 1..Len(queue') : state'[queue'[i]] = "waiting"
      BY <1>0, <2>7, <2>9, <3>1 DEF Good, Queued
    <3>3. ASSUME NEW i \in 1..Len(queue'), NEW j \in 1..Len(queue'), queue'[i] = queue'[j]
          PROVE  i = j
      <4>1. i + 1 \in 1..Len(q) /\ j + 1 \in 1..Len(q) /\ q[i + 1] = q[j + 1]
        BY <2>7, <3>3
      <4>2. i + 1 = j + 1
        BY <4>1 DEF Good, Queued
      <4> QED BY <4>2
    <3>4. ASSUME NEW p \in Procs, state'[p] = "waiting"
          PROVE  \E i \in 1..Len(queue') : queue'[i] = p
      <4>1. p # h /\ st[p] = "waiting"
        BY <2>9, <3>4
      <4>2. PICK i \in 1..Len(q) : q[i] = p
        BY <4>1 DEF Good, Queued
      <4>3. i # 1
        BY <4>1, <4>2
      <4>4. i - 1 \in 1..Len(queue') /\ queue'[i - 1] = q[(i - 1) + 1] /\ (i - 1) + 1 = i
        BY <2>1, <2>7, <4>3
      <4> QED BY <4>2, <4>4
    <3> QED BY <2>7, <3>2, <3>3, <3>4 DEF Queued
  <2>12. Undo(adj', state')
    <3>1. \A p \in Procs : a[p] = 0
      BY <2>8 DEF Good, Undo
    <3> QED BY <2>4, <2>8, <2>9, <3>1 DEF Undo
  <2>13. Held(sem', state')
    BY <2>1, <2>5, <2>8, <2>9 DEF Held
  <2>14. Unborn(state')
    BY <2>8, <2>9 DEF Good, Unborn, Procs
  <2> QED BY <2>5, <2>10, <2>11, <2>12, <2>13, <2>14 DEF Good
<1> QED BY <1>0, <1>1, <1>2

(* Settle makes nobody alive.                                              *)
LEMMA SettleAlive ==
    ASSUME NEW v, NEW q, NEW a, NEW st, Good(v, q, a, st), Settle(v, q, a, st)
    PROVE  \A p \in Procs : Alive(p)' => st[p] \notin {"none", "ended"}
<1> SUFFICES ASSUME NEW p \in Procs, Alive(p)' PROVE st[p] \notin {"none", "ended"}
  OBVIOUS
<1> DEFINE n == IF v < Len(q) THEN v ELSE Len(q)
           go == {q[i] : i \in 1..n}
<1>1. state'[p] = IF p \in go THEN "section" ELSE st[p]
  BY DEF Settle
<1>2. CASE p \in go
  <2>1. v \in {0, 1} /\ Len(q) \in Nat
    BY DEF Good, Queued
  <2>2. PICK i \in 1..n : p = q[i]
    BY <1>2
  <2>3. i \in 1..Len(q)
    BY <2>1, <2>2
  <2> HIDE DEF n, go
  <2>4. st[p] = "waiting"
    BY <2>2, <2>3 DEF Good, Queued
  <2> QED BY <2>4
<1>3. CASE p \notin go
  <2> HIDE DEF go
  <2> QED BY <1>1, <1>3 DEF Alive
<1> QED BY <1>2, <1>3

(* Who is in the section stays there.                                      *)
LEMMA SettleKeeps ==
    ASSUME NEW v, NEW q, NEW a, NEW st, Settle(v, q, a, st)
    PROVE  \A p \in Procs : st[p] = "section" => state'[p] = "section"
<1> DEFINE go == {q[i] : i \in 1..(IF v < Len(q) THEN v ELSE Len(q))}
<1>1. \A p \in Procs : state'[p] = IF p \in go THEN "section" ELSE st[p]
  BY DEF Settle
<1> HIDE DEF go
<1> QED BY <1>1

(* And whoever is first in the queue goes on when the semaphore is 1.      *)
LEMMA SettleFirst ==
    ASSUME NEW q, NEW a, NEW st, NEW p \in Procs, Queued(q, st), st[p] = "waiting",
           \A r \in Procs : st[r] = "waiting" => r = p, Settle(1, q, a, st)
    PROVE  state'[p] = "section"
<1> DEFINE n == IF 1 < Len(q) THEN 1 ELSE Len(q)
           go == {q[i] : i \in 1..n}
<1>1. PICK i \in 1..Len(q) : q[i] = p
  BY DEF Queued
<1>2. Len(q) \in Nat /\ Len(q) >= 1
  BY <1>1 DEF Queued
<1>3. q[1] \in Procs /\ st[q[1]] = "waiting"
  BY <1>2 DEF Queued
<1>4. q[1] = p /\ 1 \in 1..n
  BY <1>2, <1>3
<1>5. p \in go
  BY <1>4
<1>6. state'[p] = IF p \in go THEN "section" ELSE st[p]
  BY DEF Settle
<1> HIDE DEF go
<1> QED BY <1>5, <1>6

(* Whoever is alive was so before, and if p leaves the section a process   *)
(* that waits alone has it.                                                *)
LeavesTo(p) ==
    /\ \A r \in Procs : Alive(r)' => Alive(r)
    /\ state[p] = "section" =>
          \A r \in Procs :
              state[r] = "waiting" /\ (\A t \in Procs : state[t] = "waiting" => t = r)
                  => state'[r] = "section"

(* The others keep their places in the queue.                              *)
LEMMA WithoutQueued ==
    ASSUME NEW q, NEW st \in [Procs -> States], Queued(q, st), NEW p \in Procs
    PROVE  Queued(Without(q, p), [st EXCEPT ![p] = "ended"])
<1> DEFINE w == Without(q, p)
           st2 == [st EXCEPT ![p] = "ended"]
<1>0. \A r \in Procs : st2[r] = IF r = p THEN "ended" ELSE st[r]
  OBVIOUS
<1>1. CASE \A i \in 1..Len(q) : q[i] # p
  <2>1. w = q
    BY <1>1 DEF Without
  <2>2. \A i \in 1..Len(q) : q[i] \in Procs
    BY DEF Queued
  <2>3. \A i \in 1..Len(q) : st2[q[i]] = "waiting"
    BY <1>0, <1>1, <2>2 DEF Queued
  <2>4. \A r \in Procs : st2[r] = "waiting" => \E i \in 1..Len(q) : q[i] = r
    BY <1>0 DEF Queued
  <2> QED BY <2>1, <2>3, <2>4 DEF Queued
<1>2. CASE \E i \in 1..Len(q) : q[i] = p
  <2> DEFINE k == CHOOSE i \in 1..Len(q) : q[i] = p
             m(i) == IF i < k THEN i ELSE i + 1
  <2>1. k \in 1..Len(q) /\ q[k] = p
    BY <1>2
  <2>2. w = [i \in 1..Len(q) - 1 |-> q[IF i < k THEN i ELSE i + 1]]
    BY <1>2 DEF Without
  <2>3. Len(q) \in Nat /\ \A i \in 1..Len(q) : q[i] \in Procs
    BY DEF Queued
  <2> HIDE DEF k
  <2>4. Len(q) - 1 \in Nat
    BY <2>1, <2>3
  <2>5. \A i \in 1..Len(q) - 1 : m(i) \in 1..Len(q) /\ m(i) # k
    BY <2>1, <2>3
  <2>6. \A i, j \in 1..Len(q) - 1 : m(i) = m(j) => i = j
    BY <2>1, <2>3
  <2>7. \A j \in 1..Len(q) : j # k => \E i \in 1..Len(q) - 1 : m(i) = j
    <3> SUFFICES ASSUME NEW j \in 1..Len(q), j # k
                 PROVE  \E i \in 1..Len(q) - 1 : m(i) = j
      OBVIOUS
    <3>1. CASE j < k
      BY <3>1, <2>1, <2>3
    <3>2. CASE k < j
      <4>1. j - 1 \in 1..Len(q) - 1 /\ m(j - 1) = j
        BY <3>2, <2>1, <2>3
      <4> QED BY <4>1
    <3> QED BY <3>1, <3>2, <2>1, <2>3
  <2>8. w = [i \in 1..Len(q) - 1 |-> q[m(i)]]
    BY <2>2
  <2> HIDE DEF m, w
  <2>9. w \in Seq(Procs) /\ Len(w) = Len(q) - 1
    <3>1. w \in [1..(Len(q) - 1) -> Procs]
      BY <2>3, <2>5, <2>8
    <3>2. w \in Seq(Procs)
      BY <2>4, <3>1
    <3> QED BY <2>4, <3>1, <3>2, LenProperties
  <2>10. \A i \in 1..Len(w) : i \in 1..Len(q) - 1 /\ w[i] = q[m(i)]
    BY <2>8, <2>9
  <2>11. \A i \in 1..Len(w) : w[i] # p
    <3> SUFFICES ASSUME NEW i \in 1..Len(w), w[i] = p PROVE FALSE
      OBVIOUS
    <3>1. w[i] = q[m(i)] /\ m(i) \in 1..Len(q) /\ m(i) # k
      BY <2>5, <2>10
    <3>2. q[m(i)] = q[k]
      BY <2>1, <3>1
    <3> QED BY <2>1, <3>1, <3>2 DEF Queued
  <2>12. \A i \in 1..Len(w) : st2[w[i]] = "waiting"
    BY <1>0, <2>3, <2>5, <2>10, <2>11 DEF Queued
  <2>13. \A i, j \in 1..Len(w) : w[i] = w[j] => i = j
    BY <2>5, <2>6, <2>10 DEF Queued
  <2>14. ASSUME NEW r \in Procs, st2[r] = "waiting" PROVE \E i \in 1..Len(w) : w[i] = r
    <3>1. r # p /\ st[r] = "waiting"
      BY <1>0, <2>14
    <3>2. PICK j \in 1..Len(q) : q[j] = r
      BY <3>1 DEF Queued
    <3>3. j # k
      BY <2>1, <3>1, <3>2
    <3> QED BY <2>7, <2>8, <2>9, <3>2, <3>3
  <2> HIDE DEF st2
  <2>15. Queued(w, st2)
    BY <2>9, <2>12, <2>13, <2>14 DEF Queued
  <2> QED BY <2>15 DEF w, st2
<1> QED BY <1>1, <1>2

LEMMA ExitGood ==
    ASSUME IInv, NEW p \in Procs, Alive(p), Exit(p)
    PROVE  Good(sem', queue', adj', state') /\ (sem' = 1 => queue' = <<>>) /\ LeavesTo(p)
<1> DEFINE v == Clip(sem + adj[p])
           q == Without(queue, p)
           a == [adj EXCEPT ![p] = 0]
           st == [state EXCEPT ![p] = "ended"]
<1>0. Good(sem, queue, adj, state) /\ state \in [Procs -> States]
  BY DEF IInv, Good
<1>1. \A r \in Procs : st[r] = IF r = p THEN "ended" ELSE state[r]
  BY <1>0
<1>2. st \in [Procs -> States]
  BY <1>0 DEF States
<1>3. Queued(q, st)
  BY <1>0, WithoutQueued DEF Good
<1>4. Undo(a, st)
  BY <1>0, <1>1 DEF Good, Undo
<1>5. adj[p] = IF state[p] = "section" THEN 1 ELSE 0
  BY <1>0 DEF Good, Undo
<1>6. state[p] = "section" => sem = 0
  BY <1>0 DEF Good, Held
<1>7. v = IF state[p] = "section" THEN 1 ELSE sem
  BY <1>0, <1>5, <1>6, LimitAssumption DEF Good, Clip
<1>8. Unborn(st)
  <2> SUFFICES ASSUME NEW l \in Launches, st[<<l, "parent">>] \in {"none", "set"}
               PROVE  st[<<l, "child">>] = "none"
    BY DEF Unborn
  <2>1. state[<<l, "parent">>] \in {"none", "set"} /\ state[<<l, "child">>] = "none"
    BY <1>0, <1>1 DEF Procs, Good, Unborn
  <2>2. p # <<l, "child">>
    BY <2>1 DEF Alive
  <2> QED BY <1>1, <2>1, <2>2 DEF Procs
<1> HIDE DEF v, q, a, st
<1>9. Held(v, st)
  <2>1. \A r, t \in Procs : st[r] = "section" /\ st[t] = "section" => r = t
    BY <1>0, <1>1 DEF Good, Held
  <2>2. v = 1 => \A r \in Procs : st[r] # "section"
    BY <1>0, <1>1, <1>7 DEF Good, Held
  <2>3. ASSUME v = 0, \A r \in Procs : st[r] # "section"
        PROVE  \A r \in Procs : st[r] \in {"none", "ended"}
    <3>1. sem = 0 /\ state[p] # "section"
      BY <1>7, <2>3
    <3>2. \A r \in Procs : state[r] # "section"
      BY <1>1, <2>3, <3>1
    <3>3. \A r \in Procs : state[r] \in {"none", "ended"}
      BY <1>0, <3>1, <3>2 DEF Good, Held
    <3> QED BY <1>1, <3>3
  <2> QED BY <2>1, <2>2, <2>3 DEF Held
<1>10. v \in {0, 1}
  BY <1>0, <1>7 DEF Good
<1>11. Good(v, q, a, st)
  BY <1>2, <1>3, <1>4, <1>8, <1>9, <1>10 DEF Good
<1>12. Settle(v, q, a, st)
  BY DEF Exit, v, q, a, st
<1>13. \A r \in Procs : Alive(r)' => Alive(r)
  <2>1. \A r \in Procs : Alive(r)' => st[r] \notin {"none", "ended"}
    BY <1>11, <1>12, SettleAlive
  <2> QED BY <1>1, <2>1 DEF Alive
<1>14. ASSUME state[p] = "section", NEW r \in Procs, state[r] = "waiting",
              \A t \in Procs : state[t] = "waiting" => t = r
       PROVE  state'[r] = "section"
  <2>1. st[r] = "waiting" /\ \A t \in Procs : st[t] = "waiting" => t = r
    BY <1>1, <1>14
  <2>2. v = 1
    BY <1>7, <1>14
  <2> QED BY <1>3, <1>12, <2>1, <2>2, SettleFirst
<1> QED BY <1>11, <1>12, <1>13, <1>14, SettleGood DEF LeavesTo

(* The semaphore is set while nobody is there to use it.                   *)
LEMMA SetvalGood ==
    ASSUME IInv, Alone, NEW l \in Launches, Setval(l)
    PROVE  /\ Good(sem', queue', adj', state') /\ (sem' = 1 => queue' = <<>>)
           /\ \A p \in Procs : ~Alive(p) /\ (Alive(p)' => p = <<l, "parent">>)
<1> DEFINE m == <<l, "parent">>
           st == [state EXCEPT ![m] = "set"]
<1>0. Good(sem, queue, adj, state) /\ state \in [Procs -> States] /\ m \in Procs
  BY DEF IInv, Good, Procs
<1>1. \A p \in Procs : state[p] \in {"none", "ended"}
  BY DEF Setval, Alive
<1>2. state[m] = "none" /\ Settle(1, queue, NoAdj, st)
  BY DEF Setval
<1>3. \A p \in Procs : st[p] = IF p = m THEN "set" ELSE state[p]
  BY <1>0
<1>4. \A p \in Procs : st[p] \in {"none", "ended", "set"}
  BY <1>1, <1>3
<1>5. st \in [Procs -> States]
  BY <1>0 DEF States
<1>6. Unborn(st)
  BY <1>0, <1>2, <1>3 DEF Good, Unborn, Procs
<1> HIDE DEF st
<1>7. Queued(queue, st)
  <2>1. queue \in Seq(Procs) /\ \A i \in 1..Len(queue) : queue[i] \in Procs
    BY <1>0 DEF Good, Queued
  <2>2. \A i \in 1..Len(queue) : FALSE
    BY <1>0, <1>1, <2>1 DEF Good, Queued
  <2> QED BY <1>4, <2>1, <2>2 DEF Queued
<1>8. Undo(NoAdj, st)
  BY <1>4 DEF Undo, NoAdj
<1>9. Held(1, st)
  BY <1>4 DEF Held
<1>10. Good(1, queue, NoAdj, st)
  BY <1>5, <1>6, <1>7, <1>8, <1>9 DEF Good
<1>11. \A p \in Procs : ~Alive(p) /\ (Alive(p)' => p = m)
  <2>1. \A p \in Procs : Alive(p)' => st[p] \notin {"none", "ended"}
    BY <1>2, <1>10, SettleAlive
  <2> QED BY <1>1, <1>3, <2>1 DEF Alive
<1> QED BY <1>2, <1>10, <1>11, SettleGood

LEMMA ForkGood ==
    ASSUME IInv, NEW l \in Launches, Fork(l)
    PROVE  Good(sem', queue', adj', state')
<1> DEFINE m == <<l, "parent">>
           c == <<l, "child">>
<1>0. Good(sem, queue, adj, state) /\ state \in [Procs -> States] /\ m \in Procs /\ c \in Procs
  BY DEF IInv, Good, Procs
<1>1. state[m] = "set" /\ state[c] = "none"
  BY <1>0 DEF Fork, Good, Unborn
<1>2. \A p \in Procs : state'[p] = IF p \in {m, c} THEN "outside" ELSE state[p]
  BY <1>0 DEF Fork
<1>3. state' \in [Procs -> States]
  BY <1>0 DEF Fork, States
<1>4. sem' = sem /\ queue' = queue /\ adj' = adj
  BY DEF Fork
<1>5. Queued(queue, state')
  <2>1. \A i \in 1..Len(queue) : queue[i] \in Procs /\ state[queue[i]] = "waiting"
    BY <1>0 DEF Good, Queued
  <2>2. \A r \in Procs : state'[r] = "waiting" <=> state[r] = "waiting"
    BY <1>1, <1>2
  <2> HIDE DEF m, c
  <2> QED BY <1>0, <2>1, <2>2 DEF Good, Queued
<1>6. \A p \in Procs : state'[p] = "section" <=> state[p] = "section"
  BY <1>1, <1>2
<1>7. Undo(adj, state')
  BY <1>0, <1>6 DEF Good, Undo
<1>8. Held(sem, state')
  <2>1. ~ \A p \in Procs : state[p] \in {"none", "ended"}
    BY <1>0, <1>1
  <2> QED BY <1>0, <1>6, <2>1 DEF Good, Held
<1>9. Unborn(state')
  BY <1>0, <1>2 DEF Good, Unborn, Procs
<1> QED BY <1>0, <1>3, <1>4, <1>5, <1>7, <1>8, <1>9 DEF Good

LEMMA PGood ==
    ASSUME IInv, NEW p \in Procs, P(p)
    PROVE  Good(sem', queue', adj', state') /\ (sem' = 1 => queue' = <<>>)
<1>0. /\ Good(sem, queue, adj, state) /\ state \in [Procs -> States]
      /\ sem \in {0, 1} /\ queue \in Seq(Procs) /\ state[p] = "outside"
      /\ sem = 1 => queue = <<>>
  BY DEF IInv, Good, Queued, P
<1>1. \A i \in 1..Len(queue) : queue[i] \in Procs /\ queue[i] # p
  BY <1>0 DEF Good, Queued
<1>2. ASSUME NEW x \in {"section", "waiting"}, state' = [state EXCEPT ![p] = x]
      PROVE  /\ state' \in [Procs -> States] /\ Unborn(state')
             /\ \A r \in Procs : state'[r] = IF r = p THEN x ELSE state[r]
  <2>1. \A r \in Procs : state'[r] = IF r = p THEN x ELSE state[r]
    BY <1>0, <1>2
  <2>2. state' \in [Procs -> States]
    BY <1>0, <1>2 DEF States
  <2>3. Unborn(state')
    BY <1>0, <2>1 DEF Good, Unborn, Procs
  <2> QED BY <2>1, <2>2, <2>3
<1>3. CASE sem > 0
  <2>1. /\ sem = 1 /\ queue = <<>> /\ sem' = 0 /\ queue' = <<>>
        /\ state' = [state EXCEPT ![p] = "section"]
        /\ adj' = [adj EXCEPT ![p] = @ + 1]
    BY <1>0, <1>3 DEF P
  <2>2. /\ state' \in [Procs -> States] /\ Unborn(state')
        /\ \A r \in Procs : state'[r] = IF r = p THEN "section" ELSE state[r]
    BY <1>2, <2>1
  <2>3. \A r \in Procs : state[r] # "section"
    BY <1>0, <2>1 DEF Good, Held
  <2>4. Held(0, state')
    BY <2>2, <2>3 DEF Held
  <2>5. Undo(adj', state')
    BY <1>0, <2>1, <2>2, <2>3 DEF Good, Undo
  <2>6. Queued(queue, state')
    BY <1>0, <1>1, <2>2 DEF Good, Queued
  <2> QED BY <2>1, <2>2, <2>4, <2>5, <2>6 DEF Good
<1>4. CASE ~(sem > 0)
  <2>1. /\ sem = 0 /\ sem' = 0 /\ queue' = Append(queue, p) /\ adj' = adj
        /\ state' = [state EXCEPT ![p] = "waiting"]
    BY <1>0, <1>4 DEF P
  <2>2. /\ state' \in [Procs -> States] /\ Unborn(state')
        /\ \A r \in Procs : state'[r] = IF r = p THEN "waiting" ELSE state[r]
    BY <1>2, <2>1
  <2>3. \A r \in Procs : state'[r] = "section" <=> state[r] = "section"
    BY <1>0, <2>2
  <2>4. Undo(adj', state')
    BY <1>0, <2>1, <2>3 DEF Good, Undo
  <2>5. Held(0, state')
    <3>1. \E r \in Procs : state[r] = "section"
      BY <1>0, <2>1 DEF Good, Held
    <3> QED BY <1>0, <2>3, <3>1 DEF Good, Held
  <2>6. /\ queue' \in Seq(Procs) /\ Len(queue') = Len(queue) + 1
        /\ \A i \in 1..Len(queue) : queue'[i] = queue[i]
        /\ queue'[Len(queue) + 1] = p /\ Len(queue) \in Nat
    BY <1>0, <2>1, AppendProperties
  <2>7. \A i \in 1..Len(queue') : i \in 1..Len(queue) \/ i = Len(queue) + 1
    BY <2>6
  <2>8. Queued(queue', state')
    <3>1. \A i \in 1..Len(queue') : state'[queue'[i]] = "waiting"
      BY <1>0, <1>1, <2>2, <2>6, <2>7 DEF Good, Queued
    <3>2. \A i, j \in 1..Len(queue') : queue'[i] = queue'[j] => i = j
      BY <1>0, <1>1, <2>6, <2>7 DEF Good, Queued
    <3>3. \A r \in Procs : state'[r] = "waiting" => \E i \in 1..Len(queue') : queue'[i] = r
      <4> SUFFICES ASSUME NEW r \in Procs, state'[r] = "waiting"
                   PROVE  \E i \in 1..Len(queue') : queue'[i] = r
        OBVIOUS
      <4>1. CASE r = p
        <5>1. Len(queue) + 1 \in 1..Len(queue')
          BY <2>6
        <5> QED BY <4>1, <2>6, <5>1
      <4>2. CASE r # p
        <5>1. PICK i \in 1..Len(queue) : queue[i] = r
          BY <1>0, <2>2, <4>2 DEF Good, Queued
        <5>2. i \in 1..Len(queue')
          BY <2>6
        <5> QED BY <2>6, <5>1, <5>2
      <4> QED BY <4>1, <4>2
    <3> QED BY <2>6, <3>1, <3>2, <3>3 DEF Queued
  <2> QED BY <2>1, <2>2, <2>4, <2>5, <2>8 DEF Good
<1> QED BY <1>3, <1>4

LEMMA VGood ==
    ASSUME IInv, NEW p \in Procs, V(p)
    PROVE  Good(sem', queue', adj', state') /\ (sem' = 1 => queue' = <<>>) /\ LeavesTo(p)
<1> DEFINE a == [adj EXCEPT ![p] = @ - 1]
           st == [state EXCEPT ![p] = "outside"]
<1>0. Good(sem, queue, adj, state) /\ state \in [Procs -> States] /\ state[p] = "section"
  BY DEF IInv, Good, V, InSection
<1>1. sem = 0 /\ sem + 1 = 1
  BY <1>0 DEF Good, Held
<1>2. \A r \in Procs : st[r] = IF r = p THEN "outside" ELSE state[r]
  BY <1>0
<1>3. st \in [Procs -> States]
  BY <1>0 DEF States
<1>4. Undo(a, st)
  BY <1>0, <1>2 DEF Good, Undo
<1>5. Settle(1, queue, a, st)
  BY <1>1 DEF V
<1> HIDE DEF a, st
<1>6. \A r \in Procs : st[r] # "section"
  BY <1>0, <1>2 DEF Good, Held
<1>7. Held(1, st)
  BY <1>6 DEF Held
<1>8. Unborn(st)
  BY <1>0, <1>2 DEF Good, Unborn, Procs
<1>9. Queued(queue, st)
  <2>1. \A i \in 1..Len(queue) : queue[i] \in Procs
    BY <1>0 DEF Good, Queued
  <2> QED BY <1>0, <1>2, <2>1 DEF Good, Queued
<1>10. Good(1, queue, a, st)
  BY <1>3, <1>4, <1>7, <1>8, <1>9 DEF Good
<1>11. \A r \in Procs : Alive(r)' => Alive(r)
  <2>1. \A r \in Procs : Alive(r)' => st[r] \notin {"none", "ended"}
    BY <1>5, <1>10, SettleAlive
  <2> QED BY <1>0, <1>2, <2>1 DEF Alive
<1>12. ASSUME NEW r \in Procs, state[r] = "waiting",
              \A t \in Procs : state[t] = "waiting" => t = r
       PROVE  state'[r] = "section"
  <2>1. st[r] = "waiting" /\ \A t \in Procs : st[t] = "waiting" => t = r
    BY <1>0, <1>2, <1>12
  <2> QED BY <1>5, <1>9, <2>1, SettleFirst
<1> QED BY <1>5, <1>10, <1>11, <1>12, SettleGood DEF LeavesTo

LEMMA InitIInv == Init => IInv
<1> SUFFICES ASSUME Init PROVE IInv
  OBVIOUS
<1>1. state \in [Procs -> States] /\ \A p \in Procs : state[p] = "none"
  BY DEF Init, States
<1>2. Queued(queue, state)
  BY <1>1, EmptySeq DEF Init, Queued
<1>3. Undo(adj, state) /\ Held(sem, state) /\ Unborn(state)
  BY <1>1 DEF Init, Undo, NoAdj, Held, Unborn, Procs
<1> QED BY <1>1, <1>2, <1>3, KillsAssumption DEF Init, IInv, Good

LEMMA NextIInv == Alone /\ IInv /\ [Next]_vars => IInv'
<1> SUFFICES ASSUME Alone, IInv, [Next]_vars PROVE IInv'
  OBVIOUS
<1>1. ASSUME NEW l \in Launches, Setval(l) PROVE IInv'
  BY <1>1, SetvalGood DEF IInv, Setval
<1>2. ASSUME NEW l \in Launches, Fork(l) PROVE IInv'
  BY <1>2, ForkGood DEF IInv, Fork
<1>3. ASSUME NEW l \in Launches, ForkFails(l) PROVE IInv'
  BY <1>3, ExitGood DEF IInv, ForkFails, Alive, Procs
<1>4. ASSUME NEW p \in Procs, P(p) PROVE IInv'
  BY <1>4, PGood DEF IInv, P
<1>5. ASSUME NEW p \in Procs, V(p) PROVE IInv'
  BY <1>5, VGood DEF IInv, V
<1>6. ASSUME NEW p \in Procs, Kill(p) PROVE IInv'
  BY <1>6, ExitGood, KillsAssumption DEF IInv, Kill
<1>7. CASE UNCHANGED vars
  BY <1>7 DEF vars, IInv
<1> QED BY <1>1, <1>2, <1>3, <1>4, <1>5, <1>6, <1>7 DEF Next, Launch, Loop

LEMMA Invariant == Alone => (Spec => []IInv)
<1> SUFFICES ASSUME Alone PROVE Spec => []IInv
  OBVIOUS
<1>1. IInv /\ [Next]_vars => IInv'
  BY NextIInv
<1> QED BY InitIInv, <1>1, PTL DEF Spec

(* When each launch waits for the end of the last, no two processes are in *)
(* the critical section at once, however many are killed in it.            *)
THEOREM Exclusion == Alone => (Spec => []MutualExclusion)
<1>1. IInv => MutualExclusion
  BY DEF IInv, Good, Held, MutualExclusion, InSection
<1> QED BY Invariant, <1>1, PTL

(* And no process that is killed takes the lock with it.                   *)
THEOREM LockKept == Alone => (Spec => []LockNotLost)
<1>1. IInv => LockNotLost
  BY DEF IInv, Good, Held, LockNotLost, InSection, Alive
<1> QED BY Invariant, <1>1, PTL

(* The semaphore, the adjustments and the queue have their types.          *)
THEOREM TypeCorrect == Alone => (Spec => []TypeOK)
<1>1. IInv => TypeOK
  BY LimitAssumption DEF IInv, Good, Queued, Undo, States, TypeOK
<1> QED BY Invariant, <1>1, PTL

-----------------------------------------------------------------------------
(* Nobody is passed over.                                                  *)

(* Who leaves the section, or is killed in it, gives it to whoever waits:  *)
(* the parent, which asks again at once, does not get it a second time.    *)
HandsLockOn ==
    [][\A p, q \in Procs :
          state[p] = "waiting" /\ InSection(q) /\ state'[q] # "section" => state'[p] = "section"]_vars

(* Alone, those alive are the parent and the child of one launch.          *)
Pair == \A p, q \in Procs : Alive(p) /\ Alive(q) => p[1] = q[1]

HandedOn ==
    \A p, q \in Procs :
        state[p] = "waiting" /\ InSection(q) /\ state'[q] # "section" => state'[p] = "section"

LEMMA InitPair == Init => Pair
BY DEF Init, Pair, Alive

(* Of the two of a launch one is in the section when the other waits.      *)
LEMMA WaitsAlone ==
    ASSUME IInv, Pair, NEW p \in Procs, NEW q \in Procs, state[p] = "waiting", InSection(q)
    PROVE  \A t \in Procs : state[t] = "waiting" => t = p
<1> SUFFICES ASSUME NEW t \in Procs, state[t] = "waiting" PROVE t = p
  OBVIOUS
<1>1. Alive(p) /\ Alive(q) /\ Alive(t) /\ p # q /\ t # q
  BY DEF Alive, InSection
<1>2. p[1] = q[1] /\ t[1] = q[1]
  BY <1>1 DEF Pair
<1> QED BY <1>1, <1>2 DEF Procs

LEMMA NextPair == Alone /\ IInv /\ Pair /\ Next => Pair' /\ HandedOn
<1> SUFFICES ASSUME Alone, IInv, Pair, Next PROVE Pair' /\ HandedOn
  OBVIOUS
<1>0. state \in [Procs -> States]
  BY DEF IInv, Good
<1>1. ASSUME NEW l \in Launches, Setval(l) PROVE Pair' /\ HandedOn
  <2>1. \A p \in Procs : ~Alive(p) /\ (Alive(p)' => p = <<l, "parent">>)
    BY <1>1, SetvalGood
  <2> QED BY <2>1 DEF Pair, HandedOn, InSection, Alive
<1>2. ASSUME NEW l \in Launches, Fork(l) PROVE Pair' /\ HandedOn
  <2> DEFINE m == <<l, "parent">>
             c == <<l, "child">>
  <2>1. m \in Procs /\ c \in Procs /\ m[1] = l /\ c[1] = l
    BY DEF Procs
  <2>2. state[m] = "set" /\ Alive(m)
    BY <1>2 DEF Fork, Alive
  <2>3. \A p \in Procs : state'[p] = IF p = m \/ p = c THEN "outside" ELSE state[p]
    BY <1>0, <1>2 DEF Fork
  <2>4. state[c] = "none"
    BY <2>2 DEF IInv, Good, Unborn
  <2> HIDE DEF m, c
  <2>5. \A p \in Procs : Alive(p)' => p = c \/ Alive(p)
    BY <2>2, <2>3 DEF Alive
  <2>6. \A p \in Procs : Alive(p)' => p[1] = l
    BY <2>1, <2>2, <2>5 DEF Pair
  <2> QED BY <2>2, <2>3, <2>4, <2>6 DEF Pair, HandedOn, InSection
<1>3. ASSUME NEW p \in Procs, LeavesTo(p),
             \A q \in Procs : q # p /\ InSection(q) => state'[q] = "section"
      PROVE  Pair' /\ HandedOn
  <2>1. Pair'
    BY <1>3 DEF Pair, LeavesTo
  <2>2. HandedOn
    <3> SUFFICES ASSUME NEW r \in Procs, NEW q \in Procs,
                        state[r] = "waiting", InSection(q), state'[q] # "section"
                 PROVE  state'[r] = "section"
      BY DEF HandedOn
    <3>1. q = p /\ state[p] = "section"
      BY <1>3 DEF InSection
    <3>2. \A t \in Procs : state[t] = "waiting" => t = r
      BY WaitsAlone
    <3> QED BY <1>3, <3>1, <3>2 DEF LeavesTo
  <2> QED BY <2>1, <2>2
<1>5. ASSUME NEW p \in Procs, Alive(p), Exit(p) PROVE Pair' /\ HandedOn
  <2> DEFINE st == [state EXCEPT ![p] = "ended"]
  <2>1. \A q \in Procs : q # p => st[q] = state[q]
    BY <1>0
  <2>2. Settle(Clip(sem + adj[p]), Without(queue, p), [adj EXCEPT ![p] = 0], st)
    BY <1>5 DEF Exit
  <2> HIDE DEF st
  <2>3. \A q \in Procs : q # p /\ InSection(q) => state'[q] = "section"
    BY <2>1, <2>2, SettleKeeps DEF InSection
  <2> QED BY <1>3, <1>5, <2>3, ExitGood
<1>6. ASSUME NEW l \in Launches, ForkFails(l) PROVE Pair' /\ HandedOn
  BY <1>5, <1>6 DEF ForkFails, Alive, Procs
<1>7. ASSUME NEW p \in Procs, P(p) PROVE Pair' /\ HandedOn
  <2>1. /\ state[p] = "outside" /\ state'[p] \in {"section", "waiting"}
        /\ \A q \in Procs : q # p => state'[q] = state[q]
    BY <1>0, <1>7 DEF P
  <2>2. \A q \in Procs : Alive(q)' => Alive(q)
    BY <2>1 DEF Alive
  <2> QED BY <2>1, <2>2 DEF Pair, HandedOn, InSection
<1>8. ASSUME NEW p \in Procs, V(p) PROVE Pair' /\ HandedOn
  <2> DEFINE st == [state EXCEPT ![p] = "outside"]
  <2>1. \A q \in Procs : q # p => st[q] = state[q]
    BY <1>0
  <2>2. Settle(sem + 1, queue, [adj EXCEPT ![p] = @ - 1], st)
    BY <1>8 DEF V
  <2> HIDE DEF st
  <2>3. \A q \in Procs : q # p /\ InSection(q) => state'[q] = "section"
    BY <2>1, <2>2, SettleKeeps DEF InSection
  <2> QED BY <1>3, <1>8, <2>3, VGood
<1>9. ASSUME NEW p \in Procs, Kill(p) PROVE Pair' /\ HandedOn
  BY <1>5, <1>9 DEF Kill
<1> QED BY <1>1, <1>2, <1>6, <1>7, <1>8, <1>9 DEF Next, Launch, Loop

(* A process that waits goes on in the very step in which the other leaves *)
(* its section or is killed there: the parent never enters twice while the *)
(* child waits, and a wait lasts no longer than one section (sample.c:97). *)
THEOREM NobodyPassedOver == Alone => (Spec => HandsLockOn)
<1> SUFFICES ASSUME Alone PROVE Spec => HandsLockOn
  OBVIOUS
<1>1. IInv /\ Pair /\ [Next]_vars => Pair'
  BY NextPair DEF vars, Pair, Alive
<1>2. IInv /\ Pair /\ [Next]_vars => [HandedOn]_vars
  BY NextPair
<1>3. [HandedOn]_vars
        => [\A p, q \in Procs : state[p] = "waiting" /\ InSection(q) /\ state'[q] # "section"
               => state'[p] = "section"]_vars
  BY DEF HandedOn
<1>4. Spec => []IInv
  BY Invariant
<1> QED BY <1>1, <1>2, <1>3, <1>4, InitPair, PTL DEF Spec, HandsLockOn
=============================================================================
