--------------------------- MODULE ForkSortProofs ---------------------------
(***************************************************************************)
(* Proofs about ForkSort, for any numbers, however many, and any number of *)
(* exit statuses.                                                          *)
(***************************************************************************)
EXTENDS ForkSort, FiniteSetTheorems, WellFoundedInduction, TLAPS

(* Induction over the naturals, for a set instead of a predicate.          *)
LEMMA SetInduction ==
    ASSUME NEW S, S \subseteq Nat, 0 \in S, \A m \in S : m + 1 \in S
    PROVE  Nat \subseteq S
<1> SUFFICES ASSUME Nat \ S # {} PROVE FALSE
  OBVIOUS
<1>1. IsWellFoundedOn(OpToRel(<, Nat), Nat)
  BY NatLessThanWellFounded
<1>2. PICK x \in Nat \ S : \A y \in Nat \ S : ~(<<y, x>> \in OpToRel(<, Nat))
  BY ONLY Nat \ S # {}, <1>1, WFMin
<1>3. \A y \in Nat \ S : ~(y < x)
  BY <1>2 DEF OpToRel
<1>4. x \in Nat /\ x # 0
  BY <1>2
<1>5. x - 1 \in Nat /\ x - 1 < x /\ (x - 1) + 1 = x
  BY <1>4
<1>6. x - 1 \in S
  BY <1>3, <1>5
<1> QED BY <1>2, <1>5, <1>6

LEMMA ModBound ==
    ASSUME NEW x \in Nat, NEW s \in Nat \ {0}
    PROVE  x % s \in 0..x /\ (x < s => x % s = x)
OBVIOUS

-----------------------------------------------------------------------------
(* The loop over k finds a largest number, the first one.                  *)

FirstLargest(a, from, to, m) ==
    /\ m \in from..to
    /\ \A j \in from..to : a[j] <= a[m]
    /\ \A j \in from .. m - 1 : a[j] < a[m]

LEMMA LargestThere ==
    ASSUME NEW a, NEW from \in Nat, NEW size \in Nat, \A j \in from .. from + size : a[j] \in Int
    PROVE  \E m \in from .. from + size : FirstLargest(a, from, from + size, m)
<1> DEFINE S == {d \in Nat : d <= size =>
                    \E m \in from .. from + d : FirstLargest(a, from, from + d, m)}
<1>1. 0 \in S
  <2>1. FirstLargest(a, from, from + 0, from)
    BY DEF FirstLargest
  <2> QED BY <2>1
<1>2. ASSUME NEW d \in S PROVE d + 1 \in S
  <2> SUFFICES ASSUME d + 1 <= size
               PROVE  \E m \in from .. from + (d + 1) : FirstLargest(a, from, from + (d + 1), m)
    OBVIOUS
  <2>1. PICK m \in from .. from + d : FirstLargest(a, from, from + d, m)
    BY <1>2
  <2> DEFINE new == from + (d + 1)
  <2>2. new \in Nat /\ \A j \in from..new : j \in from .. from + d \/ j = new
    OBVIOUS
  <2>3. a[m] \in Int /\ a[new] \in Int /\ \A j \in from..new : a[j] \in Int
    BY <2>1
  <2>4. CASE a[new] <= a[m]
    <3>1. m \in from..new
      BY <2>1
    <3>2. FirstLargest(a, from, new, m)
      BY <2>1, <2>2, <2>4, <3>1 DEF FirstLargest
    <3> QED BY <3>1, <3>2
  <2>5. CASE a[m] < a[new]
    <3>1. new \in from..new /\ \A j \in from .. new - 1 : j \in from .. from + d
      OBVIOUS
    <3>2. \A j \in from .. from + d : a[j] <= a[m] /\ a[j] \in Int
      BY <2>1, <2>3 DEF FirstLargest
    <3>3. \A j \in from .. from + d : a[j] < a[new]
      BY <2>3, <2>5, <3>2
    <3>4. \A j \in from..new : a[j] <= a[new]
      BY <2>2, <2>3, <3>3
    <3>5. FirstLargest(a, from, new, new)
      BY <3>1, <3>3, <3>4 DEF FirstLargest
    <3> QED BY <3>1, <3>5
  <2> QED BY <2>3, <2>4, <2>5
<1> HIDE DEF S
<1>3. size \in S
  <2>1. S \subseteq Nat
    BY DEF S
  <2> QED BY <1>1, <1>2, <2>1, SetInduction
<1> QED BY <1>3 DEF S

LEMMA ConstantsOK ==
    /\ MaxN \in Nat \ {0} /\ MaxKills \in Nat /\ Values \subseteq Int
    /\ Statuses \in Nat \ {0}
BY NAssumption, ValuesAssumption, StatusesAssumption

LEMMA LargestIs ==
    ASSUME TypeOK, i < n
    PROVE  /\ Largest(arr, i) \in i .. n - 1 /\ Largest(arr, i) \in Index
           /\ \A j \in i .. n - 1 : arr[j] <= arr[Largest(arr, i)]
<1>1. i \in Nat /\ n \in Nat /\ n - 1 - i \in Nat /\ i + (n - 1 - i) = n - 1
  BY ConstantsOK DEF TypeOK
<1>2. \A j \in i .. i + (n - 1 - i) : arr[j] \in Int
  <2>1. \A j \in i .. n - 1 : j \in Index
    BY <1>1 DEF Index
  <2>2. \A j \in Index : arr[j] \in Int
    BY ConstantsOK DEF TypeOK
  <2> QED BY <1>1, <2>1, <2>2
<1>3. \E m \in i .. i + (n - 1 - i) : FirstLargest(arr, i, i + (n - 1 - i), m)
  BY <1>1, <1>2, LargestThere
<1>4. \E m \in i .. n - 1 : FirstLargest(arr, i, n - 1, m)
  BY <1>1, <1>3
<1>5. Largest(arr, i) = CHOOSE m \in i .. n - 1 : FirstLargest(arr, i, n - 1, m)
  <2>1. \A m \in i .. n - 1 : FirstLargest(arr, i, n - 1, m) <=>
            /\ \A j \in i .. n - 1 : arr[j] <= arr[m]
            /\ \A j \in i .. m - 1 : arr[j] < arr[m]
    BY DEF FirstLargest
  <2> QED BY <2>1 DEF Largest
<1>6. FirstLargest(arr, i, n - 1, Largest(arr, i))
  BY <1>4, <1>5
<1> QED BY <1>1, <1>6 DEF FirstLargest, Index

-----------------------------------------------------------------------------
(* What a swap does.                                                       *)

LEMMA SwapType ==
    ASSUME TypeOK, NEW x \in Index, NEW y \in Index
    PROVE  /\ Swap(arr, x, y) \in [Index -> Values]
           /\ \A z \in Index : Swap(arr, x, y)[z] =
                  arr[IF z = x THEN y ELSE IF z = y THEN x ELSE z]
BY DEF TypeOK, Swap

LEMMA SwapPermutes ==
    ASSUME TypeOK, Permuted, NEW x \in Index, NEW y \in Index,
           arr' = Swap(arr, x, y), UNCHANGED typed
    PROVE  Permuted'
<1> DEFINE t == [z \in Index |-> IF z = x THEN y ELSE IF z = y THEN x ELSE z]
<1>1. t \in [Index -> Index] /\ \A u, v \in Index : t[u] = t[v] => u = v
  OBVIOUS
<1>2. PICK f \in [Index -> Index] :
        /\ \A u, v \in Index : f[u] = f[v] => u = v
        /\ arr = [u \in Index |-> input[f[u]]]
  BY DEF Permuted
<1> DEFINE g == [z \in Index |-> f[t[z]]]
<1>3. \A z \in Index : arr'[z] = arr[t[z]]
  BY SwapType
<1>4. arr' \in [Index -> Values]
  BY SwapType
<1> HIDE DEF t
<1>5. g \in [Index -> Index] /\ \A u, v \in Index : g[u] = g[v] => u = v
  BY <1>1, <1>2
<1>6. \A z \in Index : arr'[z] = input[g[z]]
  BY <1>1, <1>2, <1>3
<1> HIDE DEF g
<1>7. arr' = [z \in Index |-> input[g[z]]]
  BY <1>4, <1>6
<1>8. Index' = Index /\ input' = input
  BY DEF typed, Index
<1>9. Permuted' <=> \E h \in [Index -> Index] :
          /\ \A u, v \in Index : h[u] = h[v] => u = v
          /\ arr' = [z \in Index |-> input[h[z]]]
  BY <1>8 DEF Permuted
<1> QED BY <1>5, <1>7, <1>9

(* With the largest of the rest in place, one place more is right.         *)
LEMMA SwapSorts ==
    ASSUME TypeOK, PrefixSorted, i < n, arr' = Swap(arr, i, Largest(arr, i)), i' = i + 1,
           UNCHANGED typed
    PROVE  PrefixSorted'
<1> DEFINE m == Largest(arr, i)
<1>1. m \in i .. n - 1 /\ m \in Index /\ \A j \in i .. n - 1 : arr[j] <= arr[m]
  BY LargestIs
<1>2. i \in Nat /\ n \in Nat /\ i \in Index /\ n' = n /\ Index = 0 .. n - 1
  BY ConstantsOK DEF TypeOK, typed, Index
<1>3. arr' = Swap(arr, i, m)
  OBVIOUS
<1> HIDE DEF m
<1>4. \A z \in Index : arr'[z] = arr[IF z = i THEN m ELSE IF z = m THEN i ELSE z]
  BY <1>1, <1>2, <1>3, SwapType
<1>5. \A z \in Index : arr[z] \in Int
  BY ConstantsOK DEF TypeOK
<1>6. ASSUME NEW x \in 0..i, NEW y \in x + 1 .. n - 1 PROVE arr'[x] >= arr'[y]
  <2>0. x \in Index /\ y \in Index
    BY <1>2
  <2>1. CASE x < i
    <3>1. arr'[x] = arr[x]
      BY <1>1, <1>2, <1>4, <2>0, <2>1
    <3>2. PICK z \in x + 1 .. n - 1 : arr'[y] = arr[z]
      BY <1>1, <1>2, <1>4, <2>0, <2>1
    <3>3. arr[x] >= arr[z]
      BY <2>1, <1>2, <3>2 DEF PrefixSorted
    <3> QED BY <3>1, <3>2, <3>3
  <2>2. CASE x = i
    <3>1. arr'[x] = arr[m]
      BY <1>4, <2>0, <2>2
    <3>2. PICK z \in i .. n - 1 : arr'[y] = arr[z]
      BY <1>1, <1>2, <1>4, <2>0, <2>2
    <3>3. z \in Index /\ arr[z] <= arr[m]
      BY <1>1, <1>2, <3>2
    <3> QED BY <1>1, <1>5, <3>1, <3>2, <3>3
  <2> QED BY <1>2, <2>1, <2>2
<1>7. i' - 1 = i /\ n' - 1 = n - 1
  BY <1>2
<1> QED BY <1>6, <1>7 DEF PrefixSorted

-----------------------------------------------------------------------------
(* Which process is at work, and what its exit status said.                *)
WorkOK ==
    /\ program = "as2_2" /\ pc = "fork" => newest = i
    /\ program = "as2_2" /\ pc = "child" => newest = i + 1
    /\ pc = "swap" => program = "as2_3" /\ (Fits => status = Largest(arr, i))

IInv == TypeOK /\ WorkOK /\ Sorted

LEMMA InitIInv == Init => IInv
<1> SUFFICES ASSUME Init PROVE IInv
  OBVIOUS
<1>1. n \in Nat \ {0} /\ 0 \in Index /\ 0 \in 0..n
  BY ConstantsOK DEF Init, Index
<1>2. TypeOK
  <2>1. buf \in [0..n -> Seq(Lines)] /\ out \in Seq(Lines)
    BY DEF Init
  <2> QED BY <1>1, <2>1, ConstantsOK DEF Init, TypeOK
<1>3. WorkOK
  BY DEF Init, WorkOK
<1>4. Permuted
  <2> DEFINE f == [x \in Index |-> x]
  <2>1. f \in [Index -> Index] /\ \A x, y \in Index : f[x] = f[y] => x = y
    OBVIOUS
  <2>2. arr = [x \in Index |-> input[f[x]]]
    BY DEF Init
  <2> QED BY <2>1, <2>2 DEF Permuted
<1>5. PrefixSorted
  BY DEF Init, PrefixSorted
<1> QED BY <1>2, <1>3, <1>4, <1>5 DEF IInv, Sorted

(* Nothing of this is about what is printed.                               *)
LEMMA SortedFrame ==
    ASSUME Sorted, UNCHANGED <<typed, arr, i>>
    PROVE  Sorted'
<1>1. /\ program' = program /\ n' = n /\ input' = input /\ arr' = arr /\ i' = i
      /\ Index' = Index
  BY DEF typed, Index
<1>2. Permuted'
  BY <1>1 DEF Sorted, Permuted
<1>3. Fits' => PrefixSorted'
  BY <1>1 DEF Sorted, Fits, PrefixSorted
<1> QED BY <1>2, <1>3 DEF Sorted

LEMMA PutsType ==
    ASSUME TypeOK, NEW p \in 0..n, NEW lines \in Seq(Lines), Puts(p, lines)
    PROVE  buf' \in [0..n -> Seq(Lines)] /\ out' \in Seq(Lines)
<1>1. buf[p] \o lines \in Seq(Lines) /\ out \o lines \in Seq(Lines)
  BY DEF TypeOK
<1> QED BY <1>1 DEF TypeOK, Puts

-----------------------------------------------------------------------------
(* The steps.                                                              *)

LEMMA LeaveIInv ==
    ASSUME IInv, NEW p \in 0..n, Leave(p) \/ KillLeaving(p)
    PROVE  IInv'
<1>1. TypeOK
  BY DEF IInv
<1>2. out \o buf[p] \in Seq(Lines)
  BY <1>1 DEF TypeOK
<1>3. /\ UNCHANGED <<program, toFile, n, input, arr, i, pc, status, newest, buf>>
      /\ leaving' \subseteq leaving /\ out' \in {out, out \o buf[p]} /\ broken' \in {broken, broken + 1}
      /\ broken' # broken => broken < MaxKills
  BY DEF Leave, KillLeaving, typed
<1>4. broken' \in 0..MaxKills
  BY <1>1, <1>3, ConstantsOK DEF TypeOK
<1>5. TypeOK'
  BY <1>1, <1>2, <1>3, <1>4 DEF TypeOK, Index
<1>6. WorkOK'
  BY <1>3 DEF IInv, WorkOK, Fits, Largest
<1>7. Sorted'
  BY <1>3, SortedFrame DEF IInv, typed
<1> QED BY <1>5, <1>6, <1>7 DEF IInv

LEMMA ForkIInv == IInv /\ Fork => IInv'
<1> SUFFICES ASSUME IInv, Fork PROVE IInv'
  OBVIOUS
<1>1. TypeOK /\ i < n /\ i \in Nat /\ n \in Nat
  BY ConstantsOK DEF IInv, TypeOK, Fork
<1>2. /\ UNCHANGED <<program, toFile, n, input, arr, i, status, out, broken>>
      /\ pc' = "child"
  BY DEF Fork, typed
<1>3. newest' \in 0..n /\ buf' \in [0..n -> Seq(Lines)] /\ leaving' \subseteq 0..n
  <2>1. CASE program = "as2_2"
    <3>1. newest = i
      BY <2>1 DEF IInv, WorkOK, Fork
    <3>2. newest' = newest + 1 /\ buf' = [buf EXCEPT ![newest + 1] = buf[newest]]
          /\ leaving' = leaving \cup {newest}
      BY <2>1 DEF Fork, Inherited
    <3>3. buf[newest] \in Seq(Lines)
      BY <1>1 DEF TypeOK
    <3> QED BY <1>1, <3>1, <3>2, <3>3 DEF TypeOK
  <2>2. CASE program # "as2_2"
    BY <1>1, <2>2 DEF Fork, TypeOK, procs
  <2> QED BY <2>1, <2>2
<1>4. TypeOK'
  BY <1>1, <1>2, <1>3 DEF TypeOK, Index
<1>5. WorkOK'
  BY <1>2 DEF IInv, WorkOK, Fork
<1>6. Sorted'
  BY <1>2, SortedFrame DEF IInv, typed
<1> QED BY <1>4, <1>5, <1>6 DEF IInv

LEMMA StopIInv == IInv /\ (ForkFails \/ Kill) => IInv'
<1> SUFFICES ASSUME IInv, ForkFails \/ Kill PROVE IInv'
  OBVIOUS
<1>1. TypeOK
  BY DEF IInv
<1>2. /\ UNCHANGED <<program, toFile, n, input, arr, i, status, newest, buf, out>>
      /\ pc' = "over" /\ broken < MaxKills /\ broken' = broken + 1
      /\ leaving' \subseteq leaving \cup {newest, 0}
  BY DEF ForkFails, Kill, typed
<1>3. broken' \in 0..MaxKills /\ 0 \in 0..n
  BY <1>1, <1>2, ConstantsOK DEF TypeOK
<1>4. TypeOK'
  BY <1>1, <1>2, <1>3 DEF TypeOK, Index
<1>5. WorkOK'
  BY <1>2 DEF WorkOK
<1>6. Sorted'
  BY <1>2, SortedFrame DEF IInv, typed
<1> QED BY <1>4, <1>5, <1>6 DEF IInv

LEMMA ResultLines ==
    ASSUME TypeOK
    PROVE  [r \in 1..n |-> Line(r, arr[r - 1])] \in Seq(Lines)
<1>1. n \in Nat /\ n <= MaxN
  BY ConstantsOK DEF TypeOK
<1>2. ASSUME NEW r \in 1..n PROVE Line(r, arr[r - 1]) \in Lines
  <2>1. r - 1 \in Index /\ r \in 1..MaxN
    BY <1>1, ConstantsOK DEF Index
  <2> QED BY <1>1, <2>1 DEF TypeOK, Line, Lines
<1> DEFINE lines == [r \in 1..n |-> Line(r, arr[r - 1])]
<1>3. lines \in [1..n -> Lines]
  BY <1>2
<1> QED BY <1>1, <1>3

LEMMA ReturnIInv == IInv /\ Return => IInv'
<1> SUFFICES ASSUME IInv, Return PROVE IInv'
  OBVIOUS
<1>1. TypeOK /\ n \in Nat /\ n <= MaxN
  BY ConstantsOK DEF IInv, TypeOK
<1>2. /\ UNCHANGED <<program, toFile, n, input, arr, i, status, newest, broken>>
      /\ pc' = "over" /\ leaving' \subseteq leaving \cup {newest}
  BY DEF Return, typed
<1>3. buf' \in [0..n -> Seq(Lines)] /\ out' \in Seq(Lines)
  <2> DEFINE lines == [r \in 1..n |-> Line(r, arr[r - 1])]
  <2>3. lines \in Seq(Lines)
    BY <1>1, ResultLines
  <2>4. newest \in 0..n
    BY <1>1 DEF TypeOK
  <2>5. Puts(newest, lines) \/ UNCHANGED <<buf, out>>
    BY DEF Return
  <2> HIDE DEF lines
  <2> QED BY <1>1, <2>3, <2>4, <2>5, PutsType DEF TypeOK
<1>4. TypeOK'
  BY <1>1, <1>2, <1>3 DEF TypeOK, Index
<1>5. WorkOK'
  BY <1>2 DEF WorkOK
<1>6. Sorted'
  BY <1>2, SortedFrame DEF IInv, typed
<1> QED BY <1>4, <1>5, <1>6 DEF IInv

LEMMA PlaceIInv == IInv /\ Place => IInv'
<1> SUFFICES ASSUME IInv, Place PROVE IInv'
  OBVIOUS
<1> DEFINE m == Largest(arr, i)
<1>1. TypeOK /\ i < n /\ i \in Nat /\ n \in Nat /\ n <= MaxN /\ i \in Index /\ m \in Index
  BY LargestIs, ConstantsOK DEF IInv, TypeOK, Place, Index
<1>2. /\ UNCHANGED <<program, toFile, n, input, status, newest, leaving, broken>>
      /\ program = "as2_2" /\ pc = "child" /\ pc' = "fork" /\ i' = i + 1
      /\ arr' = Swap(arr, i, m) /\ Puts(newest, <<Line(i + 1, arr[m])>>)
  BY DEF Place, typed
<1> HIDE DEF m
<1>3. buf' \in [0..n -> Seq(Lines)] /\ out' \in Seq(Lines)
  <2>1. i + 1 \in 1..MaxN /\ arr[m] \in Values
    BY <1>1, ConstantsOK DEF TypeOK
  <2>2. <<Line(i + 1, arr[m])>> \in Seq(Lines)
    BY <2>1 DEF Line, Lines
  <2> QED BY <1>1, <1>2, <2>2, PutsType DEF TypeOK
<1>4. arr' \in [Index -> Values]
  BY <1>1, <1>2, SwapType
<1>5. TypeOK'
  <2>1. i' \in 0..n
    BY <1>1, <1>2
  <2> QED BY <1>1, <1>2, <1>3, <1>4, <2>1 DEF TypeOK, Index
<1>6. WorkOK'
  BY <1>2 DEF IInv, WorkOK
<1>7. Sorted'
  <2>1. UNCHANGED typed /\ Permuted /\ PrefixSorted
    BY <1>2 DEF typed, IInv, Sorted, Fits
  <2>2. Permuted'
    BY <1>1, <1>2, <2>1, SwapPermutes
  <2>3. PrefixSorted'
    BY <1>1, <1>2, <2>1, SwapSorts DEF m
  <2> QED BY <2>2, <2>3 DEF Sorted
<1> QED BY <1>5, <1>6, <1>7 DEF IInv

(* The index survives its way through the exit status when it fits.        *)
LEMMA ExitIndexIInv == IInv /\ ExitIndex => IInv'
<1> SUFFICES ASSUME IInv, ExitIndex PROVE IInv'
  OBVIOUS
<1> DEFINE m == Largest(arr, i)
<1>1. TypeOK /\ i < n /\ i \in Nat /\ n \in Nat /\ m \in 0 .. n - 1
  BY LargestIs, ConstantsOK DEF IInv, TypeOK, ExitIndex, Index
<1>2. /\ UNCHANGED <<program, toFile, n, input, arr, i, newest, buf, leaving, out, broken>>
      /\ program = "as2_3" /\ pc' = "swap" /\ status' = m % Statuses
  BY DEF ExitIndex, typed, procs
<1>3. m' = m
  BY <1>2 DEF Largest
<1> HIDE DEF m
<1>4. m \in Nat /\ m % Statuses \in 0..m /\ (m < Statuses => m % Statuses = m)
  BY <1>1, ConstantsOK, ModBound
<1>5. status' \in Index
  BY <1>1, <1>2, <1>4 DEF Index
<1>6. TypeOK'
  BY <1>1, <1>2, <1>5 DEF TypeOK, Index
<1>7. WorkOK'
  <2>1. Fits' => m < Statuses
    BY <1>1, <1>2, ConstantsOK DEF Fits
  <2> QED BY <1>2, <1>3, <1>4, <2>1 DEF WorkOK, m
<1>8. Sorted'
  BY <1>2, SortedFrame DEF IInv, typed
<1> QED BY <1>6, <1>7, <1>8 DEF IInv

LEMMA PlaceStatusIInv == IInv /\ PlaceStatus => IInv'
<1> SUFFICES ASSUME IInv, PlaceStatus PROVE IInv'
  OBVIOUS
<1>1. TypeOK /\ i < n /\ i \in Nat /\ n \in Nat /\ i \in Index /\ status \in Index
  BY ConstantsOK DEF IInv, TypeOK, PlaceStatus, Index
<1>2. /\ UNCHANGED <<program, toFile, n, input, status, newest, buf, leaving, out, broken>>
      /\ pc = "swap" /\ pc' = "fork" /\ i' = i + 1 /\ arr' = Swap(arr, i, status)
  BY DEF PlaceStatus, typed, procs
<1>3. program = "as2_3" /\ (Fits => status = Largest(arr, i))
  BY <1>2 DEF IInv, WorkOK
<1>4. arr' \in [Index -> Values] /\ i' \in 0..n
  BY <1>1, <1>2, SwapType
<1>5. TypeOK'
  BY <1>1, <1>2, <1>4 DEF TypeOK, Index
<1>6. WorkOK'
  BY <1>2, <1>3 DEF WorkOK
<1>7. Sorted'
  <2>1. UNCHANGED typed /\ Permuted /\ (Fits => PrefixSorted) /\ Fits' = Fits
    BY <1>2 DEF typed, IInv, Sorted, Fits
  <2>2. Permuted'
    BY <1>1, <1>2, <2>1, SwapPermutes
  <2>3. ASSUME Fits PROVE PrefixSorted'
    <3>1. arr' = Swap(arr, i, Largest(arr, i)) /\ PrefixSorted
      BY <1>2, <1>3, <2>1, <2>3
    <3> QED BY <1>1, <1>2, <2>1, <3>1, SwapSorts
  <2> QED BY <2>1, <2>2, <2>3 DEF Sorted
<1> QED BY <1>5, <1>6, <1>7 DEF IInv

LEMMA StepIInv == IInv /\ [Next]_vars => IInv'
<1> SUFFICES ASSUME IInv, [Next]_vars PROVE IInv'
  OBVIOUS
<1>1. CASE Fork \/ ForkFails \/ Return \/ Kill
  BY <1>1, ForkIInv, StopIInv, ReturnIInv
<1>2. CASE Place \/ ExitIndex \/ PlaceStatus
  BY <1>2, PlaceIInv, ExitIndexIInv, PlaceStatusIInv
<1>3. ASSUME NEW p \in 0..n, Leave(p) \/ KillLeaving(p) PROVE IInv'
  BY <1>3, LeaveIInv
<1>4. CASE UNCHANGED vars
  <2>1. UNCHANGED <<program, toFile, n, input, arr, i, pc, status, newest, buf, leaving, out, broken>>
    BY <1>4 DEF vars, typed, procs
  <2>2. TypeOK' /\ WorkOK'
    BY <2>1 DEF IInv, TypeOK, WorkOK, Fits, Largest, Index
  <2>3. Sorted'
    BY <2>1, SortedFrame DEF IInv, typed
  <2> QED BY <2>2, <2>3 DEF IInv
<1> QED BY <1>1, <1>2, <1>3, <1>4 DEF Next

LEMMA Invariant == Spec => []IInv
BY InitIInv, StepIInv, PTL DEF Spec

(* Every variable keeps its type, however long the buffers get             *)
(* (as2_2.c, as2_3.c).                                                     *)
THEOREM TypeCorrect == Spec => []TypeOK
<1>1. IInv => TypeOK
  BY DEF IInv
<1> QED BY <1>1, Invariant, PTL

(* No number is lost, and as long as every index fits an exit status the   *)
(* front of the array is sorted (as2_2.c:29-41, as2_3.c:33-61).            *)
THEOREM SortsArray == Spec => []Sorted
<1>1. IInv => Sorted
  BY DEF IInv
<1> QED BY <1>1, Invariant, PTL

-----------------------------------------------------------------------------
(* A place of the sorted front holds the number of its rank in the input:  *)
(* what is larger is in front of it, and all in front are no smaller.      *)

LEMMA Bijects ==
    ASSUME NEW N \in Nat, NEW f \in [0 .. N - 1 -> 0 .. N - 1],
           \A x, y \in 0 .. N - 1 : f[x] = f[y] => x = y
    PROVE  \A z \in 0 .. N - 1 : \E x \in 0 .. N - 1 : f[x] = z
<1> DEFINE I == 0 .. N - 1
<1>1. IsFiniteSet(I)
  BY FS_Interval
<1>2. f \in Injection(I, I)
  BY DEF Injection, IsInjective
<1>3. f \in Surjection(I, I)
  BY <1>1, <1>2, FS_Injection
<1> QED BY <1>3 DEF Surjection

LEMMA FrontRanked ==
    ASSUME TypeOK, Permuted, PrefixSorted, NEW r \in 1..i
    PROVE  RthLargest(r, arr[r - 1])
<1> DEFINE I == 0 .. n - 1
           v == arr[r - 1]
           More == {x \in I : input[x] > v}
           Least == {x \in I : input[x] >= v}
           Ahead == 0 .. r - 2
           Front == 0 .. r - 1
<1>1. /\ n \in Nat /\ i \in Nat /\ i <= n /\ r \in Nat /\ r <= n /\ 1 <= r /\ Index = I
      /\ r - 1 \in I /\ r - 1 \in 0 .. i - 1
  BY ConstantsOK DEF TypeOK, Index
<1>2. PICK f \in [I -> I] :
        /\ \A x, y \in I : f[x] = f[y] => x = y
        /\ \A x \in I : arr[x] = input[f[x]]
  BY <1>1 DEF Permuted
<1>3. \A z \in I : arr[z] \in Int /\ input[z] \in Int
  BY <1>1, ConstantsOK DEF TypeOK
<1>4. \A z \in I : r - 1 < z => arr[z] <= v
  <2>1. ASSUME NEW z \in I, r - 1 < z PROVE arr[r - 1] >= arr[z]
    <3>1. z \in (r - 1) + 1 .. n - 1
      BY <1>1, <2>1
    <3> QED BY <1>1, <3>1 DEF PrefixSorted
  <2> QED BY <1>1, <1>3, <2>1
<1>5. \A z \in Front : arr[z] >= v
  <2>1. ASSUME NEW z \in Front, z # r - 1 PROVE arr[z] >= arr[r - 1]
    <3>1. z \in 0 .. i - 1 /\ r - 1 \in z + 1 .. n - 1
      BY <1>1, <2>1
    <3> QED BY <1>1, <3>1 DEF PrefixSorted
  <2>2. \A z \in Front : z \in I
    BY <1>1
  <2>3. ASSUME NEW z \in Front PROVE arr[z] >= v
    <3>1. CASE z = r - 1
      BY <1>1, <1>3, <3>1
    <3>2. CASE z # r - 1
      BY <2>1, <3>2
    <3> QED BY <3>1, <3>2
  <2> QED BY <2>3
<1>6. Cardinality(More) < r
  <2> DEFINE Src == {x \in I : arr[x] > v}
  <2>1. Src \subseteq Ahead
    <3>1. ASSUME NEW z \in I, arr[z] > v PROVE z \in Ahead
      <4>1. arr[z] \in Int /\ v \in Int
        BY <1>1, <1>3
      <4>2. ~(r - 1 < z)
        BY <1>4, <3>1, <4>1
      <4>3. z # r - 1
        BY <3>1, <4>1
      <4> QED BY <1>1, <4>2, <4>3
    <3> QED BY <3>1
  <2>2. IsFiniteSet(Ahead) /\ Cardinality(Ahead) = r - 1
    <3>1. r - 2 \in Int /\ 0 \in Int /\ IF 0 > r - 2 THEN r - 1 = 0 ELSE (r - 2) - 0 + 1 = r - 1
      BY <1>1
    <3>2. IsFiniteSet(Ahead) /\ Cardinality(Ahead) = IF 0 > r - 2 THEN 0 ELSE (r - 2) - 0 + 1
      BY <3>1, FS_Interval
    <3> QED BY <3>1, <3>2
  <2>3. IsFiniteSet(Src) /\ Cardinality(Src) <= r - 1
    BY <2>1, <2>2, FS_Subset
  <2> DEFINE g == [x \in Src |-> f[x]]
  <2>4. g \in [Src -> More]
    BY <1>2
  <2>5. \A z \in More : \E x \in Src : g[x] = z
    <3>1. \A z \in I : \E x \in I : f[x] = z
      BY <1>1, <1>2, Bijects
    <3> QED BY <1>2, <3>1
  <2>6. g \in Surjection(Src, More)
    BY <2>4, <2>5 DEF Surjection
  <2> HIDE DEF g, Src, More
  <2>7. IsFiniteSet(More) /\ Cardinality(More) <= Cardinality(Src)
    BY <2>3, <2>6, FS_Surjection
  <2>8. Cardinality(More) \in Nat /\ Cardinality(Src) \in Nat
    BY <2>3, <2>7, FS_CardinalityType
  <2> QED BY <1>1, <2>3, <2>7, <2>8
<1>7. r <= Cardinality(Least)
  <2> DEFINE g == [x \in Front |-> f[x]]
  <2>1. g \in [Front -> Least]
    BY <1>1, <1>2, <1>5
  <2>2. \A x, y \in Front : g[x] = g[y] => x = y
    BY <1>1, <1>2
  <2>3. g \in Injection(Front, Least)
    BY <2>1, <2>2 DEF Injection, IsInjective
  <2>4. IsFiniteSet(I) /\ Least \subseteq I
    BY <1>1, FS_Interval
  <2>5. IsFiniteSet(Least)
    BY <2>4, FS_Subset
  <2>6. Cardinality(Front) = r
    BY <1>1, FS_Interval
  <2> HIDE DEF g, Least, Front
  <2>7. Cardinality(Front) <= Cardinality(Least)
    BY <2>3, <2>5, FS_Injection
  <2> QED BY <2>6, <2>7
<1> QED BY <1>1, <1>6, <1>7 DEF RthLargest

-----------------------------------------------------------------------------
(* What is printed: lines of a and how often a rank is among them.         *)

LinesOf(a, s, k) ==
    /\ Len(s) = k
    /\ \A j \in 1..k : s[j].rank = j /\ s[j].value = a[j - 1]

Count(s, r) == Cardinality({j \in 1..Len(s) : s[j].rank = r})

LEMMA LinesKept ==
    ASSUME NEW a, NEW b, NEW s, NEW k \in Nat, LinesOf(a, s, k),
           \A x \in Nat : x < k => b[x] = a[x]
    PROVE  LinesOf(b, s, k)
<1>1. \A j \in 1..k : j - 1 \in Nat /\ j - 1 < k
  OBVIOUS
<1> QED BY <1>1 DEF LinesOf

LEMMA LinesEmpty == ASSUME NEW a PROVE LinesOf(a, <<>>, 0)
BY DEF LinesOf

(* The next line goes behind the others.                                   *)
LEMMA LinesMore ==
    ASSUME NEW a, NEW s \in Seq(Lines), NEW k \in Nat, LinesOf(a, s, k),
           NEW line \in Lines, line.rank = k + 1, line.value = a[k]
    PROVE  LinesOf(a, s \o <<line>>, k + 1)
<1> DEFINE t == s \o <<line>>
<1>1. Len(s) = k /\ \A j \in 1..k : s[j].rank = j /\ s[j].value = a[j - 1]
  BY DEF LinesOf
<1>2. <<line>> \in Seq(Lines) /\ Len(<<line>>) = 1 /\ <<line>>[1] = line
  OBVIOUS
<1>3. Len(t) = k + 1 /\ (\A j \in 1..k : t[j] = s[j]) /\ t[k + 1] = line
  BY <1>1, <1>2
<1> HIDE DEF t
<1>4. ASSUME NEW j \in 1 .. k + 1 PROVE t[j].rank = j /\ t[j].value = a[j - 1]
  <2>1. CASE j \in 1..k
    BY <1>1, <1>3, <2>1
  <2>2. CASE j = k + 1
    <3>1. j - 1 = k
      BY <2>2
    <3> QED BY <1>3, <2>2, <3>1
  <2> QED BY <2>1, <2>2
<1>5. LinesOf(a, t, k + 1)
  BY <1>3, <1>4 DEF LinesOf
<1> QED BY <1>5 DEF t

(* Nothing in front of the lines, or nothing behind them.                  *)
LEMMA LinesBehind ==
    ASSUME NEW a, NEW s \in Seq(Lines), NEW t \in Seq(Lines), NEW k \in Nat, LinesOf(a, s, k)
    PROVE  /\ Len(t) = 0 => LinesOf(a, s \o t, k) /\ LinesOf(a, t \o s, k)
<1>1. ASSUME Len(t) = 0 PROVE t = <<>>
  BY <1>1
<1>2. s \o <<>> = s /\ <<>> \o s = s
  OBVIOUS
<1> QED BY <1>1, <1>2

(* A process writes its first k lines: each of these ranks once more.      *)
LEMMA CountAppend ==
    ASSUME NEW a, NEW s \in Seq(Lines), NEW t \in Seq(Lines), NEW k \in Nat, LinesOf(a, t, k),
           NEW r \in Nat \ {0}
    PROVE  /\ Count(s, r) \in Nat
           /\ r <= k => Count(s \o t, r) = Count(s, r) + 1
           /\ r > k => Count(s \o t, r) = Count(s, r)
<1> DEFINE u == s \o t
           l == Len(s)
           S == {j \in 1..l : s[j].rank = r}
           U == {j \in 1..Len(u) : u[j].rank = r}
<1>1. l \in Nat /\ Len(t) = k /\ \A j \in 1..k : t[j].rank = j
  BY DEF LinesOf
<1>2. /\ Len(u) = l + k
      /\ \A j \in 1..l : u[j] = s[j]
      /\ \A j \in 1..k : u[l + j] = t[j]
  BY <1>1
<1> HIDE DEF u
<1>3. IsFiniteSet(S) /\ Cardinality(S) \in Nat
  <2>1. IsFiniteSet(1..l)
    BY <1>1, FS_Interval
  <2>2. S \subseteq 1..l
    OBVIOUS
  <2>3. IsFiniteSet(S)
    BY <2>1, <2>2, FS_Subset
  <2> QED BY <2>3, FS_CardinalityType
<1>4. \A j : j \in U <=> j \in S \/ (r <= k /\ j = l + r)
  <2>1. ASSUME NEW j \in 1..l PROVE j \in U <=> j \in S
    BY <1>1, <1>2, <2>1
  <2>2. ASSUME NEW j \in l + 1 .. l + k PROVE j \in U <=> j = l + r
    <3>1. j - l \in 1..k /\ l + (j - l) = j
      BY <1>1, <2>2
    <3>2. u[j] = t[j - l] /\ t[j - l].rank = j - l
      BY <1>1, <1>2, <3>1
    <3>3. j \in 1..Len(u)
      BY <1>1, <1>2, <2>2
    <3> QED BY <1>1, <2>2, <3>2, <3>3
  <2>3. \A j : j \in U => j \in 1..l \/ j \in l + 1 .. l + k
    BY <1>1, <1>2
  <2>4. \A j : j \in S => j \in 1..l
    OBVIOUS
  <2>5. r <= k => l + r \in l + 1 .. l + k
    BY <1>1
  <2> HIDE DEF S, U
  <2> QED BY <2>1, <2>2, <2>3, <2>4, <2>5
<1>5. l + r \notin S
  BY <1>1
<1>6. Count(s, r) = Cardinality(S) /\ Count(u, r) = Cardinality(U)
  BY DEF Count
<1> HIDE DEF S, U
<1>7. ASSUME r <= k PROVE Cardinality(U) = Cardinality(S) + 1
  <2>1. U = S \cup {l + r}
    BY <1>4, <1>7
  <2>2. Cardinality(S \cup {l + r}) = Cardinality(S) + 1
    BY <1>3, <1>5, FS_AddElement
  <2> QED BY <2>1, <2>2
<1>8. ASSUME r > k PROVE U = S
  <2>1. ~(r <= k)
    BY <1>8
  <2> QED BY <1>4, <2>1
<1> QED BY <1>3, <1>6, <1>7, <1>8 DEF u

LEMMA CountLines ==
    ASSUME NEW a, NEW t \in Seq(Lines), NEW k \in Nat, LinesOf(a, t, k), NEW r \in 1..k
    PROVE  Count(t, r) = 1
<1>1. {j \in 1..Len(t) : t[j].rank = r} = {r}
  BY DEF LinesOf
<1>2. Cardinality({r}) = 1
  BY FS_Singleton
<1> QED BY <1>1, <1>2 DEF Count

-----------------------------------------------------------------------------
(* as2_2.c.  A process was forked with the lines of the places before its  *)
(* own in its memory, and the one at work has added a line.                *)
Held(p) == IF toFile /\ p <= newest THEN (IF p <= i THEN p ELSE i) ELSE 0

ChainOK ==
    program = "as2_2" =>
        /\ newest \in {i, i + 1} /\ leaving \subseteq 0..newest
        /\ pc # "over" => newest \notin leaving
        /\ pc = "over" /\ broken = 0 => newest = i /\ i = n
        /\ \A p \in 0..n : LinesOf(arr, buf[p], Held(p))

(* The processes that have ended: each from the r-th on has written rank r. *)
Left        == {p \in 0..newest : p \notin leaving /\ (p = newest => pc = "over")}
LeftFrom(r) == {p \in Left : p >= r}

WrittenOK ==
    program = "as2_2" =>
        /\ \A j \in 1..Len(out) : out[j].rank \in 1..i /\ out[j].value = arr[out[j].rank - 1]
        /\ ~toFile => LinesOf(arr, out, i)
        /\ toFile /\ broken = 0 => \A r \in 1..n : Count(out, r) = Cardinality(LeftFrom(r))

(* as2_3.c.  Nothing is printed before the array is sorted.                *)
ResultOK ==
    program = "as2_3" =>
        /\ newest = 0 /\ leaving \subseteq {0}
        /\ pc # "over" => leaving = {} /\ Len(buf[0]) = 0 /\ Len(out) = 0
        /\ Len(buf[0]) = 0 \/ (toFile /\ LinesOf(arr, buf[0], n))
        /\ Len(out) = 0 \/ LinesOf(arr, out, n)
        /\ toFile /\ 0 \in leaving => Len(out) = 0
        /\ pc = "over" /\ broken = 0 /\ toFile => LinesOf(arr, buf[0], n)
        /\ pc = "over" /\ broken = 0 /\ (~toFile \/ leaving = {}) => Len(out) = n

PrintInv == IInv /\ ChainOK /\ WrittenOK /\ ResultOK

LEMMA TypesThen ==
    ASSUME TypeOK
    PROVE  /\ n \in Nat \ {0} /\ i \in Nat /\ i <= n /\ newest \in Nat /\ newest <= n
           /\ broken \in Nat /\ program \in {"as2_2", "as2_3"} /\ toFile \in BOOLEAN
           /\ out \in Seq(Lines) /\ \A p \in 0..n : buf[p] \in Seq(Lines)
BY ConstantsOK DEF TypeOK

LEMMA InitPrintInv == Init => PrintInv
<1> SUFFICES ASSUME Init PROVE PrintInv
  OBVIOUS
<1>1. IInv /\ TypeOK
  BY InitIInv DEF IInv
<1>2. /\ i = 0 /\ newest = 0 /\ leaving = {} /\ pc = "fork" /\ out = <<>> /\ broken = 0
      /\ \A p \in 0..n : buf[p] = <<>>
      /\ 0 \in 0..n
  BY <1>1, TypesThen DEF Init
<1>3. ChainOK
  <2>1. \A p \in 0..n : Held(p) = 0
    BY <1>2 DEF Held
  <2>2. \A p \in 0..n : LinesOf(arr, buf[p], Held(p))
    BY <1>2, <2>1, LinesEmpty
  <2> QED BY <1>2, <2>2 DEF ChainOK
<1>4. WrittenOK
  <2>1. \A r \in 1..n : LeftFrom(r) = {}
    BY <1>2 DEF Left, LeftFrom
  <2>2. \A r \in 1..n : {j \in 1..Len(out) : out[j].rank = r} = {}
    BY <1>2
  <2>3. \A r \in 1..n : Count(out, r) = Cardinality(LeftFrom(r))
    BY <2>1, <2>2 DEF Count
  <2>4. LinesOf(arr, out, i)
    BY <1>2, LinesEmpty
  <2>5. Len(out) = 0
    BY <1>2
  <2> QED BY <2>3, <2>4, <2>5 DEF WrittenOK
<1>5. ResultOK
  BY <1>2 DEF ResultOK
<1> QED BY <1>1, <1>3, <1>4, <1>5 DEF PrintInv

(* The steps of as2_3.c, and those of both programs.                       *)

LEMMA ForkPrint == PrintInv /\ Fork => PrintInv'
<1> SUFFICES ASSUME PrintInv, Fork PROVE PrintInv'
  OBVIOUS
<1>1. IInv /\ IInv' /\ TypeOK
  BY ForkIInv DEF PrintInv, IInv
<1>2. /\ UNCHANGED <<program, toFile, n, arr, i, out, broken>>
      /\ pc = "fork" /\ pc' = "child" /\ i < n
  BY DEF Fork, typed
<1>3. CASE program = "as2_2"
  <2>1. /\ newest = i /\ newest' = newest + 1 /\ leaving' = leaving \cup {newest}
        /\ leaving \subseteq 0..newest /\ newest \notin leaving
        /\ buf' = [buf EXCEPT ![newest + 1] = buf[newest]]
        /\ \A p \in 0..n : LinesOf(arr, buf[p], Held(p))
    BY <1>1, <1>2, <1>3 DEF Fork, Inherited, PrintInv, ChainOK, IInv, WorkOK
  <2>2. ASSUME NEW p \in 0..n PROVE LinesOf(arr, buf'[p], Held(p)')
    <3>1. newest \in 0..n /\ newest + 1 \in 0..n /\ i \in Nat
      BY <1>1, <1>2, <2>1, TypesThen
    <3>2. CASE p = newest + 1
      <4>1. buf'[p] = buf[newest]
        BY <2>1, <3>1, <3>2, <1>1 DEF TypeOK
      <4>2. Held(p)' = Held(newest)
        BY <1>2, <2>1, <3>1, <3>2 DEF Held
      <4> QED BY <2>1, <3>1, <4>1, <4>2
    <3>3. CASE p # newest + 1
      <4>1. buf'[p] = buf[p]
        BY <2>1, <3>1, <3>3, <1>1 DEF TypeOK
      <4>2. Held(p)' = Held(p)
        BY <1>2, <2>1, <3>1, <3>3 DEF Held
      <4> QED BY <2>1, <4>1, <4>2
    <3> QED BY <3>2, <3>3
  <2>3. Left' = Left
    BY <1>1, <1>2, <2>1, TypesThen DEF Left
  <2>4. ChainOK'
    BY <1>1, <1>2, <2>1, <2>2, TypesThen DEF ChainOK
  <2>5. WrittenOK'
    <3>1. WrittenOK
      BY DEF PrintInv
    <3>2. \A r : LeftFrom(r)' = LeftFrom(r)
      BY <2>3 DEF LeftFrom
    <3> QED BY <1>2, <3>1, <3>2 DEF WrittenOK
  <2>6. ResultOK'
    BY <1>2, <1>3 DEF ResultOK
  <2> QED BY <1>1, <2>4, <2>5, <2>6 DEF PrintInv
<1>4. CASE program # "as2_2"
  <2>1. UNCHANGED <<newest, buf, leaving>>
    BY <1>4 DEF Fork, procs
  <2>2. ChainOK' /\ WrittenOK'
    BY <1>2, <1>4 DEF ChainOK, WrittenOK
  <2>3. ResultOK
    BY DEF PrintInv
  <2>4. ResultOK'
    BY <1>2, <2>1, <2>3 DEF ResultOK
  <2> QED BY <1>1, <2>2, <2>4 DEF PrintInv
<1> QED BY <1>3, <1>4

(* A process that is killed leaves what it has, and broken is no longer 0. *)
LEMMA StopPrint == PrintInv /\ (ForkFails \/ Kill) => PrintInv'
<1> SUFFICES ASSUME PrintInv, ForkFails \/ Kill PROVE PrintInv'
  OBVIOUS
<1>1. IInv /\ IInv' /\ TypeOK
  BY StopIInv DEF PrintInv, IInv
<1>2. /\ UNCHANGED <<program, toFile, n, arr, i, newest, buf, out>>
      /\ pc # "over" /\ pc' = "over" /\ broken' = broken + 1
      /\ leaving' \subseteq leaving \cup (IF program = "as2_2" THEN {newest} ELSE {newest, 0})
  BY DEF ForkFails, Kill, typed
<1>3. broken' # 0
  BY <1>1, <1>2, TypesThen
<1>4. ChainOK /\ WrittenOK /\ ResultOK
  BY DEF PrintInv
<1>5. ChainOK'
  <2>1. \A p \in 0..n : Held(p)' = Held(p)
    BY <1>2 DEF Held
  <2>2. newest \in 0..newest
    BY <1>1, TypesThen
  <2> QED BY <1>2, <1>3, <1>4, <2>1, <2>2 DEF ChainOK
<1>6. WrittenOK'
  BY <1>2, <1>3, <1>4 DEF WrittenOK
<1>7. ResultOK'
  BY <1>2, <1>3, <1>4 DEF ResultOK
<1> QED BY <1>1, <1>5, <1>6, <1>7 DEF PrintInv

(* One of as2_2.c with the end of main(); as2_3.c prints the whole array.  *)
LEMMA ReturnPrint == PrintInv /\ Return => PrintInv'
<1> SUFFICES ASSUME PrintInv, Return PROVE PrintInv'
  OBVIOUS
<1>1. IInv /\ IInv' /\ TypeOK /\ ChainOK /\ WrittenOK /\ ResultOK
  BY ReturnIInv DEF PrintInv, IInv
<1>2. /\ UNCHANGED <<program, toFile, n, arr, i, newest, broken>>
      /\ pc = "fork" /\ i = n /\ pc' = "over" /\ leaving' = leaving \cup {newest}
  BY DEF Return, typed
<1>3. CASE program = "as2_2"
  <2>1. UNCHANGED <<buf, out>>
    BY <1>3 DEF Return
  <2>2. newest = i /\ leaving \subseteq 0..newest /\ newest \notin leaving
    BY <1>1, <1>2, <1>3 DEF ChainOK, IInv, WorkOK
  <2>3. Left' = Left
    BY <1>2, <2>2 DEF Left
  <2>4. ChainOK'
    <3>1. \A p \in 0..n : Held(p)' = Held(p)
      BY <1>2 DEF Held
    <3>2. newest \in 0..newest
      BY <1>1, TypesThen
    <3> QED BY <1>1, <1>2, <2>1, <2>2, <3>1, <3>2 DEF ChainOK
  <2>5. WrittenOK'
    <3>1. \A r : LeftFrom(r)' = LeftFrom(r)
      BY <2>3 DEF LeftFrom
    <3> QED BY <1>1, <1>2, <2>1, <3>1 DEF WrittenOK
  <2>6. ResultOK'
    BY <1>2, <1>3 DEF ResultOK
  <2> QED BY <1>1, <2>4, <2>5, <2>6 DEF PrintInv
<1>4. CASE program = "as2_3"
  <2> DEFINE lines == [r \in 1..n |-> Line(r, arr[r - 1])]
  <2>1. Puts(0, lines) /\ newest = 0 /\ leaving = {} /\ Len(buf[0]) = 0 /\ Len(out) = 0
    BY <1>1, <1>2, <1>4 DEF Return, ResultOK
  <2>2. n \in Nat \ {0} /\ 0 \in 0..n /\ buf[0] \in Seq(Lines) /\ out \in Seq(Lines)
    BY <1>1, TypesThen
  <2>3. LinesOf(arr, lines, n) /\ lines \in Seq(Lines)
    <3>1. lines \in Seq(Lines)
      BY <1>1, ResultLines
    <3>2. Len(lines) = n /\ \A r \in 1..n : lines[r] = Line(r, arr[r - 1])
      BY <2>2
    <3> QED BY <3>1, <3>2 DEF LinesOf, Line
  <2> HIDE DEF lines
  <2>4. <<>> \o lines = lines
    BY <2>3
  <2>5. buf[0] = <<>> /\ out = <<>>
    BY <2>1, <2>2
  <2>6. IF toFile THEN buf'[0] = lines /\ out' = out ELSE out' = lines /\ buf' = buf
    BY <1>1, <2>1, <2>2, <2>4, <2>5 DEF Puts, TypeOK
  <2>7. ResultOK'
    BY <1>2, <2>1, <2>3, <2>6, <2>2 DEF ResultOK, LinesOf
  <2>8. ChainOK' /\ WrittenOK'
    BY <1>2, <1>4 DEF ChainOK, WrittenOK
  <2> QED BY <1>1, <2>7, <2>8 DEF PrintInv
<1> QED BY <1>1, <1>3, <1>4, TypesThen

(* The child prints the largest of the rest and moves it to its place:     *)
(* what was printed before is still right.                                 *)
LEMMA PlacePrint == PrintInv /\ Place => PrintInv'
<1> SUFFICES ASSUME PrintInv, Place PROVE PrintInv'
  OBVIOUS
<1> DEFINE m == Largest(arr, i)
           line == Line(i + 1, arr[m])
<1>1. IInv /\ IInv' /\ TypeOK /\ TypeOK' /\ ChainOK /\ WrittenOK
  BY PlaceIInv DEF PrintInv, IInv
<1>2. /\ UNCHANGED <<program, toFile, n, newest, leaving, broken>>
      /\ program = "as2_2" /\ pc = "child" /\ pc' = "fork" /\ i' = i + 1 /\ i < n
      /\ arr' = Swap(arr, i, m) /\ Puts(newest, <<line>>)
  BY <1>1 DEF Place, typed, TypeOK
<1>3. /\ n \in Nat /\ i \in Nat /\ newest = i + 1 /\ newest \in 0..n
      /\ out \in Seq(Lines) /\ \A p \in 0..n : buf[p] \in Seq(Lines)
  BY <1>1, <1>2, TypesThen DEF IInv, WorkOK
<1>4. m \in i .. n - 1 /\ m \in Index /\ i \in Index
  BY <1>1, <1>2, <1>3, LargestIs DEF Index
<1>5. (\A x \in Nat : x < i => arr'[x] = arr[x]) /\ arr'[i] = arr[m]
  <2> HIDE DEF m
  <2>1. \A z \in Index : arr'[z] = arr[IF z = i THEN m ELSE IF z = m THEN i ELSE z]
    BY <1>1, <1>2, <1>4, SwapType
  <2>2. \A x \in Nat : x < i => x \in Index /\ x # m
    BY <1>2, <1>3, <1>4 DEF Index
  <2> QED BY <1>3, <1>4, <2>1, <2>2
<1>6. line \in Lines /\ line.rank = i + 1 /\ line.value = arr'[i]
  <2> HIDE DEF m
  <2>1. i + 1 \in 1..MaxN
    BY <1>1, <1>2, <1>3, ConstantsOK DEF TypeOK
  <2>2. arr[m] \in Values
    BY <1>1, <1>4 DEF TypeOK
  <2> QED BY <1>5, <2>1, <2>2 DEF Line, Lines
<1> HIDE DEF m, line
<1>7. ASSUME NEW s \in Seq(Lines), LinesOf(arr, s, i)
      PROVE  LinesOf(arr', s \o <<line>>, i + 1)
  <2>1. LinesOf(arr', s, i)
    BY <1>3, <1>5, <1>7, LinesKept
  <2> QED BY <1>3, <1>6, <2>1, LinesMore
<1>8. IF toFile THEN buf' = [buf EXCEPT ![newest] = buf[newest] \o <<line>>] /\ out' = out
                ELSE out' = out \o <<line>> /\ buf' = buf
  BY <1>2 DEF Puts
<1>9. ChainOK'
  <2>1. ASSUME NEW p \in 0..n PROVE LinesOf(arr', buf'[p], Held(p)')
    <3>1. LinesOf(arr, buf[p], Held(p)) /\ p \in Nat
      BY <1>1, <1>2 DEF ChainOK
    <3>2. CASE toFile /\ p = newest
      <4>1. Held(p) = i /\ Held(p)' = i + 1
        BY <1>2, <1>3, <3>2 DEF Held
      <4>2. buf'[p] = buf[p] \o <<line>>
        BY <1>1, <1>3, <1>8, <3>2 DEF TypeOK
      <4> QED BY <1>3, <1>7, <3>1, <4>1, <4>2
    <3>3. CASE ~(toFile /\ p = newest)
      <4>1. Held(p)' = Held(p) /\ Held(p) \in Nat /\ Held(p) <= i
        BY <1>2, <1>3, <3>1, <3>3 DEF Held
      <4>2. buf'[p] = buf[p]
        BY <1>1, <1>3, <1>8, <3>3 DEF TypeOK
      <4>3. \A x \in Nat : x < Held(p) => arr'[x] = arr[x]
        BY <1>3, <1>5, <4>1
      <4>4. LinesOf(arr', buf[p], Held(p))
        BY <3>1, <4>1, <4>3, LinesKept
      <4> QED BY <4>1, <4>2, <4>4
    <3> QED BY <3>2, <3>3
  <2>2. newest' = i' /\ leaving \subseteq 0..newest /\ newest \notin leaving
    BY <1>1, <1>2, <1>3 DEF ChainOK
  <2> QED BY <1>2, <2>1, <2>2 DEF ChainOK
<1>10. WrittenOK'
  <2>1. Left' = Left
    BY <1>2 DEF Left
  <2>2. \A r : LeftFrom(r)' = LeftFrom(r)
    BY <2>1 DEF LeftFrom
  <2>3. CASE toFile
    <3>1. ASSUME NEW j \in 1..Len(out)
          PROVE  out[j].rank \in 1 .. i + 1 /\ out[j].value = arr'[out[j].rank - 1]
      <4>1. out[j].rank \in 1..i /\ out[j].value = arr[out[j].rank - 1]
        BY <1>1, <1>2 DEF WrittenOK
      <4>2. out[j].rank - 1 \in Nat /\ out[j].rank - 1 < i /\ out[j].rank \in 1 .. i + 1
        BY <1>3, <4>1
      <4> QED BY <1>5, <4>1, <4>2
    <3>2. out' = out
      BY <1>8, <2>3
    <3> QED BY <1>1, <1>2, <2>2, <2>3, <3>1, <3>2 DEF WrittenOK
  <2>4. CASE ~toFile
    <3>1. LinesOf(arr', out', i + 1)
      BY <1>1, <1>2, <1>3, <1>7, <1>8, <2>4 DEF WrittenOK
    <3> QED BY <1>2, <1>3, <2>4, <3>1 DEF WrittenOK, LinesOf
  <2> QED BY <2>3, <2>4
<1>11. ResultOK'
  BY <1>2 DEF ResultOK
<1> QED BY <1>1, <1>9, <1>10, <1>11 DEF PrintInv

(* as2_3.c has printed nothing when it still sorts.                        *)
LEMMA StatusPrint == PrintInv /\ (ExitIndex \/ PlaceStatus) => PrintInv'
<1> SUFFICES ASSUME PrintInv, ExitIndex \/ PlaceStatus PROVE PrintInv'
  OBVIOUS
<1>1. IInv /\ IInv' /\ ResultOK
  BY ExitIndexIInv, PlaceStatusIInv DEF PrintInv
<1>2. /\ UNCHANGED <<program, toFile, n, newest, buf, leaving, out, broken>>
      /\ program = "as2_3" /\ pc # "over" /\ pc' # "over"
  BY <1>1 DEF ExitIndex, PlaceStatus, typed, procs, IInv, WorkOK
<1>3. ChainOK' /\ WrittenOK'
  BY <1>2 DEF ChainOK, WrittenOK
<1>4. ResultOK'
  BY <1>1, <1>2 DEF ResultOK
<1> QED BY <1>1, <1>3, <1>4 DEF PrintInv

(* A process of as2_2.c ends: what it holds is one more of each rank up to *)
(* its own.                                                                *)
LEMMA LeavePrint2 ==
    ASSUME PrintInv, NEW p \in 0..n, Leave(p), program = "as2_2"
    PROVE  ChainOK' /\ WrittenOK'
<1>1. IInv /\ TypeOK /\ ChainOK /\ WrittenOK
  BY DEF PrintInv, IInv
<1>2. /\ UNCHANGED <<program, toFile, n, arr, i, pc, newest, buf, broken>>
      /\ p \in leaving /\ leaving' = leaving \ {p} /\ out' = out \o buf[p]
  BY DEF Leave, typed
<1>3. /\ n \in Nat /\ i \in Nat /\ i <= n /\ newest \in Nat /\ p \in Nat
      /\ out \in Seq(Lines) /\ buf[p] \in Seq(Lines)
  BY <1>1, TypesThen
<1>4. LinesOf(arr, buf[p], Held(p)) /\ Held(p) \in Nat /\ Held(p) <= i
  BY <1>1, <1>3 DEF ChainOK, Held
<1>5. ChainOK'
  <2>1. \A q \in 0..n : Held(q)' = Held(q)
    BY <1>2 DEF Held
  <2> QED BY <1>1, <1>2, <2>1 DEF ChainOK
<1> DEFINE t == buf[p]
           h == Held(p)
<1>6. ASSUME NEW j \in 1..Len(out')
      PROVE  out'[j].rank \in 1..i /\ out'[j].value = arr[out'[j].rank - 1]
  <2>1. Len(t) = h /\ \A k \in 1..h : t[k].rank = k /\ t[k].value = arr[k - 1]
    BY <1>4 DEF LinesOf
  <2> HIDE DEF t, h
  <2>2. out \in Seq(Lines) /\ t \in Seq(Lines) /\ out' = out \o t /\ h \in Nat /\ h <= i
    BY <1>2, <1>3, <1>4 DEF t, h
  <2>3. CASE j <= Len(out)
    <3>1. out'[j] = out[j] /\ j \in 1..Len(out)
      BY <2>2, <2>3
    <3> QED BY <1>1, <3>1, program = "as2_2" DEF WrittenOK
  <2>4. CASE j > Len(out)
    <3>1. j - Len(out) \in 1..h /\ out'[j] = t[j - Len(out)]
      BY <2>1, <2>2, <2>4
    <3> QED BY <1>3, <2>1, <2>2, <3>1
  <2> QED BY <2>2, <2>3, <2>4
<1>7. ASSUME ~toFile PROVE LinesOf(arr, out', i)
  <2>1. Len(buf[p]) = 0
    BY <1>4, <1>7 DEF Held, LinesOf
  <2>2. LinesOf(arr, out, i)
    BY <1>1, <1>7, program = "as2_2" DEF WrittenOK
  <2> QED BY <1>2, <1>3, <2>1, <2>2, LinesBehind
<1>8. ASSUME toFile, broken = 0, NEW r \in 1..n
      PROVE  Count(out', r) = Cardinality(LeftFrom(r)')
  <2>1. /\ newest \in {i, i + 1} /\ leaving \subseteq 0..newest
        /\ pc # "over" => newest \notin leaving
        /\ pc = "over" => newest = i
    BY <1>1, <1>8, program = "as2_2" DEF ChainOK
  <2>2. WorkOK
    BY <1>1 DEF IInv
  <2>3. p <= newest /\ (p = newest => pc = "over") /\ p <= i
    BY <1>2, <1>3, <2>1
  <2>4. h = p
    BY <1>3, <1>8, <2>3 DEF Held
  <2>5. Left' = Left \cup {p} /\ p \notin Left
    BY <1>2, <1>3, <2>3 DEF Left
  <2>6. IsFiniteSet(LeftFrom(r)) /\ Cardinality(LeftFrom(r)) \in Nat
    <3>1. IsFiniteSet(0..newest) /\ LeftFrom(r) \subseteq 0..newest
      BY <1>3, FS_Interval DEF LeftFrom, Left
    <3>2. IsFiniteSet(LeftFrom(r))
      BY <3>1, FS_Subset
    <3> QED BY <3>2, FS_CardinalityType
  <2>7. Count(out, r) = Cardinality(LeftFrom(r))
    BY <1>1, <1>8, program = "as2_2" DEF WrittenOK
  <2>8. r \in Nat \ {0} /\ LinesOf(arr, t, p) /\ out' = out \o t
    BY <1>2, <1>3, <1>4, <2>4
  <2> HIDE DEF t
  <2>9. (r <= p => Count(out', r) = Count(out, r) + 1) /\ (r > p => Count(out', r) = Count(out, r))
    BY <1>3, <2>8, CountAppend DEF t
  <2>10. CASE r <= p
    <3>1. LeftFrom(r)' = LeftFrom(r) \cup {p} /\ p \notin LeftFrom(r)
      BY <1>3, <2>5, <2>10 DEF LeftFrom
    <3>2. Cardinality(LeftFrom(r) \cup {p}) = Cardinality(LeftFrom(r)) + 1
      BY <2>6, <3>1, FS_AddElement
    <3> QED BY <2>7, <2>9, <2>10, <3>1, <3>2
  <2>11. CASE r > p
    <3>1. LeftFrom(r)' = LeftFrom(r)
      BY <1>3, <2>5, <2>11 DEF LeftFrom
    <3> QED BY <2>7, <2>9, <2>11, <3>1
  <2> QED BY <1>3, <2>10, <2>11
<1>9. WrittenOK'
  BY <1>2, <1>6, <1>7, <1>8 DEF WrittenOK
<1> QED BY <1>5, <1>9

(* The process of as2_3.c ends: the whole result or, after a kill, what it *)
(* has of it, which is nothing.                                            *)
LEMMA LeavePrint3 ==
    ASSUME PrintInv, NEW p \in 0..n, Leave(p), program = "as2_3"
    PROVE  ResultOK'
<1>1. TypeOK /\ ResultOK
  BY DEF PrintInv, IInv
<1>2. /\ UNCHANGED <<program, toFile, n, arr, i, pc, newest, buf, broken>>
      /\ p \in leaving /\ leaving' = leaving \ {p} /\ out' = out \o buf[p]
  BY DEF Leave, typed
<1>3. p = 0 /\ leaving = {0} /\ leaving' = {} /\ pc = "over"
  BY <1>1, <1>2, program = "as2_3" DEF ResultOK
<1>4. n \in Nat \ {0} /\ out \in Seq(Lines) /\ buf[0] \in Seq(Lines) /\ toFile \in BOOLEAN
  BY <1>1, <1>2, <1>3, TypesThen
<1>5. out' = out \o buf[0]
  BY <1>2, <1>3
<1>6. CASE toFile
  <2>1. Len(out) = 0
    BY <1>1, <1>3, <1>6, program = "as2_3" DEF ResultOK
  <2>2. out' = buf[0]
    BY <1>4, <1>5, <2>1
  <2>3. Len(buf[0]) = 0 \/ LinesOf(arr, buf[0], n)
    BY <1>1, program = "as2_3" DEF ResultOK
  <2>4. pc = "over" /\ broken = 0 => Len(buf[0]) = n
    BY <1>1, <1>6, program = "as2_3" DEF ResultOK, LinesOf
  <2> QED BY <1>1, <1>2, <1>3, <1>6, <2>2, <2>3, <2>4 DEF ResultOK
<1>7. CASE ~toFile
  <2>1. Len(buf[0]) = 0
    BY <1>1, <1>7, program = "as2_3" DEF ResultOK
  <2>2. out' = out
    BY <1>4, <1>5, <2>1
  <2> QED BY <1>1, <1>2, <1>3, <1>7, <2>2 DEF ResultOK
<1> QED BY <1>4, <1>6, <1>7

LEMMA LeavePrint ==
    ASSUME PrintInv, NEW p \in 0..n, Leave(p) \/ KillLeaving(p)
    PROVE  PrintInv'
<1>1. IInv /\ IInv' /\ TypeOK /\ ChainOK /\ WrittenOK /\ ResultOK
  BY LeaveIInv DEF PrintInv, IInv
<1>2. CASE Leave(p)
  <2>1. program' = program /\ program \in {"as2_2", "as2_3"}
    BY <1>1, <1>2, TypesThen DEF Leave, typed
  <2>2. CASE program = "as2_2"
    <3>1. ResultOK'
      BY <2>1, <2>2 DEF ResultOK
    <3> QED BY <1>1, <1>2, <2>2, <3>1, LeavePrint2 DEF PrintInv
  <2>3. CASE program = "as2_3"
    <3>1. ChainOK' /\ WrittenOK'
      BY <2>1, <2>3 DEF ChainOK, WrittenOK
    <3> QED BY <1>1, <1>2, <2>3, <3>1, LeavePrint3 DEF PrintInv
  <2> QED BY <2>1, <2>2, <2>3
<1>3. CASE KillLeaving(p)
  <2>1. /\ UNCHANGED <<program, toFile, n, arr, i, pc, newest, buf, out>>
        /\ p \in leaving /\ leaving' \subseteq leaving /\ broken' = broken + 1
    BY <1>3 DEF KillLeaving, typed
  <2>2. broken' # 0
    BY <1>1, <2>1, TypesThen
  <2>3. \A q \in 0..n : Held(q)' = Held(q)
    BY <2>1 DEF Held
  <2>4. ChainOK'
    BY <1>1, <2>1, <2>2, <2>3 DEF ChainOK
  <2>5. WrittenOK'
    BY <1>1, <2>1, <2>2 DEF WrittenOK
  <2>6. ResultOK'
    BY <1>1, <2>1, <2>2 DEF ResultOK
  <2> QED BY <1>1, <2>4, <2>5, <2>6 DEF PrintInv
<1> QED BY <1>2, <1>3

LEMMA StepPrintInv == PrintInv /\ [Next]_vars => PrintInv'
<1> SUFFICES ASSUME PrintInv, [Next]_vars PROVE PrintInv'
  OBVIOUS
<1>1. CASE Fork \/ ForkFails \/ Return \/ Kill
  BY <1>1, ForkPrint, StopPrint, ReturnPrint
<1>2. CASE Place \/ ExitIndex \/ PlaceStatus
  BY <1>2, PlacePrint, StatusPrint
<1>3. ASSUME NEW p \in 0..n, Leave(p) \/ KillLeaving(p) PROVE PrintInv'
  BY <1>3, LeavePrint
<1>4. CASE UNCHANGED vars
  <2>1. UNCHANGED <<program, toFile, n, input, arr, i, pc, status, newest, buf, leaving, out, broken>>
    BY <1>4 DEF vars, typed, procs
  <2>2. IInv'
    BY <1>4, StepIInv DEF PrintInv
  <2>3. ChainOK'
    BY <2>1 DEF PrintInv, ChainOK, Held
  <2>4. WrittenOK'
    BY <2>1 DEF PrintInv, WrittenOK, Left, LeftFrom
  <2>5. ResultOK'
    BY <2>1 DEF PrintInv, ResultOK
  <2> QED BY <2>2, <2>3, <2>4, <2>5 DEF PrintInv
<1> QED BY <1>1, <1>2, <1>3, <1>4 DEF Next

(* as2_3.c prints at its end only, when all places are sorted.             *)
Late == program = "as2_3" /\ i # n => Len(out) = 0 /\ Len(buf[0]) = 0

LEMMA InitLate == Init => Late
<1> SUFFICES ASSUME Init PROVE Late
  OBVIOUS
<1>1. 0 \in 0..n
  BY ConstantsOK DEF Init
<1>2. buf[0] = <<>> /\ out = <<>>
  BY <1>1 DEF Init
<1> QED BY <1>2 DEF Late

LEMMA StepLate == PrintInv /\ Late /\ [Next]_vars => Late'
<1> SUFFICES ASSUME PrintInv, Late, [Next]_vars, program' = "as2_3", i' # n'
             PROVE  Len(out') = 0 /\ Len(buf'[0]) = 0
  BY DEF Late
<1>1. TypeOK /\ ResultOK
  BY DEF PrintInv, IInv
<1>2. /\ n \in Nat \ {0} /\ i \in Nat /\ 0 \in 0..n /\ out \in Seq(Lines) /\ buf[0] \in Seq(Lines)
      /\ pc \in {"child", "swap"} => i < n
  BY <1>1, TypesThen DEF TypeOK
<1>3. program = "as2_3"
  BY DEF Next, Fork, ForkFails, Return, Kill, Place, ExitIndex, PlaceStatus, Leave, KillLeaving,
         vars, typed
<1>4. n' = n /\ ~(i = n)
  <2>1. CASE PlaceStatus
    BY <1>2, <2>1 DEF PlaceStatus, typed
  <2>2. CASE ~PlaceStatus
    BY <1>3, <2>2 DEF Next, Fork, ForkFails, Return, Kill, Place, ExitIndex, Leave, KillLeaving,
         vars, typed
  <2> QED BY <2>1, <2>2
<1>5. Len(out) = 0 /\ Len(buf[0]) = 0
  BY <1>3, <1>4 DEF Late
<1>6. CASE \E p \in 0..n : Leave(p)
  <2>1. PICK p \in 0..n : Leave(p)
    BY <1>6
  <2>2. p = 0
    BY <1>1, <1>3, <2>1 DEF Leave, ResultOK
  <2>3. out' = out \o buf[0] /\ buf' = buf
    BY <2>1, <2>2 DEF Leave
  <2> QED BY <1>2, <1>5, <2>3
<1>7. CASE ~(\E p \in 0..n : Leave(p))
  <2>1. out' = out /\ buf' = buf
    BY <1>3, <1>4, <1>7 DEF Next, Fork, ForkFails, Return, Kill, Place, ExitIndex, PlaceStatus,
         KillLeaving, vars, procs
  <2> QED BY <1>5, <2>1
<1> QED BY <1>6, <1>7

(* When all processes have ended, all of 0..n have: those from the r-th on *)
(* are n - r + 1.                                                          *)
LEMMA PrintInvThen == PrintInv /\ Late => Printed
<1> SUFFICES ASSUME PrintInv, Late PROVE Printed
  OBVIOUS
<1>1. TypeOK /\ ChainOK /\ WrittenOK /\ ResultOK
  BY DEF PrintInv, IInv
<1>2. /\ n \in Nat \ {0} /\ i \in Nat /\ program \in {"as2_2", "as2_3"} /\ toFile \in BOOLEAN
      /\ out \in Seq(Lines) /\ Len(out) \in Nat
  BY <1>1, TypesThen
<1>3. \A r : Times(r) = Count(out, r)
  BY DEF Times, Count
<1>6. Fits => \A r \in 1..i : RthLargest(r, arr[r - 1])
  BY <1>1, FrontRanked DEF PrintInv, IInv, Sorted
<1>4. CASE program = "as2_3"
  <2>1. Len(out) = 0 \/ LinesOf(arr, out, n)
    BY <1>1, <1>4 DEF ResultOK
  <2>2. \A j \in 1..Len(out) : out[j].rank = j /\ out[j].value = arr[out[j].rank - 1]
    BY <1>2, <2>1 DEF LinesOf
  <2>8. \A j \in 1..Len(out) : out[j].rank \in 1..i
    BY <1>1, <1>2, <1>4, <2>1 DEF Late, LinesOf
  <2>9. Fits => \A j \in 1..Len(out) : RthLargest(out[j].rank, out[j].value)
    BY <1>6, <2>2, <2>8
  <2>3. ASSUME Over, broken = 0, NEW r \in 1..n PROVE Times(r) = 1
    <3>1. Len(out) = n
      BY <1>1, <1>4, <2>3 DEF Over, ResultOK
    <3>2. LinesOf(arr, out, n)
      BY <1>2, <2>1, <3>1
    <3> QED BY <1>2, <1>3, <3>2, CountLines
  <2> QED BY <1>4, <2>2, <2>3, <2>9 DEF Printed
<1>5. CASE program = "as2_2"
  <2>1. \A j \in 1..Len(out) : out[j].rank \in 1..i /\ out[j].value = arr[out[j].rank - 1]
    BY <1>1, <1>5 DEF WrittenOK
  <2>9. Fits => \A j \in 1..Len(out) : RthLargest(out[j].rank, out[j].value)
    BY <1>6, <2>1
  <2>2. ~toFile => LinesOf(arr, out, i)
    BY <1>1, <1>5 DEF WrittenOK
  <2>3. ~toFile => \A j \in 1..Len(out) : out[j].rank = j
    BY <2>2 DEF LinesOf
  <2>4. ASSUME Over, broken = 0, NEW r \in 1..n
        PROVE  Times(r) = IF toFile THEN n - r + 1 ELSE 1
    <3>1. newest = n /\ i = n /\ pc = "over" /\ leaving = {}
      BY <1>1, <1>5, <2>4 DEF ChainOK, Over
    <3>2. CASE toFile
      <4>1. Count(out, r) = Cardinality(LeftFrom(r))
        BY <1>1, <1>5, <2>4, <3>2 DEF WrittenOK
      <4>2. LeftFrom(r) = r..n
        BY <1>2, <3>1 DEF LeftFrom, Left
      <4>3. Cardinality(r..n) = n - r + 1
        BY <1>2, FS_Interval
      <4> QED BY <1>3, <3>2, <4>1, <4>2, <4>3
    <3>3. CASE ~toFile
      <4>1. LinesOf(arr, out, n)
        BY <2>2, <3>1, <3>3
      <4> QED BY <1>2, <1>3, <3>3, <4>1, CountLines
    <3> QED BY <3>2, <3>3
  <2> QED BY <1>5, <2>1, <2>3, <2>4, <2>9 DEF Printed
<1> QED BY <1>2, <1>4, <1>5

(* While every index fits an exit status, what is written with a rank is   *)
(* the number of that rank in what the user typed, for any numbers and     *)
(* however many.  On a terminal each is written once and in order; in a    *)
(* file as2_2.c has the i-th once for each process from the i-th on, in    *)
(* whatever order they end (as2_2.c:23, 38, 46, as2_3.c:65-68).            *)
THEOREM PrintsRight == Spec => []Printed
<1>1. Spec => [](PrintInv /\ Late)
  BY InitPrintInv, StepPrintInv, InitLate, StepLate, PTL DEF Spec
<1> QED BY <1>1, PrintInvThen, PTL
=============================================================================
