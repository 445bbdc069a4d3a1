------------------------------ MODULE ForkSort ------------------------------
(***************************************************************************)
(* Two programs of as2 that sort an array from the largest number down     *)
(* with a process for each place.  In as2_2.c each process finds the       *)
(* largest of the rest, prints it, moves it to its place in its own copy   *)
(* of the array and forks the next one.  In as2_3.c the child passes the   *)
(* index of the largest number to its parent in its exit status, which     *)
(* keeps it modulo 256; the parent moves the number and prints at the end. *)
(*                                                                         *)
(* What a process prints to a file stays in its memory until it ends, and  *)
(* fork() copies it: the child prints it again.                            *)
(***************************************************************************)
EXTENDS Integers, Sequences, FiniteSets

CONSTANTS
    MaxN,           \* bound: how many numbers
    Values,         \* the numbers
    Statuses,       \* exit statuses: 256
    MaxKills        \* bound: processes killed from outside

ASSUME NAssumption        == MaxN \in Nat \ {0} /\ MaxKills \in Nat
ASSUME ValuesAssumption   == Values \subseteq Int
ASSUME StatusesAssumption == Statuses \in Nat \ {0}

VARIABLES
    program,        \* "as2_2" or "as2_3"
    toFile,         \* stdout is a file
    n, input,       \* what the user typed
    arr, i,         \* of the process at work: its array, its loop
    pc,             \* what it does next
    status,         \* the exit status the parent of as2_3.c got
    newest,         \* as2_2.c: the process at work; 0 is the first
    buf,            \* what each process has printed and not yet written
    leaving,        \* the processes about to end
    out,            \* what has been written
    broken          \* kills; a fork() that failed counts as one

typed == <<program, toFile, n, input>>
procs == <<newest, buf, leaving>>
vars  == <<typed, arr, i, pc, status, procs, out, broken>>

Index == 0 .. n - 1

-----------------------------------------------------------------------------
(* The loop over k: the first of the largest numbers from place i on.      *)

(* Mutant: the last number is not looked at. *)
LargestShort(a, from) ==
    CHOOSE m \in from .. n - 1 :
        /\ \A j \in from .. n - 2 : a[j] <= a[m]
        /\ \A j \in from .. m - 1 : a[j] < a[m]

Largest(a, from) ==
    CHOOSE m \in from .. n - 1 :
        /\ \A j \in from .. n - 1 : a[j] <= a[m]
        /\ \A j \in from .. m - 1 : a[j] < a[m]

(* Mutant: the number that was in its way is lost. *)
SwapHalf(a, x, y) == [a EXCEPT ![x] = a[y]]

Swap(a, x, y) == [a EXCEPT ![x] = a[y], ![y] = a[x]]

Line(rank, value) == [rank |-> rank, value |-> value]

(* printf() of a process.                                                  *)
Puts(p, lines) ==
    IF toFile THEN buf' = [buf EXCEPT ![p] = @ \o lines] /\ out' = out
              ELSE out' = out \o lines /\ buf' = buf

(* exit(): what is in the buffer is written.                               *)
Leave(p) ==
    /\ p \in leaving
    /\ leaving' = leaving \ {p} /\ out' = out \o buf[p]
    /\ UNCHANGED <<typed, arr, i, pc, status, newest, buf, broken>>

(* A process that is killed does not come to that.                         *)
KillLeaving(p) ==
    /\ p \in leaving /\ broken < MaxKills
    /\ leaving' = leaving \ {p} /\ broken' = broken + 1
    /\ UNCHANGED <<typed, arr, i, pc, status, newest, buf, out>>

Over == pc = "over" /\ leaving = {}

-----------------------------------------------------------------------------
(* Both: the loop over i, the end of main().                               *)

(* Mutant: the child does not get what its parent has not written. *)
InheritedNot == [buf EXCEPT ![newest + 1] = <<>>]

Inherited == [buf EXCEPT ![newest + 1] = buf[newest]]

(* Mutant: a round more. *)
ForkMore ==
    /\ pc = "fork" /\ i <= n
    /\ IF program = "as2_2"
       THEN /\ newest' = newest + 1 /\ buf' = Inherited
            /\ leaving' = leaving \cup {newest}
       ELSE UNCHANGED procs
    /\ pc' = "child"
    /\ UNCHANGED <<typed, arr, i, status, out, broken>>

(* In as2_2.c the parent then ends; in as2_3.c it waits.                   *)
Fork ==
    /\ pc = "fork" /\ i < n
    /\ IF program = "as2_2"
       THEN /\ newest' = newest + 1 /\ buf' = Inherited
            /\ leaving' = leaving \cup {newest}
       ELSE UNCHANGED procs
    /\ pc' = "child"
    /\ UNCHANGED <<typed, arr, i, status, out, broken>>

ForkFails ==
    /\ pc = "fork" /\ i < n /\ broken < MaxKills
    /\ pc' = "over" /\ leaving' = leaving \cup {newest} /\ broken' = broken + 1
    /\ UNCHANGED <<typed, arr, i, status, newest, buf, out>>

(* The end of main(): as2_3.c prints the result.                           *)
Return ==
    /\ pc = "fork" /\ i = n
    /\ pc' = "over" /\ leaving' = leaving \cup {newest}
    /\ IF program = "as2_3" THEN Puts(newest, [r \in 1..n |-> Line(r, arr[r - 1])])
                            ELSE UNCHANGED <<buf, out>>
    /\ UNCHANGED <<typed, arr, i, status, newest, broken>>

(* SIGKILL for the process at work.  A parent of as2_3.c sees it in the    *)
(* status of its child and exits.                                          *)
Kill ==
    /\ pc # "over" /\ broken < MaxKills
    /\ pc' = "over" /\ broken' = broken + 1
    /\ leaving' \in {leaving, IF program = "as2_3" /\ pc = "child" THEN leaving \cup {0} ELSE leaving}
    /\ UNCHANGED <<typed, arr, i, status, newest, buf, out>>

-----------------------------------------------------------------------------
(* as2_2.c: the child of round i prints, swaps, and goes on with the loop. *)

Place ==
    /\ program = "as2_2" /\ pc = "child"
    /\ Puts(newest, <<Line(i + 1, arr[Largest(arr, i)])>>)
    /\ arr' = Swap(arr, i, Largest(arr, i))
    /\ i' = i + 1 /\ pc' = "fork"
    /\ UNCHANGED <<typed, status, newest, leaving, broken>>

(* as2_3.c: the child exits, the parent has waited and swaps.              *)
ExitIndex ==
    /\ program = "as2_3" /\ pc = "child"
    /\ status' = Largest(arr, i) % Statuses
    /\ pc' = "swap"
    /\ UNCHANGED <<typed, arr, i, procs, out, broken>>

PlaceStatus ==
    /\ pc = "swap"
    /\ arr' = Swap(arr, i, status)
    /\ i' = i + 1 /\ pc' = "fork"
    /\ UNCHANGED <<typed, status, procs, out, broken>>

-----------------------------------------------------------------------------
Init ==
    /\ program \in {"as2_2", "as2_3"} /\ toFile \in BOOLEAN
    /\ n \in 1..MaxN /\ input \in [Index -> Values]
    /\ arr = input /\ i = 0 /\ pc = "fork" /\ status = 0
    /\ newest = 0 /\ buf = [p \in 0..n |-> <<>>] /\ leaving = {} /\ out = <<>>
    /\ broken = 0

Next ==
    \/ Fork \/ ForkFails \/ Return \/ Kill
    \/ Place \/ ExitIndex \/ PlaceStatus
    \/ \E p \in 0..n : Leave(p) \/ KillLeaving(p)

Spec == Init /\ [][Next]_vars

-----------------------------------------------------------------------------
(* Properties.                                                             *)

Lines == [rank : 1..MaxN, value : Values]

TypeOK ==
    /\ program \in {"as2_2", "as2_3"} /\ toFile \in BOOLEAN
    /\ n \in 1..MaxN /\ input \in [Index -> Values] /\ arr \in [Index -> Values]
    /\ i \in 0..n /\ pc \in {"fork", "child", "swap", "over"}
    /\ pc \in {"child", "swap"} => i < n
    /\ status \in Index
    /\ newest \in 0..n /\ buf \in [0..n -> Seq(Lines)] /\ out \in Seq(Lines)
    /\ leaving \subseteq 0..n /\ broken \in 0..MaxKills

(* The array never gains or loses a number, however large it is, and when  *)
(* every index fits the exit status (or none is passed in it), the first i *)
(* places hold the i largest from the largest down (as2_2.c:29-41,         *)
(* as2_3.c:33-61).                                                         *)
Fits == program = "as2_2" \/ n <= Statuses

Permuted ==
    \E f \in [Index -> Index] :
        /\ \A x, y \in Index : f[x] = f[y] => x = y
        /\ arr = [x \in Index |-> input[f[x]]]

PrefixSorted == \A x \in 0 .. i - 1 : \A y \in x + 1 .. n - 1 : arr[x] >= arr[y]

Sorted == Permuted /\ (Fits => PrefixSorted)

(* What is written is the array as it was sorted and, when every index     *)
(* fits, the r-th line shows the r-th largest of the numbers the user      *)
(* typed, also after a kill.  On a terminal the i-th line is printed once  *)
(* and the i-th; into a file as2_2.c writes it once for each process from  *)
(* the i-th on, in an order that depends on who ends first (as2_2.c:23,    *)
(* 38, 46, as2_3.c:65-68).  With an index the exit status cannot hold,     *)
(* as2_3.c prints the numbers in a wrong order, against its lines 1 and 67.*)
Times(r) == Cardinality({j \in 1..Len(out) : out[j].rank = r})

RthLargest(r, v) ==
    /\ Cardinality({x \in Index : input[x] > v}) < r
    /\ r <= Cardinality({x \in Index : input[x] >= v})

Printed ==
    /\ \A j \in 1..Len(out) : out[j].value = arr[out[j].rank - 1]
    /\ Fits => \A j \in 1..Len(out) : RthLargest(out[j].rank, out[j].value)
    /\ ~toFile => \A j \in 1..Len(out) : out[j].rank = j
    /\ Over /\ broken = 0 =>
        \A r \in 1..n : Times(r) = IF toFile /\ program = "as2_2" THEN n - r + 1 ELSE 1
=============================================================================
