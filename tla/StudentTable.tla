---------------------------- MODULE StudentTable ----------------------------
(***************************************************************************)
(* What the student record program of assignments/as1 promises its user: a *)
(* table of student records in the order of the index file, and options of *)
(* the menu that change it.  Adding puts a record at the end, deleting     *)
(* removes the first with a roll number, modifying does both, sorting      *)
(* exchanges records and initializing empties the table.  Compaction and   *)
(* the options that print leave it as it is.  An option that ends half-way *)
(* breaks the table until it is initialized again.                         *)
(***************************************************************************)
EXTENDS Naturals, Sequences

CONSTANTS
    Rolls,      \* roll numbers a user types
    Names       \* first names a user types

VARIABLES
    table,      \* the records, in index order
    option      \* the option that runs, "none" at the menu, or "broken"

Records == [roll : Rolls, name : Names]

Init == table = <<>> /\ option = "none"

Initialize ==
    /\ option \in {"none", "broken"} /\ option' = "initialize"
    /\ table' = <<>>

(* An option that has nothing to do before its first change, or to change. *)
Begin ==
    /\ option = "none" /\ option' \in {"add", "compact", "sort"}
    /\ UNCHANGED table

(* A record is added at the end; nothing forbids a roll already in use. *)
Insert(rec) ==
    /\ option \in {"add", "modify"} /\ option' = "none"
    /\ table' = Append(table, rec)

(* The first record with the roll number of record k is the one removed. *)
Remove(k) ==
    /\ option = "none" /\ option' \in {"delete", "modify"}
    /\ \A i \in 1..(k - 1) : table[i].roll # table[k].roll
    /\ table' = SubSeq(table, 1, k - 1) \o SubSeq(table, k + 1, Len(table))

(* One exchange of the selection sort. *)
Exchange(i, j) ==
    /\ option = "sort" /\ UNCHANGED option
    /\ table' = [table EXCEPT ![i] = table[j], ![j] = table[i]]

End ==
    /\ option \in {"initialize", "delete", "compact", "sort"} /\ option' = "none"
    /\ UNCHANGED table

Break == option' = "broken"

Next ==
    \/ Initialize \/ Begin \/ End \/ Break
    \/ \E rec \in Records : Insert(rec)
    \/ \E k \in DOMAIN table : Remove(k)
    \/ \E i, j \in DOMAIN table : Exchange(i, j)

Spec == Init /\ [][Next]_<<table, option>>
=============================================================================
