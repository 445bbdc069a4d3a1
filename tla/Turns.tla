------------------------------- MODULE Turns --------------------------------
(***************************************************************************)
(* What the three programs of assignments/as5 are for: the sections p1, p2 *)
(* section 1, p3 and p2 section 2 take turns, one at a time, in that order *)
(* and round again.                                                        *)
(***************************************************************************)
EXTENDS Naturals

VARIABLES
    inside,     \* the sections a process is in
    last,       \* the section entered last
    rings       \* how often the round was begun

Sections == 1..4

Init == inside = {} /\ last = 4 /\ rings = 0

(* The round begins, with nobody in a section. *)
Begin ==
    /\ inside = {} /\ inside' = {}
    /\ last' = 4 /\ rings' = rings + 1

Enter(s) ==
    /\ inside = {}
    /\ s = (last % 4) + 1
    /\ inside' = {s} /\ last' = s /\ rings' = rings

(* The process goes on, or ends in its section. *)
Leave == inside' = {} /\ last' = last /\ rings' = rings

Next == Begin \/ Leave \/ \E s \in Sections : Enter(s)

Spec == Init /\ [][Next]_<<inside, last, rings>>
=============================================================================
