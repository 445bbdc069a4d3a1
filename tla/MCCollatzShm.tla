---------------------------- MODULE MCCollatzShm ----------------------------
(* Model checking CollatzShm: behind a segment the parent may find the end *)
(* mark or another number.                                                 *)
EXTENDS CollatzShm

MCOutside == {-1, 3}
=============================================================================
