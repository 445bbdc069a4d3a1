--------------------------- MODULE MCStudentStore ---------------------------
(* The student record program for TLC: memory that nothing was written to  *)
(* may hold an offset that no file has, or that of the first record.       *)
EXTENDS StudentStore

MCLeftovers == {-3, 1}
=============================================================================
