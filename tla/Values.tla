------------------------------- MODULE Values -------------------------------
(***************************************************************************)
(* The value that every module shares.                                     *)
(***************************************************************************)

\* Absent values: the NULLs of the tables and the None of the Python records.
CONSTANT None

=============================================================================
