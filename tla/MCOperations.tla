----------------------------- MODULE MCOperations -----------------------------
(***************************************************************************)
(* Three migrations in releases of any shape, in up to four runs, and two  *)
(* threads that may shut the process down.                                 *)
(***************************************************************************)
EXTENDS Operations

MCVersion == 1..3
=============================================================================
