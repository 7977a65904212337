------------------------------ MODULE MCDriver ------------------------------
(***************************************************************************)
(* The two files of main and three runs: an artefact of an older run can   *)
(* lie beside ones of two later runs that failed in different places.      *)
(***************************************************************************)
EXTENDS Driver
=============================================================================
