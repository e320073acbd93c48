------------------------------ MODULE MCBrief ------------------------------
(* Brief on a run of two tasks; the cfg file gives the constants.           *)
EXTENDS Brief
=============================================================================
