--------------------------- MODULE MCClaimLedger ---------------------------
(* ClaimLedger on a run of two tasks; the cfg files give the constants.     *)
EXTENDS ClaimLedger
=============================================================================
