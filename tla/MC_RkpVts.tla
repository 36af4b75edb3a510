------------------------------ MODULE MC_RkpVts ------------------------------
(* Every version, both check orders, devices with and without GMS and a    *)
(* KeyMint device, the other instance of every version, and HALs with up   *)
(* to two defects, so that one defect can try to hide another.  The prod   *)
(* EEK chain has two entries (the Google root and the GEEK); the minimum    *)
(* number of keys in a CSR is scaled from 20 to 2.                         *)
EXTENDS RkpVts
=============================================================================
