----------------------------- MODULE MCSyncCRDT -----------------------------
(***************************************************************************)
(* The TLC instance of SyncCRDT: the constants are in the cfg file.        *)
(***************************************************************************)
EXTENDS SyncCRDT
=============================================================================
