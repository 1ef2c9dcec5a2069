-------------------------- MODULE MCSegmentArchive --------------------------
(***************************************************************************)
(* TLC instances of SegmentArchive: the constants are in the cfg files.    *)
(***************************************************************************)
EXTENDS SegmentArchive, TLC
=============================================================================
