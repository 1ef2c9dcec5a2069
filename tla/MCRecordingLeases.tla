------------------------- MODULE MCRecordingLeases -------------------------
(***************************************************************************)
(* TLC instances of RecordingLeases: the constants are in the cfg files.   *)
(***************************************************************************)
EXTENDS RecordingLeases, TLC

\* Workers and channels are interchangeable for the safety properties.
Symmetry == Permutations(Workers) \cup Permutations(Channels)
=============================================================================
