------------------------ MODULE MCFailoverSupervisor ------------------------
(***************************************************************************)
(* TLC instances of FailoverSupervisor and of the proxy below it: the other*)
(* constants are in the cfg files.                                         *)
(***************************************************************************)
EXTENDS FailoverSupervisor, TLC

CONSTANTS a1, a2, b1

\* Two streams of channel a, from different providers, and one of channel b.
MCStreams == {a1, a2, b1}
MCChannelOf == (a1 :> "a") @@ (a2 :> "a") @@ (b1 :> "b")
MCHostOf == (a1 :> "x") @@ (a2 :> "y") @@ (b1 :> "x")
=============================================================================
