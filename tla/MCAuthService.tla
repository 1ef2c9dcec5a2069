----------------------------- MODULE MCAuthService -----------------------------
(* AuthService over model values: requests and devices are interchangeable. *)
EXTENDS AuthService, TLC
Symmetry == Permutations(Requests) \cup Permutations(Devices)
=============================================================================
