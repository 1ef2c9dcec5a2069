---------------------------- MODULE MCSettingsSync ----------------------------
(* SettingsSync on two devices.  Liveness is checked, so no symmetry is    *)
(* declared although devices are alike.                                    *)
EXTENDS SettingsSync
=============================================================================
