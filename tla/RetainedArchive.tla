-------------------------- MODULE RetainedArchive --------------------------
(***************************************************************************)
(* What the network DVR promises about one channel: a segment that can be  *)
(* replayed stays replayable for the whole retention period.  The archive  *)
(* grows by segments that have been broadcast and loses only segments that *)
(* are past retention.  SegmentArchive implements it.                      *)
(***************************************************************************)
EXTENDS Integers

CONSTANT Retention

VARIABLES
    now,     \* the clock
    archive  \* the replayable segments; each is a record with a start time "at"

Tick == now' = now + 1 /\ UNCHANGED archive

Append(new) ==
    /\ \A s \in new : s.at <= now
    /\ archive' = archive \cup new
    /\ UNCHANGED now

Expire(old) ==
    /\ \A s \in old : s.at < now - Retention
    /\ archive' = archive \ old
    /\ UNCHANGED now

Init == now = 0 /\ archive = {}

Next ==
    \/ Tick
    \/ Append(archive' \ archive)
    \/ Expire(archive \ archive')

Spec == Init /\ [][Next]_<<now, archive>>
=============================================================================
