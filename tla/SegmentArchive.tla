--------------------------- MODULE SegmentArchive ---------------------------
(***************************************************************************)
(* The archive of one channel: object storage plus the Postgres index.     *)
(*                                                                         *)
(* A recorder polls the channel's live playlist, skips the segments in its *)
(* seen ring and downloads the others in parallel; each download is stamped*)
(* with the time, uploaded and then indexed.  Every worker also runs a     *)
(* retention sweeper, which deletes the objects of expired rows and then   *)
(* the rows.  Several recorders may be at work on the channel (a lease can *)
(* be taken over, see RecordingLeases), and uploads, inserts, deletes,     *)
(* failures, cancellations and crashes interleave.                         *)
(*                                                                         *)
(* services/recording/internal/recorder: recorder.go (recordChannel,       *)
(* persistSegment, seenRing), store.go, storage.go, retention.go.          *)
(***************************************************************************)
EXTENDS Integers, Sequences, FiniteSets

CONSTANTS
    Recorders,   \* workers that may record the channel
    Sweepers,    \* retention sweepers, one per worker
    Window,      \* segments in the live playlist
    RingCap,     \* capacity of the seen ring
    Retention,   \* the retention period, in clock ticks
    SweepLimit,  \* rows one retention pass takes
    MaxSource,   \* bound: segments the channel broadcasts
    MaxTime,     \* bound: clock ticks
    MaxFaults    \* bound: failed requests, stopped recorders and sweepers

ASSUME ArchiveAssumption ==
    /\ Window \in Nat \ {0} /\ RingCap \in Nat \ {0} /\ SweepLimit \in Nat \ {0}
    /\ Retention \in Nat /\ MaxSource \in Nat /\ MaxTime \in Nat /\ MaxFaults \in Nat

VARIABLES
    now,      \* the clock
    head,     \* the newest segment of the live playlist
    on,       \* the recorders whose session runs
    endedAt,  \* when a recorder's last session ended
    ring,     \* the session's seen ring, oldest segment first
    seq,      \* the session's mediaSeq
    jobs,     \* the batch being persisted
    objects,  \* object storage
    rows,     \* dvr_segments
    todo,     \* the rows of a sweeper's pass it has not reached
    gone,     \* the rows of a sweeper's pass whose object it deleted
    faults    \* failures so far

sessionVars == <<on, endedAt, ring, seq, jobs>>
sweepVars == <<todo, gone>>
vars == <<now, head, sessionVars, objects, rows, sweepVars, faults>>

Sources == 1 .. MaxSource
Time == 0 .. MaxTime

\* A recorded segment: an object (src is what its bytes are) or a row (src is
\* its source_url).  The object key is made of the channel, the time and seq.
Segment == [at : Time, seq : Nat, src : Sources]
Job == [src : Sources, seq : Nat, at : Time, stage : {"fetch", "upload", "index"}]
MakeJob(src, n, at, stage) == [src |-> src, seq |-> n, at |-> at, stage |-> stage]

TypeOK ==
    /\ now \in Time /\ head \in 0 .. MaxSource /\ faults \in 0 .. MaxFaults
    /\ on \subseteq Recorders
    /\ endedAt \in [Recorders -> Time \cup {-1}]
    /\ ring \in [Recorders -> Seq(Sources)]
    /\ seq \in [Recorders -> Nat]
    /\ \A r \in Recorders : jobs[r] \subseteq Job
    /\ objects \subseteq Segment /\ rows \subseteq Segment
    /\ \A s \in Sweepers : todo[s] \subseteq Segment /\ gone[s] \subseteq Segment

Init ==
    /\ now = 0 /\ head = 0 /\ faults = 0
    /\ on = {}
    /\ endedAt = [r \in Recorders |-> -1]
    /\ ring = [r \in Recorders |-> <<>>]
    /\ seq = [r \in Recorders |-> 0]
    /\ jobs = [r \in Recorders |-> {}]
    /\ objects = {} /\ rows = {}
    /\ todo = [s \in Sweepers |-> {}]
    /\ gone = [s \in Sweepers |-> {}]

---------------------------------------------------------------------------
(* The environment: the clock and the channel's origin.                    *)

Tick ==
    /\ now < MaxTime
    /\ now' = now + 1
    /\ UNCHANGED <<head, sessionVars, objects, rows, sweepVars, faults>>

Publish ==
    /\ head < MaxSource
    /\ head' = head + 1
    /\ UNCHANGED <<now, sessionVars, objects, rows, sweepVars, faults>>

\* The media playlist: the last Window segments, oldest first.
Playlist == SelectSeq([i \in 1 .. head |-> i], LAMBDA s : s > head - Window)

---------------------------------------------------------------------------
(* The seen ring.                                                          *)

Seen(keys, s) == \E i \in DOMAIN keys : keys[i] = s

RingAdd(keys, s) ==
    Append(IF Len(keys) = RingCap THEN Tail(keys) ELSE keys, s)

\* The poll loop over the first n entries of a playlist: the ring afterwards
\* and the segments to fetch.  A segment enters the ring before it is fetched.
Scan(keys, playlist) ==
    LET after[n \in 0 .. Len(playlist)] ==
          IF n = 0 THEN [ring |-> keys, fetch |-> <<>>]
          ELSE LET before == after[n - 1]
                   s == playlist[n]
               IN IF Seen(before.ring, s) THEN before
                  ELSE [ring |-> RingAdd(before.ring, s),
                        fetch |-> Append(before.fetch, s)]
    IN after[Len(playlist)]

---------------------------------------------------------------------------
(* A recorder.                                                             *)

\* A worker starts recording.  Its Run loop waits between a session's end and
\* the refresh that starts the next, so sessions do not meet in one tick.
StartSession(r) ==
    /\ r \notin on /\ endedAt[r] < now
    /\ on' = on \cup {r}
    /\ ring' = [ring EXCEPT ![r] = <<>>]
    /\ seq' = [seq EXCEPT ![r] = 0]
    /\ UNCHANGED <<now, head, endedAt, jobs, objects, rows, sweepVars, faults>>

\* One turn of recordChannel's loop, once the previous batch has ended.  (A
\* playlist that cannot be fetched changes nothing.)
Poll(r) ==
    /\ r \in on /\ jobs[r] = {}
    /\ LET scan == Scan(ring[r], Playlist)
       IN /\ ring' = [ring EXCEPT ![r] = scan.ring]
          /\ jobs' = [jobs EXCEPT ![r] =
                        {MakeJob(scan.fetch[i], seq[r] + i, 0, "fetch") :
                           i \in DOMAIN scan.fetch}]
          /\ seq' = [seq EXCEPT ![r] = @ + Len(scan.fetch)]
    /\ UNCHANGED <<now, head, on, endedAt, objects, rows, sweepVars, faults>>

\* A mutant of Key: the layout {channel}/{date}/{hour}/{seq}.ts that
\* docs/architecture/overview.md gives; seq restarts with every session.
KeyBySeq(x) == <<x.seq>>

\* segmentKey: what names an object (the duration and the date path, functions
\* of the segment and of the time, are left out).
Key(x) == <<x.at, x.seq>>

\* A mutant of Stored: the row is stamped with the segment's start.
StoredBackdated(j) == [at |-> j.at - 1, seq |-> j.seq, src |-> j.src]

Stored(j) == [at |-> j.at, seq |-> j.seq, src |-> j.src]

\* PutObject replaces whatever the key named.
PutAll(js) ==
    objects' = {o \in objects : \A j \in js : Key(o) # Key(j)}
                 \cup {Stored(j) : j \in js}

\* INSERT ... ON CONFLICT (channel_id, started_at) DO NOTHING.
Conflicts(j, in) == \E x \in in : x.at = j.at

\* The response headers arrive and the segment is stamped with the time.
Fetched(r, j) ==
    /\ j \in jobs[r] /\ j.stage = "fetch"
    /\ jobs' = [jobs EXCEPT ![r] = (@ \ {j}) \cup
                  {MakeJob(j.src, j.seq, now, "upload")}]
    /\ UNCHANGED <<now, head, on, endedAt, ring, seq, objects, rows, sweepVars, faults>>

Uploaded(r, j) ==
    /\ j \in jobs[r] /\ j.stage = "upload"
    /\ PutAll({j})
    /\ jobs' = [jobs EXCEPT ![r] = (@ \ {j}) \cup
                  {MakeJob(j.src, j.seq, j.at, "index")}]
    /\ UNCHANGED <<now, head, on, endedAt, ring, seq, rows, sweepVars, faults>>

Indexed(r, j) ==
    /\ j \in jobs[r] /\ j.stage = "index"
    /\ rows' = IF Conflicts(j, rows) THEN rows ELSE rows \cup {Stored(j)}
    /\ jobs' = [jobs EXCEPT ![r] = @ \ {j}]
    /\ UNCHANGED <<now, head, on, endedAt, ring, seq, objects, sweepVars, faults>>

\* The batch ends early.  Every job's outstanding request is abandoned; those
\* in "landed" take effect all the same (of two inserts in conflict, one).
Abandon(r, landed) ==
    LET inserts == {j \in landed : j.stage = "index"}
    IN /\ landed \subseteq jobs[r]
       /\ \A j \in inserts : ~Conflicts(j, rows \cup (inserts \ {j}))
       /\ jobs' = [jobs EXCEPT ![r] = {}]
       /\ PutAll({j \in landed : j.stage = "upload"})
       /\ rows' = rows \cup {Stored(j) : j \in inserts}

\* One job fails: the errgroup cancels its siblings, the error is logged and
\* the loop goes on.  What was not recorded stays in the ring.
BatchFails(r, landed) ==
    /\ jobs[r] # {} /\ faults < MaxFaults
    /\ faults' = faults + 1
    /\ Abandon(r, landed)
    /\ UNCHANGED <<now, head, on, endedAt, ring, seq, sweepVars>>

\* The lease is lost, or the worker dies.
StopSession(r, landed) ==
    /\ r \in on /\ faults < MaxFaults
    /\ faults' = faults + 1
    /\ on' = on \ {r}
    /\ endedAt' = [endedAt EXCEPT ![r] = now]
    /\ Abandon(r, landed)
    /\ UNCHANGED <<now, head, ring, seq, sweepVars>>

---------------------------------------------------------------------------
(* A retention sweeper.                                                    *)

\* A mutant of Expired: the cutoff itself is swept.
ExpiredAtCutoff(x) == x.at <= now - Retention

Expired(x) == x.at < now - Retention

\* Some SweepLimit of the expired rows, the oldest first, or all of them.
IsBatch(batch) ==
    /\ batch \subseteq {x \in rows : Expired(x)}
    /\ Cardinality(batch) <= SweepLimit
    /\ \A y \in rows \ batch :
          Expired(y) => /\ Cardinality(batch) = SweepLimit
                        /\ \A x \in batch : x.at <= y.at

Idle(s) == todo[s] = {} /\ gone[s] = {}

\* A pass begins.  (Listing may fail: nothing changes.)
ListExpired(s) ==
    /\ Idle(s)
    /\ \E batch \in SUBSET rows :
          IsBatch(batch) /\ todo' = [todo EXCEPT ![s] = batch]
    /\ UNCHANGED <<now, head, sessionVars, objects, rows, gone, faults>>

\* A mutant of DeleteObject: deleting an object that is gone is an error.
DeleteObjectOnce(s, x) ==
    /\ x \in todo[s] /\ \E o \in objects : Key(o) = Key(x)
    /\ objects' = {o \in objects : Key(o) # Key(x)}
    /\ todo' = [todo EXCEPT ![s] = @ \ {x}]
    /\ gone' = [gone EXCEPT ![s] = @ \cup {x}]
    /\ UNCHANGED <<now, head, sessionVars, rows, faults>>

\* DeleteObject, which is idempotent.
DeleteObject(s, x) ==
    /\ x \in todo[s]
    /\ objects' = {o \in objects : Key(o) # Key(x)}
    /\ todo' = [todo EXCEPT ![s] = @ \ {x}]
    /\ gone' = [gone EXCEPT ![s] = @ \cup {x}]
    /\ UNCHANGED <<now, head, sessionVars, rows, faults>>

\* DeleteObject answers with an error, whether or not it was carried out: the
\* row is left to a later pass.
DeleteObjectFails(s, x) ==
    /\ x \in todo[s] /\ faults < MaxFaults
    /\ faults' = faults + 1
    /\ UNCHANGED objects \/ objects' = {o \in objects : Key(o) # Key(x)}
    /\ todo' = [todo EXCEPT ![s] = @ \ {x}]
    /\ UNCHANGED <<now, head, sessionVars, rows, gone>>

\* One DELETE for all the rows whose object is gone.
DeleteRows(s) ==
    /\ todo[s] = {} /\ gone[s] # {}
    /\ rows' = rows \ gone[s]
    /\ gone' = [gone EXCEPT ![s] = {}]
    /\ UNCHANGED <<now, head, sessionVars, objects, todo, faults>>

\* The DELETE fails, or the worker dies in the middle of a pass.
PassFails(s) ==
    /\ ~Idle(s) /\ faults < MaxFaults
    /\ faults' = faults + 1
    /\ todo' = [todo EXCEPT ![s] = {}]
    /\ gone' = [gone EXCEPT ![s] = {}]
    /\ UNCHANGED <<now, head, sessionVars, objects, rows>>

---------------------------------------------------------------------------
Next ==
    \/ Tick
    \/ Publish
    \/ \E r \in Recorders : StartSession(r)
    \/ \E r \in Recorders : Poll(r)
    \/ \E r \in Recorders : \E j \in jobs[r] : Fetched(r, j)
    \/ \E r \in Recorders : \E j \in jobs[r] : Uploaded(r, j)
    \/ \E r \in Recorders : \E j \in jobs[r] : Indexed(r, j)
    \/ \E r \in Recorders : \E landed \in SUBSET jobs[r] : BatchFails(r, landed)
    \/ \E r \in Recorders : \E landed \in SUBSET jobs[r] : StopSession(r, landed)
    \/ \E s \in Sweepers : ListExpired(s)
    \/ \E s \in Sweepers : \E x \in todo[s] : DeleteObject(s, x)
    \/ \E s \in Sweepers : \E x \in todo[s] : DeleteObjectFails(s, x)
    \/ \E s \in Sweepers : DeleteRows(s)
    \/ \E s \in Sweepers : PassFails(s)

Spec == Init /\ [][Next]_vars

\* The sweepers' hourly ticker keeps running and a pass runs to its end.
SweeperStep(s) ==
    \/ ListExpired(s)
    \/ \E x \in todo[s] : DeleteObject(s, x)
    \/ DeleteRows(s)

FairSpec == Spec /\ \A s \in Sweepers : WF_vars(SweeperStep(s))

---------------------------------------------------------------------------
(* What the archive guarantees.                                            *)

HasObject(x) == \E o \in objects : Key(o) = Key(x)

\* The replay guarantee: a row of the index that is within retention, which is
\* what a manifest lists, has its object, whatever recorder or sweeper was
\* interrupted where.  It rests on the object being written before the row, on
\* the key carrying the time (so that no later session reuses it) and on the
\* sweeper taking expired rows only.
UnexpiredIsReplayable == \A x \in rows : Expired(x) \/ HasObject(x)

\* Retention is enforced: the sweepers work off their backlog of expired rows
\* again and again, although a pass takes only SweepLimit rows and can be cut
\* short between the objects and the rows.
BacklogClears == []<>(\A x \in rows : ~Expired(x))

\* The archive implements the promise of RetainedArchive: the rows with an
\* object are the replayable segments.
replayable == {x \in rows : HasObject(x)}
Promise == INSTANCE RetainedArchive WITH archive <- replayable
ImplementsRetainedArchive == Promise!Spec
=============================================================================
