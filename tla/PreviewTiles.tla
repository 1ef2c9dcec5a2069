----------------------------- MODULE PreviewTiles ------------------------------
(***************************************************************************)
(* The tiles of the home rows: each takes a still of its channel every few *)
(* seconds while it is in view, and plays the channel while the pointer is *)
(* on it.  Both need one of a few decoder slots, which all tiles share and *)
(* wait for in turn; the slots are of the tab and outlive the tiles.       *)
(*                                                                         *)
(* A job is a capture or a session of the pointer, from acquireSlot to its *)
(* last callback, and its own token in the set of slots.                   *)
(*                                                                         *)
(* apps/web/src/components/tv/LivePreviewTile.tsx                          *)
(***************************************************************************)
EXTENDS Naturals, Sequences, FiniteSets

CONSTANTS
    Tiles,
    Hls,            \* tiles whose channel needs hls.js
    Jobs,           \* bound: jobs that are remembered
    MaxConcurrent,  \* MAX_CONCURRENT
    MaxMoves        \* bound: what the viewer does

ASSUME TilesAssumption ==
    /\ Tiles # {} /\ Hls \subseteq Tiles
    /\ MaxConcurrent \in Nat \ {0} /\ MaxMoves \in Nat
    /\ IsFiniteSet(Jobs)

VARIABLES
    active,    \* ACTIVE: jobs whose token is in it
    waiting,   \* WAITING, in order
    job,       \* what is under way, each with the closure it runs in
    tile,      \* the React state of each tile
    blobs,     \* object URLs of each tile that were not revoked
    moves

pool == <<active, waiting>>
tilesVars == <<pool, job, tile, blobs, moves>>

(* What is left of a job that has no callback any more.                    *)
Done(kind) == [kind |-> kind, tile |-> CHOOSE t \in Tiles : TRUE, phase |-> "on",
               cancelled |-> TRUE, watched |-> FALSE, source |-> FALSE,
               play |-> "no", frame |-> "no"]
Gone == [mounted |-> FALSE, visible |-> FALSE, hovered |-> FALSE, failed |-> FALSE,
         live |-> FALSE, snapshot |-> FALSE]

Job == [kind : {"capture", "hover"}, tile : Tiles, phase : {"asked", "import", "on"},
        cancelled : BOOLEAN, watched : BOOLEAN, source : BOOLEAN,
        play : {"no", "pending", "done"}, frame : {"no", "seen", "drawn", "done"}]
Tile == [mounted : BOOLEAN, visible : BOOLEAN, hovered : BOOLEAN, failed : BOOLEAN,
         live : BOOLEAN, snapshot : BOOLEAN]

TilesTypeOK ==
    /\ active \subseteq Jobs /\ waiting \in Seq(Jobs)
    /\ job \in [Jobs -> Job]
    /\ tile \in [Tiles -> Tile]
    /\ blobs \in [Tiles -> Nat]
    /\ moves \in 0 .. MaxMoves

TilesInit ==
    /\ active = {} /\ waiting = << >>
    /\ job = [j \in Jobs |-> Done("capture")]
    /\ tile = [t \in Tiles |-> [Gone EXCEPT !.mounted = TRUE]]
    /\ blobs = [t \in Tiles |-> 0]
    /\ moves = 0

(* When the effects of a tile are in force.                                *)
Capturing(s) == s.mounted /\ s.visible /\ ~s.hovered /\ ~s.failed
Hovering(s) == s.mounted /\ s.hovered /\ ~s.failed

Acquire(j) ==
    IF Cardinality(active) < MaxConcurrent
    THEN active' = active \cup {j} /\ UNCHANGED waiting
    ELSE waiting' = Append(waiting, j) /\ UNCHANGED active

ReleaseOnly(j) == active' = active \ {j} /\ UNCHANGED waiting
(* Whoever waits first is let in, whether or not the token was in the set. *)
Release(j) ==
    IF waiting = << >>
    THEN active' = active \ {j} /\ UNCHANGED waiting
    ELSE active' = (active \ {j}) \cup {Head(waiting)} /\ waiting' = Tail(waiting)

Called(j) == job[j].phase = "asked"
Granted(j) == job[j].phase = "asked" /\ j \in active

(* A job of which no callback is left is over; its token is another job's  *)
(* only after it has left the set.                                         *)
Pending(r) ==
    \/ r.phase # "on" \/ r.watched \/ r.source
    \/ r.play = "pending" \/ r.frame \in {"seen", "drawn"}
    \/ r.kind = "hover" /\ ~r.cancelled
Rest(r) == IF Pending(r) THEN r ELSE Done(r.kind)
Free(j) == ~Pending(job[j]) /\ j \notin active

SomeFree == \E j \in Jobs : Free(j)
NewJob == CHOOSE j \in Jobs : Free(j)
Asked(kind, t) == [Done(kind) EXCEPT !.tile = t, !.phase = "asked", !.cancelled = FALSE]
Under(t, kind) == {j \in Jobs : job[j].kind = kind /\ job[j].tile = t /\ ~job[j].cancelled}

(* A new state of a tile and the effects of its commit: an effect that is  *)
(* no longer in force is cleaned up, and one that comes into force starts. *)
(* The clean-up of a capture only marks it; that of the pointer's session  *)
(* takes the source away and gives the slot back if it was granted.        *)
Stop(t, s) ==
    (IF Capturing(tile[t]) /\ ~Capturing(s) THEN Under(t, "capture") ELSE {})
    \cup (IF Hovering(tile[t]) /\ ~Hovering(s) THEN Under(t, "hover") ELSE {})
Stopped(t, s) ==
    [j \in Jobs |->
        IF j \notin Stop(t, s) THEN job[j]
        ELSE IF job[j].kind = "capture" THEN [job[j] EXCEPT !.cancelled = TRUE]
        ELSE Rest([job[j] EXCEPT !.cancelled = TRUE, !.source = FALSE])]
HeldSlots(t, s) == {j \in Stop(t, s) : job[j].kind = "hover" /\ job[j].phase # "asked"}
Commit(t, s) ==
    /\ tile' = [tile EXCEPT ![t] = IF Hovering(s) THEN s ELSE [s EXCEPT !.live = FALSE]]
    /\ IF ~Hovering(tile[t]) /\ Hovering(s)
       THEN /\ SomeFree
            /\ job' = [Stopped(t, s) EXCEPT ![NewJob] = Asked("hover", t)]
            /\ Acquire(NewJob)
       ELSE /\ job' = Stopped(t, s)
            /\ IF HeldSlots(t, s) = {} THEN UNCHANGED pool
               ELSE \E j \in HeldSlots(t, s) : Release(j)

(* The viewer scrolls, points at a tile or leaves it, or leaves the page.  *)
Moves(t) == moves < MaxMoves /\ moves' = moves + 1 /\ tile[t].mounted

Scroll(t) ==
    /\ Moves(t)
    /\ Commit(t, [tile[t] EXCEPT !.visible = ~@])
    /\ UNCHANGED blobs

Point(t) ==
    /\ Moves(t)
    /\ Commit(t, [tile[t] EXCEPT !.hovered = ~@])
    /\ UNCHANGED blobs

Unmount(t) ==
    /\ Moves(t)
    /\ Commit(t, Gone)
    /\ blobs' = [blobs EXCEPT ![t] = IF tile[t].snapshot THEN @ - 1 ELSE @]

Mount(t) ==
    /\ ~tile[t].mounted
    /\ tile' = [tile EXCEPT ![t] = [Gone EXCEPT !.mounted = TRUE]]
    /\ UNCHANGED <<pool, job, blobs, moves>>

(* The logo cannot be loaded.                                              *)
LogoError(t) ==
    /\ Moves(t) /\ ~tile[t].failed
    /\ Commit(t, [tile[t] EXCEPT !.failed = TRUE])
    /\ UNCHANGED blobs

(* The timer of the snapshots.                                             *)
Due(t) ==
    /\ Capturing(tile[t])
    /\ SomeFree /\ job' = [job EXCEPT ![NewJob] = Asked("capture", t)] /\ Acquire(NewJob)
    /\ UNCHANGED <<tile, blobs, moves>>

Started(j) ==
    IF job[j].tile \in Hls THEN [job[j] EXCEPT !.phase = "import"]
    ELSE [job[j] EXCEPT !.phase = "on", !.source = TRUE, !.play = "pending"]

(* The slot is there: go on after acquireSlot, unless it came too late.    *)
ForgetsSlot(j) == job' = [job EXCEPT ![j] = Done(@.kind)] /\ UNCHANGED pool
HandsBack(j) == job' = [job EXCEPT ![j] = Done(@.kind)] /\ Release(j)
GoOn(j) ==
    /\ Granted(j)
    /\ IF job[j].cancelled
       THEN HandsBack(j)
       ELSE /\ job' = [job EXCEPT ![j] = [Started(j) EXCEPT !.watched = (job[j].kind = "capture")]]
            /\ UNCHANGED pool
    /\ UNCHANGED <<tile, blobs, moves>>

(* cleanup of a capture: not kept from running twice.                      *)
CleanUp(j, record) ==
    /\ job' = [job EXCEPT ![j] = Rest([record EXCEPT !.source = FALSE])]
    /\ Release(j)

Capture(j) == job[j].kind = "capture" /\ UNCHANGED <<tile, moves>>

(* A capture that was cancelled is left as it is.                          *)
Watchdog(j) ==
    /\ Capture(j) /\ job[j].watched /\ UNCHANGED blobs
    /\ IF job[j].cancelled
       THEN job' = [job EXCEPT ![j] = Rest([@ EXCEPT !.watched = FALSE])] /\ UNCHANGED pool
       ELSE CleanUp(j, [job[j] EXCEPT !.watched = FALSE])

Attached(j) == [job[j] EXCEPT !.phase = "on", !.source = TRUE, !.play = "pending"]
Over(j) == [job[j] EXCEPT !.phase = "on", !.watched = FALSE]

(* hls.js has come, or cannot be used here.                                *)
Imported(j) ==
    /\ Capture(j) /\ job[j].phase = "import" /\ UNCHANGED blobs
    /\ \/ ~job[j].cancelled /\ job' = [job EXCEPT ![j] = Attached(j)] /\ UNCHANGED pool
       \/ CleanUp(j, Over(j))

(* loadeddata, the frame after it, and the still that is made of it.       *)
FirstFrame(j) ==
    /\ Capture(j) /\ job[j].source /\ job[j].frame = "no"
    /\ job' = [job EXCEPT ![j].frame = IF job[j].cancelled THEN "done" ELSE "seen"]
    /\ UNCHANGED <<pool, blobs>>

Draw(j) ==
    /\ Capture(j) /\ job[j].frame = "seen" /\ UNCHANGED blobs
    /\ IF job[j].cancelled
       THEN job' = [job EXCEPT ![j] = Rest([@ EXCEPT !.frame = "done"])] /\ UNCHANGED pool
       ELSE \/ job' = [job EXCEPT ![j].frame = "drawn"] /\ UNCHANGED pool
            \/ CleanUp(j, [job[j] EXCEPT !.frame = "done", !.watched = FALSE])

Anyway(j) == FALSE
TooLate(j) == job[j].cancelled
Still(j) ==
    /\ job[j].kind = "capture" /\ job[j].frame = "drawn"
    /\ CleanUp(j, [job[j] EXCEPT !.frame = "done", !.watched = FALSE])
    /\ LET t == job[j].tile IN
       IF TooLate(j) THEN UNCHANGED <<tile, blobs>>
       ELSE \/ UNCHANGED <<tile, blobs>>
            \/ /\ tile' = [tile EXCEPT ![t].snapshot = TRUE]
               /\ blobs' = [blobs EXCEPT ![t] = IF tile[t].snapshot THEN @ ELSE @ + 1]
    /\ UNCHANGED moves

(* An error of hls.js, or of playing; a source that is taken away refuses  *)
(* the play that is pending.                                               *)
StreamError(j) ==
    /\ Capture(j) /\ job[j].source /\ job[j].tile \in Hls /\ UNCHANGED blobs
    /\ CleanUp(j, [job[j] EXCEPT !.watched = FALSE])

PlayRefused(j) ==
    /\ Capture(j) /\ job[j].play = "pending" /\ UNCHANGED blobs
    /\ CleanUp(j, [job[j] EXCEPT !.play = "done", !.watched = FALSE])

PlayStarts(j) ==
    /\ job[j].kind = "capture" /\ job[j].play = "pending" /\ job[j].source
    /\ job' = [job EXCEPT ![j].play = "done"]
    /\ UNCHANGED <<pool, tile, blobs, moves>>

(* The pointer's session: hls.js has come, it plays, or it fails for good. *)
Session(j) == job[j].kind = "hover" /\ UNCHANGED <<blobs, moves>>

SessionImported(j) ==
    /\ Session(j) /\ job[j].phase = "import"
    /\ IF job[j].cancelled
       THEN job' = [job EXCEPT ![j] = Rest([@ EXCEPT !.phase = "on"])] /\ UNCHANGED pool
       ELSE job' = [job EXCEPT ![j] = Attached(j)] /\ UNCHANGED pool
    /\ UNCHANGED tile

SessionSettles(j) ==
    /\ Session(j) /\ job[j].play = "pending"
    /\ job' = [job EXCEPT ![j] = Rest([@ EXCEPT !.play = "done"])]
    /\ tile' = IF job[j].cancelled THEN tile ELSE [tile EXCEPT ![job[j].tile].live = TRUE]
    /\ UNCHANGED pool

SessionFails(j) ==
    /\ Session(j) /\ ~job[j].cancelled
    /\ \/ job[j].phase = "import"
       \/ job[j].play = "pending"
       \/ job[j].source /\ job[j].tile \in Hls
    /\ Commit(job[j].tile, [tile[job[j].tile] EXCEPT !.failed = TRUE])

(* What the page goes on doing by itself.                                  *)
TileCallbacks(j) ==
    \/ GoOn(j) \/ Watchdog(j) \/ Imported(j) \/ FirstFrame(j) \/ Draw(j) \/ Still(j)
    \/ StreamError(j) \/ PlayRefused(j) \/ PlayStarts(j)
    \/ SessionImported(j) \/ SessionSettles(j) \/ SessionFails(j)

TilesNext ==
    \/ \E t \in Tiles : Scroll(t) \/ Point(t) \/ Unmount(t) \/ Mount(t) \/ LogoError(t) \/ Due(t)
    \/ \E j \in Jobs : TileCallbacks(j)

(* A promise that is resolved goes on, and a timer fires.                  *)
TilesFairness == \A j \in Jobs : WF_tilesVars(GoOn(j)) /\ WF_tilesVars(Watchdog(j))

TilesSpec == TilesInit /\ [][TilesNext]_tilesVars
TilesFairSpec == TilesSpec /\ TilesFairness

-----------------------------------------------------------------------------
(* Nobody waits while a decoder is free, although slots are given back by  *)
(* captures, sessions and clean-ups that overtake each other.              *)
WaitsOnlyWhenFull == waiting # << >> => Cardinality(active) >= MaxConcurrent

(* What plays under the pointer has a slot of its own, so that other tiles *)
(* count its decoder.                                                      *)
SessionHoldsSlot ==
    /\ \A j \in Jobs : job[j].kind = "hover" /\ job[j].source => j \in active
    /\ \A t \in Tiles : tile[t].live => \E j \in Under(t, "hover") : job[j].source

(* A tile keeps one still at a time, and none once it is gone: a capture   *)
(* that comes in late makes no object URL that nobody revokes.             *)
StillsAreRevoked ==
    \A t \in Tiles : blobs[t] = IF tile[t].mounted /\ tile[t].snapshot THEN 1 ELSE 0

(* A session the pointer has left keeps no slot, except one that was       *)
(* granted after it left and that it gives back when it goes on.           *)
SessionsLetGo ==
    \A j \in Jobs : job[j].kind = "hover" /\ job[j].cancelled /\ j \in active => Granted(j)

(* LivePreviewTile.tsx:54 "Hard cap on concurrently-playing tile streams": *)
(* a clean-up that runs twice lets in two who wait for the one that left.  *)
HardCap == Cardinality(active) <= MaxConcurrent

(* LivePreviewTile.tsx:157 "doesn't hold our concurrency slot forever": the *)
(* watchdog and the callbacks of a cancelled capture do not clean up.      *)
CapturesLetGo ==
    \A j \in Jobs : (job[j].kind = "capture" /\ j \in active) ~> (j \notin active)
=============================================================================
