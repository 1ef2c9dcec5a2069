-------------------------- MODULE RecordingLeases --------------------------
(***************************************************************************)
(* Which worker records which channel.                                     *)
(*                                                                         *)
(* The DVR scheduler adds channels to the Redis set dvr:recordable.  Every *)
(* recording worker wakes up every 5 s, walks that set, renews and acquires*)
(* leases (Redis keys with a time to live) and then starts and cancels its *)
(* per-channel recorders to match.  A refresh is a sequence of Redis       *)
(* commands, each of which is one step here, so the refreshes of different *)
(* workers, the expiry of leases and the crash of a worker interleave.     *)
(*                                                                         *)
(* services/recording/internal/recorder/leases.go, recorder.go (Run),      *)
(* services/dvr/internal/dvr/scheduler.go (promoteScheduled).              *)
(***************************************************************************)
EXTENDS Integers, FiniteSets

CONSTANTS
    Workers,      \* recording worker processes
    Channels,     \* channels that may become recordable
    Origins,      \* the channels with an origin_url in their dvr:channel hash
    MaxChannels,  \* MAX_CHANNELS of every worker
    LeaseTTL,     \* the lease's time to live, in clock ticks
    MaxLeaseFaults, \* bound on crashes and Redis errors
    NoWorker      \* the owner of an absent lease

ASSUME LeaseAssumption ==
    /\ NoWorker \notin Workers
    /\ IsFiniteSet(Workers) /\ IsFiniteSet(Channels)
    /\ Origins \subseteq Channels
    /\ MaxChannels \in Nat /\ LeaseTTL \in Nat \ {0} /\ MaxLeaseFaults \in Nat

VARIABLES
    recordable,  \* the Redis set dvr:recordable
    lease,       \* the Redis keys dvr:lease:{channel}; ttl = 0 is an absent key
    up,          \* the workers that run
    phase,       \* what Run of a worker is doing: asleep or in a refresh
    toRenew,     \* candidates the renewal loop has not reached
    toAcquire,   \* candidates the acquisition loop has not reached
    held,        \* the refresh's slice of leases it believes it holds
    recording,   \* the channels with a running recorder: the keys of cancellers
    claim,       \* history: ticks left of the worker's last successful SET
    leaseFaults  \* crashes and Redis errors so far

leaseVars == <<recordable, lease, up, phase, toRenew, toAcquire, held,
               recording, claim, leaseFaults>>
workerVars == <<up, phase, toRenew, toAcquire, held, recording>>

Lease == [owner : Workers \cup {NoWorker}, ttl : 0 .. LeaseTTL]
Absent == [owner |-> NoWorker, ttl |-> 0]

LeaseTypeOK ==
    /\ recordable \subseteq Channels
    /\ lease \in [Channels -> Lease]
    /\ up \subseteq Workers
    /\ phase \in [Workers -> {"asleep", "refreshing"}]
    /\ toRenew \in [Workers -> SUBSET Channels]
    /\ toAcquire \in [Workers -> SUBSET Channels]
    /\ held \in [Workers -> SUBSET Channels]
    /\ recording \in [Workers -> SUBSET Channels]
    /\ claim \in [Workers -> [Channels -> 0 .. LeaseTTL]]
    /\ leaseFaults \in 0 .. MaxLeaseFaults

LeaseInit ==
    /\ recordable = {}
    /\ lease = [c \in Channels |-> Absent]
    /\ up = Workers
    /\ phase = [w \in Workers |-> "asleep"]
    /\ toRenew = [w \in Workers |-> {}]
    /\ toAcquire = [w \in Workers |-> {}]
    /\ held = [w \in Workers |-> {}]
    /\ recording = [w \in Workers |-> {}]
    /\ claim = [w \in Workers |-> [c \in Channels |-> 0]]
    /\ leaseFaults = 0

---------------------------------------------------------------------------
(* The scheduler of the dvr service.                                       *)

\* A pass of the scheduler finds a scheduled recording whose start has passed
\* and SADDs its channel.  An SADD that fails is made up by a later pass, for
\* the row stays 'scheduled'; nothing ever SREMs a channel.
PromoteScheduled(c) ==
    /\ recordable' = recordable \cup {c}
    /\ UNCHANGED <<lease, workerVars, claim, leaseFaults>>

---------------------------------------------------------------------------
(* Redis.                                                                  *)

Live(c) == lease[c].ttl > 0

\* Mutants of SetLease: SET KEEPTTL leaves a renewed lease its old time to live,
\* SET without EX makes it permanent (Redis reports a TTL of -1).
SetLeaseKeepsTTL(w, c) ==
    lease' = [lease EXCEPT ![c] =
                [owner |-> w, ttl |-> IF Live(c) THEN @.ttl ELSE LeaseTTL]]
SetLeaseForever(w, c) == lease' = [lease EXCEPT ![c] = [owner |-> w, ttl |-> -1]]

\* SET key worker EX ttl.
SetLease(w, c) == lease' = [lease EXCEPT ![c] = [owner |-> w, ttl |-> LeaseTTL]]

\* An answered SET is what entitles the worker to the lease for a full TTL.
Claim(w, c) == claim' = [claim EXCEPT ![w][c] = LeaseTTL]

Decrement(n) == IF n > 0 THEN n - 1 ELSE 0

\* Time passes for the leases, whatever the workers are doing.
LeaseTick ==
    /\ \E c \in Channels : Live(c)
    /\ lease' = [c \in Channels |->
                   IF lease[c].ttl > 1 THEN [lease[c] EXCEPT !.ttl = @ - 1]
                                       ELSE Absent]
    /\ claim' = [w \in Workers |-> [c \in Channels |-> Decrement(claim[w][c])]]
    /\ UNCHANGED <<recordable, workerVars, leaseFaults>>

---------------------------------------------------------------------------
(* LeaseManager.Refresh, one Redis command at a time.                      *)

\* SMEMBERS answers and fixes the candidates of both loops.  (When it fails
\* Run only waits for the next tick, which changes nothing.)
StartRefresh(w) ==
    /\ w \in up /\ phase[w] = "asleep"
    /\ phase' = [phase EXCEPT ![w] = "refreshing"]
    /\ toRenew' = [toRenew EXCEPT ![w] = recordable]
    /\ toAcquire' = [toAcquire EXCEPT ![w] = recordable]
    /\ held' = [held EXCEPT ![w] = {}]
    /\ UNCHANGED <<recordable, lease, up, recording, claim, leaseFaults>>

\* SET XX: it renews the lease when the key exists, whoever set it.
RenewOne(w, c) ==
    /\ w \in up /\ c \in toRenew[w]
    /\ toRenew' = [toRenew EXCEPT ![w] = @ \ {c}]
    /\ IF Live(c)
       THEN /\ SetLease(w, c) /\ Claim(w, c)
            /\ held' = [held EXCEPT ![w] = @ \cup {c}]
       ELSE UNCHANGED <<lease, claim, held>>
    /\ UNCHANGED <<recordable, up, phase, toAcquire, recording, leaseFaults>>

\* Mutants of Headroom: off by one, either way.
HeadroomOneOver(w) == Cardinality(held[w]) <= MaxChannels
HeadroomOneSpare(w) == Cardinality(held[w]) + 1 < MaxChannels

Headroom(w) == Cardinality(held[w]) < MaxChannels

Acquiring(w) == w \in up /\ phase[w] = "refreshing" /\ toRenew[w] = {}

\* SET NX on a candidate that is not held yet, while there is headroom.
AcquireOne(w, c) ==
    /\ Acquiring(w) /\ Headroom(w)
    /\ c \in toAcquire[w] \ held[w]
    /\ toAcquire' = [toAcquire EXCEPT ![w] = @ \ {c}]
    /\ IF Live(c)
       THEN UNCHANGED <<lease, claim, held>>
       ELSE /\ SetLease(w, c) /\ Claim(w, c)
            /\ held' = [held EXCEPT ![w] = @ \cup {c}]
    /\ UNCHANGED <<recordable, up, phase, toRenew, recording, leaseFaults>>

\* A renewal or an acquisition whose answer is an error: the command may or
\* may not have reached Redis, and the worker counts the lease as not held.
SetFails(w, c) ==
    /\ w \in up /\ leaseFaults < MaxLeaseFaults
    /\ \/ /\ c \in toRenew[w]
          /\ toRenew' = [toRenew EXCEPT ![w] = @ \ {c}]
          /\ UNCHANGED toAcquire
          /\ UNCHANGED lease \/ (Live(c) /\ SetLease(w, c))
       \/ /\ Acquiring(w) /\ Headroom(w) /\ c \in toAcquire[w] \ held[w]
          /\ toAcquire' = [toAcquire EXCEPT ![w] = @ \ {c}]
          /\ UNCHANGED toRenew
          /\ UNCHANGED lease \/ (~Live(c) /\ SetLease(w, c))
    /\ leaseFaults' = leaseFaults + 1
    /\ UNCHANGED <<recordable, up, phase, held, recording, claim>>

\* The origin of every held lease is looked up, the channels without one are
\* dropped, and Run spawns and cancels recorders to match what is left.
FinishRefresh(w, unanswered) ==
    /\ Acquiring(w)
    /\ ~Headroom(w) \/ toAcquire[w] \subseteq held[w]
    /\ unanswered = {} \/ leaseFaults < MaxLeaseFaults
    /\ leaseFaults' = IF unanswered = {} THEN leaseFaults ELSE leaseFaults + 1
    /\ recording' = [recording EXCEPT ![w] = (held[w] \cap Origins) \ unanswered]
    /\ phase' = [phase EXCEPT ![w] = "asleep"]
    /\ toAcquire' = [toAcquire EXCEPT ![w] = {}]
    /\ held' = [held EXCEPT ![w] = {}]
    /\ UNCHANGED <<recordable, lease, up, toRenew, claim>>

---------------------------------------------------------------------------
(* The worker's process.  Stopping one releases no lease: a shutdown and a *)
(* crash are the same step.                                                *)

Crash(w) ==
    /\ w \in up /\ leaseFaults < MaxLeaseFaults
    /\ up' = up \ {w}
    /\ phase' = [phase EXCEPT ![w] = "asleep"]
    /\ toRenew' = [toRenew EXCEPT ![w] = {}]
    /\ toAcquire' = [toAcquire EXCEPT ![w] = {}]
    /\ held' = [held EXCEPT ![w] = {}]
    /\ recording' = [recording EXCEPT ![w] = {}]
    /\ claim' = [claim EXCEPT ![w] = [c \in Channels |-> 0]]
    /\ leaseFaults' = leaseFaults + 1
    /\ UNCHANGED <<recordable, lease>>

Restart(w) ==
    /\ w \notin up
    /\ up' = up \cup {w}
    /\ UNCHANGED <<recordable, lease, phase, toRenew, toAcquire, held,
                   recording, claim, leaseFaults>>

WorkerStep(w) ==
    \/ StartRefresh(w)
    \/ \E c \in Channels : RenewOne(w, c) \/ AcquireOne(w, c)
    \/ FinishRefresh(w, {})

LeaseNext ==
    \/ \E c \in Channels : PromoteScheduled(c)
    \/ LeaseTick
    \/ \E w \in Workers : StartRefresh(w)
    \/ \E w \in Workers, c \in Channels : RenewOne(w, c)
    \/ \E w \in Workers, c \in Channels : AcquireOne(w, c)
    \/ \E w \in Workers, c \in Channels : SetFails(w, c)
    \/ \E w \in Workers, unanswered \in SUBSET Channels : FinishRefresh(w, unanswered)
    \/ \E w \in Workers : Crash(w)
    \/ \E w \in Workers : Restart(w)

LeaseSpec == LeaseInit /\ [][LeaseNext]_leaseVars

\* A running worker's loop goes on, and Kubernetes restarts a dead worker.
LeaseFairSpec ==
    /\ LeaseSpec
    /\ \A w \in Workers : WF_leaseVars(WorkerStep(w)) /\ WF_leaseVars(Restart(w))

---------------------------------------------------------------------------
(* What the leases guarantee.                                              *)

\* The channels some worker is recording.
Recorded == UNION {recording[w] : w \in Workers}

\* leases.go promises that "each channel has *exactly one* recorder at any
\* moment".  The renewal loop breaks it: SET XX succeeds on a lease another
\* worker holds, so both go on recording the channel.
ExactlyOneRecorder ==
    \A c \in Channels : Cardinality({w \in Workers : c \in recording[w]}) <= 1

\* A lease outlives every worker's right to rely on it: for a full TTL after a
\* worker's SET on a channel was answered, whatever other workers renew, crash
\* or acquire, the key exists, so no SET NX of another worker takes it.
ClaimIsLeased ==
    \A w \in Workers, c \in Channels :
        claim[w][c] > 0 => lease[c].ttl >= claim[w][c]

\* MAX_CHANNELS does not bound a worker, which holds whatever it renews, but it
\* does bound the fleet: a refresh acquires only with headroom left by every
\* lease that its own renewal loop found, so the live leases never outnumber
\* the workers' slots by more than the faults that made a renewal go missing.
FleetLeaseBound ==
    Cardinality({c \in Channels : Live(c)})
        <= MaxChannels * Cardinality(Workers) + leaseFaults

\* However often workers crash and Redis fails (finitely often), one worker's
\* worth of the recordable channels ends up recorded again.
CapacityIsUsed ==
    \A n \in 1 .. MaxChannels :
        Cardinality(recordable) >= n ~> Cardinality(Recorded) >= n
=============================================================================
