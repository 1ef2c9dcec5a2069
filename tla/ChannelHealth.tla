---------------------------- MODULE ChannelHealth -----------------------------
(***************************************************************************)
(* Which channels of a playlist are hidden because they seem dead.         *)
(*                                                                         *)
(* Three sources report to one record per channel in localStorage: the     *)
(* player; a sweep that asks the server about a few slices of the playlist *)
(* each minute and moves a cursor on; and a recheck of hidden channels,    *)
(* which asks for the manifest only.  Answers arrive while the others run. *)
(*                                                                         *)
(* apps/web/src/lib/channelHealth.ts, app/api/stream/probe/route.ts,       *)
(* and their callers in app/tv/live/page.tsx and PlayerSurface.tsx.        *)
(***************************************************************************)
EXTENDS Integers, FiniteSets

CONSTANTS
    N,               \* channels of the playlist, by position
    NoUrl,           \* those without a stream URL
    Upstreams,       \* what a channel's provider may serve
    Good,            \* the upstream every channel starts with, or one of Bad
    MaxBad,          \* bound: channels that are not Good at once
    Batch,           \* SWEEP_BATCH
    Sure,            \* channels of a batch the probe always gets to: its CONCURRENCY
    Parallel,        \* SWEEP_PARALLEL
    Rounds,          \* SWEEP_ROUNDS_PER_TICK
    RateFrom,        \* the least batch whose failure rate says something (5)
    FailThreshold,   \* FAIL_THRESHOLD
    ProbeThreshold,  \* PROBE_FAIL_THRESHOLD
    MaxHealthActs,   \* bound: playbacks, restores, rechecks, changes of an upstream
    MaxHealthFaults  \* bound: probe requests that fail or run out of time

Channels == 0 .. N - 1
Outcome == {"ok", "refused", "unknown", "junk"}
(* Of the manifest, of the variant a master playlist names, of a segment   *)
(* (which may be refused to a ranged request only); whether this browser   *)
(* decodes it.                                                             *)
Upstream == [manifest : Outcome, variant : Outcome \cup {"none"},
             segment : {"ok", "refused", "unknown", "unranged"}, decodes : BOOLEAN]

ASSUME HealthAssumption ==
    /\ N \in Nat \ {0} /\ NoUrl \subseteq Channels
    /\ Upstreams \subseteq Upstream /\ Good \in Upstreams
    /\ Batch \in 1 .. N /\ Sure \in 1 .. Batch /\ Parallel \in Nat \ {0} /\ Rounds \in Nat \ {0}
    /\ RateFrom \in Nat \ {0}
    /\ ProbeThreshold \in Nat \ {0} /\ FailThreshold \in Nat \ {0}
    /\ MaxBad \in Nat /\ MaxHealthActs \in Nat /\ MaxHealthFaults \in Nat

VARIABLES
    upstream,   \* what each channel's provider serves now
    store,      \* channelHealth: the records
    cursor,     \* channelHealth.sweepCursor
    sweep,      \* the sweep under way
    recheck,    \* hidden channels probeHidden has yet to hear of
    healthActs, healthFaults

budgets == <<healthActs, healthFaults>>
healthVars == <<upstream, store, cursor, sweep, recheck, budgets>>

(* A count past its threshold says no more than the threshold.             *)
Least(a, b) == IF a < b THEN a ELSE b
Record == [fails : 0 .. ProbeThreshold, playFails : 0 .. FailThreshold, unplayable : BOOLEAN]
NoRecord == [fails |-> 0, playFails |-> 0, unplayable |-> FALSE]
Verdict == {"yes", "no", "null"}
Idle == [step |-> "idle"]

HealthTypeOK ==
    /\ upstream \in [Channels -> Upstreams]
    /\ store \in [Channels -> Record]
    /\ cursor \in Channels
    /\ \/ sweep = Idle
       \/ /\ sweep.step = "asking"
          /\ sweep.left \in 1 .. Rounds
          /\ sweep.at \in Channels
          /\ sweep.waiting \subseteq DOMAIN sweep.slices
          /\ \A i \in DOMAIN sweep.slices : sweep.heard[i] \in [sweep.slices[i] -> Verdict]
    /\ recheck \subseteq Channels
    /\ healthActs \in 0 .. MaxHealthActs /\ healthFaults \in 0 .. MaxHealthFaults

HealthAct == healthActs < MaxHealthActs /\ healthActs' = healthActs + 1

FewBad(up) == Cardinality({c \in Channels : up[c] # Good}) <= MaxBad

HealthInit ==
    /\ upstream \in [Channels -> Upstreams] /\ FewBad(upstream)
    /\ \A c \in NoUrl : upstream[c] = Good
    /\ store = [c \in Channels |-> NoRecord]
    /\ cursor = 0
    /\ sweep = Idle
    /\ recheck = {}
    /\ healthActs = 0 /\ healthFaults = 0

----------------------------------------------------------------------------
(* The records.                                                            *)

(* Any success forgets every failure the probes and the player counted.    *)
ReportOkFolded(rec, source) ==
    [NoRecord EXCEPT !.unplayable = source = "probe" /\ rec.unplayable]

(* A probe clears what probes recorded, playback everything.  A record     *)
(* with nothing to forget is not written, nor is an unplayable one for a   *)
(* probe.                                                                  *)
ReportOk(rec, source) ==
    LET playFails == IF source = "playback" THEN 0 ELSE rec.playFails
    IN  IF source = "probe" /\ rec.unplayable THEN rec
        ELSE IF rec.fails = 0 /\ rec.playFails = playFails THEN rec
        ELSE [fails |-> 0, playFails |-> playFails,
              unplayable |-> source # "playback" /\ rec.unplayable]

(* A permanent failure of the player counts as enough of them.             *)
ReportFail(rec, source, permanent) ==
    IF source = "probe"
    THEN [rec EXCEPT !.fails = Least(@ + 1, ProbeThreshold)]
    ELSE [rec EXCEPT !.playFails = Least(@ + (IF permanent THEN FailThreshold ELSE 1), FailThreshold),
                     !.unplayable = @ \/ permanent]

IsHiddenRecord(rec) ==
    rec.unplayable \/ rec.fails >= ProbeThreshold \/ rec.playFails >= FailThreshold

HiddenIds == {c \in Channels : IsHiddenRecord(store[c])}

----------------------------------------------------------------------------
(* The server's verdict on one channel: manifest, variant, segment.        *)

ProbeOne(u) ==
    LET of(outcome, onward) == CASE outcome = "unknown" -> {"null"}
                                 [] outcome \in {"refused", "junk"} -> {"no"}
                                 [] OTHER -> onward
        segment == CASE u.segment = "ok" -> {"yes"}
                     [] u.segment = "unknown" -> {"null"}
                     [] u.segment = "refused" -> {"no"}
                     \* asked again without the range, if the budget lasts
                     [] u.segment = "unranged" -> {"yes", "no"}
    IN  of(u.manifest, IF u.variant = "none" THEN segment ELSE of(u.variant, segment))

(* The browser's own probe, of the manifest alone.                         *)
ManifestServed(u) == u.manifest = "ok"

----------------------------------------------------------------------------
(* The sweep.                                                              *)

(* Slice k of a round that starts at cursor c, without the URL-less ones.  *)
Slice(c, k) == {(c + k * Batch + i) % N : i \in 0 .. Batch - 1} \ NoUrl
(* An empty slice is not kept, and the next one starts where it did.       *)
Slices(c) ==
    [i \in {i \in 1 .. Parallel : \A k \in 1 .. i : Slice(c, k - 1) # {}} |-> Slice(c, i - 1)]

Ask(c, left) ==
    IF DOMAIN Slices(c) = {} THEN Idle
    ELSE [step |-> "asking", left |-> left, at |-> c, slices |-> Slices(c),
          waiting |-> DOMAIN Slices(c),
          heard |-> [i \in DOMAIN Slices(c) |-> [d \in Slices(c)[i] |-> "null"]]]

(* runSweep: one at a time; a third of the rounds while watching.          *)
SweepStarts ==
    /\ sweep = Idle
    /\ \E rounds \in {1, Rounds} : sweep' = Ask(cursor, rounds)
    /\ UNCHANGED <<upstream, store, cursor, recheck, budgets>>

(* What the subrequests of one call last for: MAX_SUBREQUESTS is 42, a     *)
(* channel is begun while 12 are left and takes from 4 to 16, so that of   *)
(* 12 channels the first 4 to 8 are begun.                                 *)
Offset(i, c) == (c - sweep.at - (i - 1) * Batch) % N
Covered(i) ==
    {first \in SUBSET sweep.slices[i] :
       /\ Cardinality(first) >= Least(Sure, Cardinality(sweep.slices[i]))
       /\ \A c \in first, d \in sweep.slices[i] : Offset(i, d) < Offset(i, c) => d \in first}

(* One probe request is answered: no verdict on the rest of the slice.     *)
ProbeBatch(i) ==
    /\ sweep # Idle /\ i \in sweep.waiting
    /\ \E heard \in [sweep.slices[i] -> Verdict], first \in Covered(i) :
         /\ \A c \in first : heard[c] \in ProbeOne(upstream[c])
         /\ \A c \in sweep.slices[i] \ first : heard[c] = "null"
         /\ sweep' = [sweep EXCEPT !.heard[i] = heard, !.waiting = @ \ {i}]
    /\ UNCHANGED <<upstream, store, cursor, recheck, budgets>>

(* The request fails, or some channels take longer than their deadline and *)
(* have no verdict.                                                        *)
ProbeBatchCut(i) ==
    /\ healthFaults < MaxHealthFaults /\ healthFaults' = healthFaults + 1
    /\ sweep # Idle /\ i \in sweep.waiting
    /\ \E heard \in [sweep.slices[i] -> Verdict] :
         /\ \A c \in sweep.slices[i] : heard[c] \in ProbeOne(upstream[c]) \cup {"null"}
         /\ sweep' = [sweep EXCEPT !.heard[i] = heard, !.waiting = @ \ {i}]
    /\ UNCHANGED <<upstream, store, cursor, recheck, healthActs>>

Answered(heard) == {c \in DOMAIN heard : heard[c] # "null"}
Bad(heard) == {c \in DOMAIN heard : heard[c] = "no"}

(* Nothing was learnt, or so much failed that it says more about us.       *)
Discarded(heard) ==
    LET n == Cardinality(Answered(heard))
    IN  n = 0 \/ (n >= RateFrom /\ 10 * Cardinality(Bad(heard)) >= 8 * n)

(* The cursor steps over the whole slice, undecided channels included.     *)
Advance(heard) == IF Discarded(heard) THEN 0 ELSE Cardinality(DOMAIN heard)

CursorAtEnd(at, advanced) == IF at + advanced < N THEN at + advanced ELSE at
CursorAfter(at, advanced) == (at + advanced) % N

Recorded(rec, answer) ==
    CASE answer = "yes" -> ReportOk(rec, "probe")
      [] answer = "no" -> ReportFail(rec, "probe", FALSE)
      [] answer = "null" -> rec

Total(f) ==
    LET upTo[i \in 0 .. Parallel] ==
          IF i = 0 THEN 0 ELSE upTo[i - 1] + (IF i \in DOMAIN f THEN f[i] ELSE 0)
    IN  upTo[Parallel]

(* The verdicts on a slice, unless they are discarded.                     *)
Noted(records, heard) ==
    [c \in Channels |->
       IF c \in DOMAIN heard /\ ~Discarded(heard)
       THEN Recorded(records[c], heard[c]) ELSE records[c]]

NotedInTurn(heard) ==
    LET after[i \in 0 .. Parallel] ==
          IF i = 0 THEN store
          ELSE IF i \in DOMAIN heard THEN Noted(after[i - 1], heard[i]) ELSE after[i - 1]
    IN  after[Parallel]

(* All slices were heard of: their verdicts are recorded in turn, and the  *)
(* cursor moves by the sum of the slices that count.                       *)
SweepRecords ==
    /\ sweep # Idle /\ sweep.waiting = {}
    /\ store' = NotedInTurn(sweep.heard)
    /\ LET advanced == Total([i \in DOMAIN sweep.heard |-> Advance(sweep.heard[i])])
           next == CursorAfter(sweep.at, advanced)
       IN  /\ cursor' = IF advanced = 0 THEN cursor ELSE next
           /\ sweep' = IF advanced = 0 \/ sweep.left = 1 THEN Idle ELSE Ask(next, sweep.left - 1)
    /\ UNCHANGED <<upstream, recheck, budgets>>

----------------------------------------------------------------------------
(* probeHidden, when the page mounts or by "Recheck now", which skips the   *)
(* cooldown.                                                               *)

RecheckStarts ==
    /\ HealthAct
    /\ recheck = {}
    /\ recheck' = HiddenIds \ NoUrl
    /\ UNCHANGED <<upstream, store, cursor, sweep, healthFaults>>

RecheckHears(c) ==
    /\ c \in recheck
    /\ recheck' = recheck \ {c}
    /\ store' = IF ManifestServed(upstream[c]) THEN [store EXCEPT ![c] = NoRecord] ELSE store
    /\ UNCHANGED <<upstream, cursor, sweep, budgets>>

----------------------------------------------------------------------------
(* The player and the user.                                                *)

(* Frames on screen, or every URL failed; for good if it cannot decode it. *)
Plays(c) ==
    /\ HealthAct
    /\ c \notin NoUrl
    /\ LET u == upstream[c]
           serves == u.manifest = "ok" /\ u.variant \in {"none", "ok"}
                     /\ u.segment \in {"ok", "unranged"}
       IN  store' = [store EXCEPT ![c] =
             IF serves /\ u.decodes THEN ReportOk(@, "playback")
             ELSE ReportFail(@, "playback", serves)]
    /\ UNCHANGED <<upstream, cursor, sweep, recheck, healthFaults>>

(* restore, or a record older than RECORD_TTL_MS dropped by a read.        *)
Restore(c) ==
    /\ HealthAct
    /\ store[c] # NoRecord
    /\ store' = [store EXCEPT ![c] = NoRecord]
    /\ UNCHANGED <<upstream, cursor, sweep, recheck, healthFaults>>

RestoreAll ==
    /\ HealthAct
    /\ store' = [c \in Channels |-> NoRecord]
    /\ UNCHANGED <<upstream, cursor, sweep, recheck, healthFaults>>

(* A provider fixes or breaks a channel.                                   *)
Changes(c) ==
    /\ HealthAct
    /\ c \notin NoUrl
    /\ \E u \in Upstreams \ {upstream[c]} : upstream' = [upstream EXCEPT ![c] = u]
    /\ FewBad(upstream')
    /\ UNCHANGED <<store, cursor, sweep, recheck, healthFaults>>

HealthNext ==
    \/ SweepStarts
    \/ \E i \in 1 .. Parallel : ProbeBatch(i) \/ ProbeBatchCut(i)
    \/ SweepRecords
    \/ RecheckStarts
    \/ \E c \in Channels : RecheckHears(c) \/ Plays(c) \/ Restore(c) \/ Changes(c)
    \/ RestoreAll

HealthSpec == HealthInit /\ [][HealthNext]_healthVars

(* Answers that are all there are recorded: no await comes in between.     *)
HealthFairSpec == HealthSpec /\ WF_healthVars(SweepRecords)

----------------------------------------------------------------------------
(* An unplayable channel has failures of the player on record too.  That   *)
(* is what makes the early return of reportOk sound, which looks at the    *)
(* counters and not at the flag.                                           *)
UnplayableIsCounted ==
    \A c \in Channels : store[c].unplayable => store[c].playFails >= FailThreshold

(* What the player learnt outlives the sweep: "a probe success is the      *)
(* weaker claim and only clears what probes recorded"                      *)
(* (channelHealth.ts:110).                                                 *)
SweepKeepsPlayback ==
    [][sweep # Idle /\ sweep' # sweep =>
         \A c \in Channels : /\ store'[c].playFails = store[c].playFails
                             /\ store'[c].unplayable = store[c].unplayable]_healthVars

(* "A rolling slice still reaches every channel" (channelHealth.ts:371),   *)
(* as far as the cursor goes: as long as slices that count keep coming, no *)
(* channel stays outside the slices for ever, whichever of them are        *)
(* discarded and wherever the playlist wraps.  That a slice has a channel  *)
(* does not mean that the probe gets to it.                                *)
Asked(c) == sweep # Idle /\ \E i \in DOMAIN sweep.slices : c \in sweep.slices[i]
Counted ==
    /\ sweep # Idle /\ sweep.waiting = {}
    /\ \E i \in DOMAIN sweep.heard : ~Discarded(sweep.heard[i])
SweepComesRound == []<>Counted => \A c \in Channels \ NoUrl : []<>Asked(c)

(* "A budget-truncated response is retried next tick instead of being      *)
(* silently skipped forever" (channelHealth.ts:553): a channel that always *)
(* answers has a verdict again and again.                                  *)
Judged(c) == Asked(c) /\ \E i \in DOMAIN sweep.slices :
               c \in sweep.slices[i] /\ sweep.heard[i][c] # "null"
TruncatedAreRetried ==
    \A c \in Channels \ NoUrl :
      []<>Counted /\ <>[](upstream[c] = Good) => []<>Judged(c)
=============================================================================
