------------------------- MODULE FailoverSupervisor -------------------------
(***************************************************************************)
(* The AI playback supervisor and the telemetry that drives it, on top of  *)
(* the proxy.                                                              *)
(*                                                                         *)
(* Every sample bumps the ticket's counters in Redis and publishes the     *)
(* ticket's id.  The supervisor takes the ids one by one; an evaluation is *)
(* a sequence of remote calls (read the counters, read the ticket, ask for *)
(* an alternative stream, swap the origin, count the failure), between     *)
(* which tickets expire, samples arrive and the supervisor crashes.        *)
(*                                                                         *)
(* services/ai-playback/internal/supervisor/supervisor.go,                 *)
(* services/playback/internal/playback/abr.go.                             *)
(***************************************************************************)
EXTENDS PlaybackProxy

CONSTANTS
    MinSamples,   \* the samples an evaluation needs: 3
    DemoteAfter,  \* the failures that demote a stream: 5
    Inbox,        \* notifications of a ticket that the subscription buffers
    MaxSamples,   \* bound: the samples of a ticket that are counted
    MaxFaults     \* bound: lost notifications, failed calls and crashes

ASSUME SupervisorAssumption ==
    /\ MinSamples \in Nat /\ DemoteAfter \in Nat \ {0} /\ Inbox \in Nat \ {0}
    /\ MaxSamples \in Nat /\ MaxFaults \in Nat

VARIABLES
    qoe,       \* the Redis hash play:qoe:{id}
    inbox,     \* the notifications of a ticket not yet taken
    task,      \* the evaluation under way
    fails,     \* Supervisor.failures: the fails of a stream
    recent,    \* the streams whose lastFailAt is at most 5 minutes ago
    degraded,  \* streams demoted with MarkStreamDegraded
    faults     \* faults so far

supervisorVars == <<task, fails, recent, degraded>>
behindProxy == <<supervisorVars, qoe, inbox, faults>>
vars == <<proxyVars, behindProxy>>

Bitrates == {0, 300, 3000}  \* kbit/s: not reported, poor and good
Counters == [samples : 0 .. MaxSamples, rebuffers : 0 .. MaxSamples, bitrate : Bitrates]

Idle == [step |-> "idle"]
Task ==
    {Idle}
    \cup [step : {"read"}, ticket : Tickets]
    \cup [step : {"resolve", "record"}, ticket : Tickets,
          stream : Streams \cup {NoStream}]
    \cup [step : {"swap"}, ticket : Tickets, stream : Streams, alt : Streams]

TypeOK ==
    /\ ProxyTypeOK
    /\ qoe \in [Tickets -> Counters]
    /\ inbox \in [Tickets -> 0 .. Inbox]
    /\ task \in Task
    /\ fails \in [Streams -> 0 .. DemoteAfter]
    /\ recent \subseteq Streams
    /\ degraded \subseteq Streams
    /\ faults \in 0 .. MaxFaults

Init ==
    /\ ProxyInit
    /\ qoe = [t \in Tickets |-> [samples |-> 0, rebuffers |-> 0, bitrate |-> 0]]
    /\ inbox = [t \in Tickets |-> 0]
    /\ task = Idle
    /\ fails = [s \in Streams |-> 0]
    /\ recent = {}
    /\ degraded = {}
    /\ faults = 0

---------------------------------------------------------------------------
(* Telemetry.                                                              *)

Capped(n, cap) == IF n < cap THEN n ELSE cap

\* ABRSteering.Observe: a sample with r rebuffers and, if b > 0, a bitrate.
\* The notification is dropped when the subscription's buffer is full.  At the
\* bound the counters stay, and samples still notify.
Observe(t, r, b) ==
    /\ token[t] = "valid"
    /\ qoe' = IF qoe[t].samples = MaxSamples
              THEN qoe
              ELSE [qoe EXCEPT ![t] = [samples |-> @.samples + 1,
                                       rebuffers |-> @.rebuffers + r,
                                       bitrate |-> IF b > 0 THEN b ELSE @.bitrate]]
    /\ inbox' = [inbox EXCEPT ![t] = Capped(@ + 1, Inbox)]
    /\ UNCHANGED <<proxyVars, supervisorVars, faults>>

\* Pub/sub delivers at most once.
Lose(t) ==
    /\ inbox[t] > 0 /\ faults < MaxFaults
    /\ inbox' = [inbox EXCEPT ![t] = @ - 1]
    /\ faults' = faults + 1
    /\ UNCHANGED <<proxyVars, supervisorVars, qoe>>

---------------------------------------------------------------------------
(* Supervisor.evaluate.                                                    *)

\* A mutant of Fails: the score has to exceed the threshold.
FailsAbove(q) ==
    LET deficit == IF q.bitrate \in 1 .. 1499 THEN 1500 - q.bitrate ELSE 0
    IN 1500 * q.rebuffers + deficit * q.samples > 1200 * q.samples

\* scoreSession >= failoverThreshold: half the rebuffers per sample plus half
\* the bitrate's relative deficit is 0.4 or more (multiplied out).
Fails(q) ==
    LET deficit == IF q.bitrate \in 1 .. 1499 THEN 1500 - q.bitrate ELSE 0
    IN 1500 * q.rebuffers + deficit * q.samples >= 1200 * q.samples

\* The next notification is taken and the ticket's counters are read.
Take(t) ==
    /\ task = Idle /\ inbox[t] > 0
    /\ inbox' = [inbox EXCEPT ![t] = @ - 1]
    /\ task' = IF qoe[t].samples >= MinSamples /\ Fails(qoe[t])
               THEN [step |-> "read", ticket |-> t]
               ELSE Idle
    /\ UNCHANGED <<proxyVars, fails, recent, degraded, qoe, faults>>

\* The ticket's hash is read: the stream it was issued for.
ReadTicket ==
    /\ task.step = "read"
    /\ task' = IF hash[task.ticket] = NoHash
               THEN Idle
               ELSE [step |-> "resolve", ticket |-> task.ticket,
                     stream |-> hash[task.ticket].stream]
    /\ UNCHANGED <<proxyVars, fails, recent, degraded, qoe, inbox, faults>>

\* What ResolveAltStream may answer (the service behind it is not in the
\* repository): a stream of the same channel other than the one named.
Alternatives(s) ==
    IF s = NoStream THEN {} ELSE {x \in Streams \ {s} : ChannelOf[x] = ChannelOf[s]}

\* A mutant of Resolve: a stream is asked for without naming the channel.
ResolveAnyChannel ==
    /\ task.step = "resolve"
    /\ \E s \in Streams \ {task.stream} :
          task' = [step |-> "swap", ticket |-> task.ticket,
                   stream |-> task.stream, alt |-> s]
    /\ UNCHANGED <<proxyVars, fails, recent, degraded, qoe, inbox, faults>>

\* A mutant of Resolve: an empty answer is taken for a stream.
ResolveUnchecked ==
    /\ task.step = "resolve"
    /\ \E s \in {NoStream} \cup Alternatives(task.stream) :
          task' = [step |-> "swap", ticket |-> task.ticket,
                   stream |-> task.stream, alt |-> s]
    /\ UNCHANGED <<proxyVars, fails, recent, degraded, qoe, inbox, faults>>

Resolve ==
    /\ task.step = "resolve"
    /\ \/ \E s \in Alternatives(task.stream) :
             task' = [step |-> "swap", ticket |-> task.ticket,
                      stream |-> task.stream, alt |-> s]
       \/ Alternatives(task.stream) = {} /\ task' = Idle
    /\ UNCHANGED <<proxyVars, fails, recent, degraded, qoe, inbox, faults>>

\* SwapOrigin: the ticket's stream_id stays what it was.
Swap ==
    /\ task.step = "swap"
    /\ SwapOrigin(task.ticket, task.alt)
    /\ task' = [step |-> "record", ticket |-> task.ticket, stream |-> task.stream]
    /\ UNCHANGED <<token, urls, playerVars, fails, recent, degraded, qoe, inbox, faults>>

\* recordFailure: in memory, and demoting the stream at the threshold.
RecordFailure ==
    /\ task.step = "record"
    /\ LET s == task.stream
           n == IF s \in recent THEN Capped(fails[s] + 1, DemoteAfter) ELSE 1
       IN /\ fails' = [fails EXCEPT ![s] = n]
          /\ recent' = recent \cup {s}
          /\ degraded' = IF n >= DemoteAfter THEN degraded \cup {s} ELSE degraded
    /\ task' = Idle
    /\ UNCHANGED <<proxyVars, qoe, inbox, faults>>

\* Five minutes pass without a failure of the stream.
QuietPeriod(s) ==
    /\ s \in recent
    /\ recent' = recent \ {s}
    /\ UNCHANGED <<proxyVars, task, fails, degraded, qoe, inbox, faults>>

\* A remote call of the evaluation fails; a failed swap may have been made.
CallFails ==
    /\ task.step \in {"read", "resolve", "swap"} /\ faults < MaxFaults
    /\ faults' = faults + 1
    /\ task' = Idle
    /\ \/ UNCHANGED hash
       \/ task.step = "swap" /\ SwapOrigin(task.ticket, task.alt)
    /\ UNCHANGED <<token, urls, playerVars, fails, recent, degraded, qoe, inbox>>

\* The supervisor restarts: its subscription and its tallies start anew.
Restart ==
    /\ faults < MaxFaults
    /\ faults' = faults + 1
    /\ task' = Idle
    /\ inbox' = [t \in Tickets |-> 0]
    /\ fails' = [s \in Streams |-> 0]
    /\ recent' = {}
    /\ UNCHANGED <<proxyVars, degraded, qoe>>

---------------------------------------------------------------------------
Next ==
    \/ \E t \in Tickets, s \in Streams : Issue(t, s) /\ UNCHANGED behindProxy
    \/ \E t \in Tickets : TokenExpires(t) /\ UNCHANGED behindProxy
    \/ \E t \in Tickets : HashExpires(t) /\ UNCHANGED behindProxy
    \/ \E t \in Tickets : \E path \in {Master} \cup offered[t] :
          Request(t, path) /\ UNCHANGED behindProxy
    \/ \E t \in Tickets : ServeManifest(t) /\ UNCHANGED behindProxy
    \/ \E t \in Tickets : EndRequest(t) /\ UNCHANGED behindProxy
    \/ \E t \in Tickets, r \in {0, 1}, b \in Bitrates : Observe(t, r, b)
    \/ \E t \in Tickets : Lose(t)
    \/ \E t \in Tickets : Take(t)
    \/ ReadTicket
    \/ Resolve
    \/ Swap
    \/ RecordFailure
    \/ \E s \in Streams : QuietPeriod(s)
    \/ CallFails
    \/ Restart

Spec == Init /\ [][Next]_vars

\* The supervisor's loop goes on, and takes the notifications in their order:
\* a ticket that is notified again and again is evaluated again and again.
FairSpec ==
    /\ Spec
    /\ WF_vars(ReadTicket) /\ WF_vars(Resolve) /\ WF_vars(Swap) /\ WF_vars(RecordFailure)
    /\ \A t \in Tickets : SF_vars(Take(t))

---------------------------------------------------------------------------
\* Whatever an evaluation read when, and however often it swaps: a ticket only
\* ever fetches from streams of the channel it was issued for.
FetchesStayOnChannel ==
    \A t \in Tickets :
        request[t] # NoRequest /\ hash[t].stream # NoStream =>
            ChannelOf[request[t].upstream.of] = ChannelOf[hash[t].stream]

\* "Any one signal at its extreme is enough to trip failover": a session whose
\* bitrate stays poor and whose samples keep coming leaves its stream for good,
\* whatever notifications, calls and supervisors are lost on the way (finitely
\* many), if its channel has another stream.
SlowSessionFailsOver ==
    \A t \in Tickets, s \in Streams :
        Alternatives(s) # {} =>
            (<>[](token[t] = "valid" /\ hash[t].stream = s /\ qoe[t].bitrate = 300)
                => (<>[](inbox[t] = 0) \/ <>[](hash[t].origin # s)))
=============================================================================
