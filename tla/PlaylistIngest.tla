--------------------------- MODULE PlaylistIngest ---------------------------
(***************************************************************************)
(* The refreshes of one playlist source.                                   *)
(*                                                                         *)
(* A refresh is a job: a parser sends the playlist's entries through a     *)
(* bounded channel to a consumer, which drops the URLs it has seen and     *)
(* writes the others in batches, each in a transaction of its own.  The    *)
(* two share a context that ends when one of them fails, when a newer      *)
(* refresh of the source begins, or at a deadline.  A job that got through *)
(* marks the source as refreshed and probes its streams in the background. *)
(*                                                                         *)
(* services/playlist-ingestion/internal/ingest: service.go, batcher.go,    *)
(* store.go; libs/go/pkg/m3u/parser.go (ParseInto).                        *)
(***************************************************************************)
EXTENDS Integers, Sequences, SequencesExt, FiniteSets

CONSTANTS
    Jobs,       \* refreshes
    NoJob,      \* no refresh has begun
    Channels,   \* channel ids
    URLs,
    Playlists,  \* the playlists the provider may serve: sequences of entries
    Buffer,     \* the capacity of the entries channel: 1024
    BatchRows,  \* the rows of a batch: 500
    MaxIngestFaults   \* bound: failed fetches, reads and statements

\* An entry of a playlist, and a row of the streams table by its unique key.
Stream == [channel : Channels, url : URLs]

ASSUME IngestAssumption ==
    /\ NoJob \notin Jobs
    /\ Playlists \subseteq Seq(Stream)
    /\ Buffer \in Nat \ {0} /\ BatchRows \in Nat \ {0} /\ MaxIngestFaults \in Nat

VARIABLES
    phase,      \* where a refresh is
    running,    \* Service.running: the refresh whose cancel function is held
    cancelled,  \* refreshes whose context was cancelled or timed out
    playlist,   \* the playlist a refresh has fetched
    parser,     \* ParseInto: at the next line, sending an entry, or ended
    unread,     \* the entries not yet sent
    entries,    \* the buffered channel
    consumer,   \* the consuming goroutine
    seen,       \* the URLs the consumer has come across
    buf,        \* batcher.buf
    catalogue,  \* the streams in the database: none, not probed yet or probed
    reported,   \* playlist_sources.channel_count
    probes,     \* streams listed for validation and not yet probed
    foreign,    \* history: refreshes that met a stream they did not add, or
                \* whose COPY failed
    ingestFaults      \* faults so far

jobVars == <<phase, running, cancelled>>
parseVars == <<playlist, parser, unread>>
consumeVars == <<consumer, seen, buf>>
storeVars == <<catalogue, reported, probes, foreign>>
ingestVars == <<jobVars, parseVars, entries, consumeVars, storeVars, ingestFaults>>

Ended == {"done", "failed"}
Health == {"absent", "unknown", "probed"}

IngestTypeOK ==
    /\ phase \in [Jobs -> {"none", "fetch", "run", "mark"} \cup Ended]
    /\ running \in Jobs \cup {NoJob}
    /\ cancelled \subseteq Jobs
    /\ playlist \in [Jobs -> Playlists \cup {<<>>}]
    /\ parser \in [Jobs -> {"line", "send"} \cup Ended]
    /\ \A j \in Jobs : IsSuffix(unread[j], playlist[j])
    /\ \A j \in Jobs : entries[j] \in BoundedSeq(Stream, Buffer)
    /\ consumer \in [Jobs -> {"select", "flush", "last"} \cup Ended]
    /\ seen \in [Jobs -> SUBSET URLs]
    /\ \A j \in Jobs : buf[j] \in BoundedSeq(Stream, BatchRows)
    /\ catalogue \in [Stream -> Health]
    /\ reported \in 0 .. Cardinality(URLs)
    /\ probes \in [Jobs -> SUBSET Stream]
    /\ foreign \subseteq Jobs
    /\ ingestFaults \in 0 .. MaxIngestFaults

IngestInit ==
    /\ phase = [j \in Jobs |-> "none"]
    /\ running = NoJob
    /\ cancelled = {}
    /\ playlist = [j \in Jobs |-> <<>>]
    /\ parser = [j \in Jobs |-> "line"]
    /\ unread = [j \in Jobs |-> <<>>]
    /\ entries = [j \in Jobs |-> <<>>]
    /\ consumer = [j \in Jobs |-> "select"]
    /\ seen = [j \in Jobs |-> {}]
    /\ buf = [j \in Jobs |-> <<>>]
    /\ catalogue = [s \in Stream |-> "absent"]
    /\ reported = 0
    /\ probes = [j \in Jobs |-> {}]
    /\ foreign = {}
    /\ ingestFaults = 0

Known == {s \in Stream : catalogue[s] # "absent"}

\* The errgroup's context is done.
Stopped(j) == j \in cancelled \/ "failed" \in {parser[j], consumer[j]}

---------------------------------------------------------------------------
(* A refresh begins, and is cancelled.                                     *)

\* Refresh: the refresh that began before is cancelled.  Its entry in running is
\* never deleted (the comparison of two local addresses is always false), so the
\* cancel function may be that of a refresh that has ended.
Refresh(j) ==
    /\ phase[j] = "none"
    /\ phase' = [phase EXCEPT ![j] = "fetch"]
    /\ running' = j
    /\ cancelled' = cancelled \cup ({running} \ {NoJob})
    /\ UNCHANGED <<parseVars, entries, consumeVars, storeVars, ingestFaults>>

\* The context's deadline of 30 minutes passes.
Deadline(j) ==
    /\ phase[j] \in {"fetch", "run", "mark"} /\ j \notin cancelled
    /\ cancelled' = cancelled \cup {j}
    /\ UNCHANGED <<phase, running, parseVars, entries, consumeVars, storeVars, ingestFaults>>

Fetch(j) ==
    /\ phase[j] = "fetch" /\ j \notin cancelled
    /\ \E p \in Playlists :
          /\ playlist' = [playlist EXCEPT ![j] = p]
          /\ unread' = [unread EXCEPT ![j] = p]
          /\ foreign' = IF Known \cap ToSet(p) # {} THEN foreign \cup {j} ELSE foreign
    /\ phase' = [phase EXCEPT ![j] = "run"]
    /\ UNCHANGED <<running, cancelled, parser, entries, consumeVars, catalogue,
                   reported, probes, ingestFaults>>

FetchFails(j) ==
    /\ phase[j] = "fetch"
    /\ \/ j \in cancelled /\ UNCHANGED ingestFaults
       \/ ingestFaults < MaxIngestFaults /\ ingestFaults' = ingestFaults + 1
    /\ phase' = [phase EXCEPT ![j] = "failed"]
    /\ UNCHANGED <<running, cancelled, parseVars, entries, consumeVars, storeVars>>

---------------------------------------------------------------------------
(* ParseInto.  The context is looked at before a line, not while sending.  *)

Line(j) == phase[j] = "run" /\ parser[j] = "line"

\* An entry is complete: the parser goes on to send it.
ParseEntry(j) ==
    /\ Line(j) /\ ~Stopped(j) /\ unread[j] # <<>>
    /\ parser' = [parser EXCEPT ![j] = "send"]
    /\ UNCHANGED <<jobVars, playlist, unread, entries, consumeVars, storeVars, ingestFaults>>

\* The entry is sent, once the channel has room for it.
Send(j) ==
    /\ parser[j] = "send" /\ Len(entries[j]) < Buffer
    /\ entries' = [entries EXCEPT ![j] = Append(@, Head(unread[j]))]
    /\ unread' = [unread EXCEPT ![j] = Tail(@)]
    /\ parser' = [parser EXCEPT ![j] = "line"]
    /\ UNCHANGED <<jobVars, playlist, consumeVars, storeVars, ingestFaults>>

\* A mutant of ParserEnds: at the end of the playlist the channel stays open.
ParserEndsOpen(j) ==
    /\ Line(j) /\ Stopped(j)
    /\ parser' = [parser EXCEPT ![j] = "failed"]
    /\ UNCHANGED <<jobVars, playlist, unread, entries, consumeVars, storeVars, ingestFaults>>

\* The parser returns and closes the channel: at the end of the playlist, when
\* the context is done, or when the body cannot be read.
ParserEnds(j) ==
    /\ Line(j)
    /\ \/ ~Stopped(j) /\ unread[j] = <<>> /\ parser' = [parser EXCEPT ![j] = "done"]
          /\ UNCHANGED ingestFaults
       \/ Stopped(j) /\ parser' = [parser EXCEPT ![j] = "failed"] /\ UNCHANGED ingestFaults
       \/ ingestFaults < MaxIngestFaults /\ parser' = [parser EXCEPT ![j] = "failed"]
          /\ ingestFaults' = ingestFaults + 1
    /\ UNCHANGED <<jobVars, playlist, unread, entries, consumeVars, storeVars>>

---------------------------------------------------------------------------
(* The consumer.                                                           *)

Selecting(j) == phase[j] = "run" /\ consumer[j] = "select"

\* A mutant of Accepted: entries are not deduplicated.
AcceptedAll(j, e) == TRUE

\* Only the first entry with a URL goes into a batch.
Accepted(j, e) == e.url \notin seen[j]

Full(rows) == Len(rows) >= BatchRows

\* An entry is received and, if accepted, added to the batch.
Receive(j) ==
    /\ Selecting(j) /\ entries[j] # <<>>
    /\ LET e == Head(entries[j])
           rows == IF Accepted(j, e) THEN Append(buf[j], e) ELSE buf[j]
       IN /\ buf' = [buf EXCEPT ![j] = rows]
          /\ seen' = [seen EXCEPT ![j] = @ \cup {e.url}]
          /\ consumer' = [consumer EXCEPT ![j] =
                            IF Full(rows) THEN "flush" ELSE "select"]
    /\ entries' = [entries EXCEPT ![j] = Tail(@)]
    /\ UNCHANGED <<jobVars, parseVars, storeVars, ingestFaults>>

\* The channel is closed and drained: what is left of the batch is written.
ReceiveEnd(j) ==
    /\ Selecting(j) /\ entries[j] = <<>> /\ parser[j] \in Ended
    /\ consumer' = [consumer EXCEPT ![j] = IF buf[j] = <<>> THEN "done" ELSE "last"]
    /\ UNCHANGED <<jobVars, parseVars, entries, seen, buf, storeVars, ingestFaults>>

\* The select takes the done context instead.
ConsumerStops(j) ==
    /\ Selecting(j) /\ Stopped(j)
    /\ consumer' = [consumer EXCEPT ![j] = "failed"]
    /\ UNCHANGED <<jobVars, parseVars, entries, seen, buf, storeVars, ingestFaults>>

Flushing(j) == phase[j] = "run" /\ consumer[j] \in {"flush", "last"}
Rows(j) == ToSet(buf[j])

\* INSERT .. ON CONFLICT DO UPDATE cannot touch a channel twice.
Upsertable(j) == Cardinality({s.channel : s \in Rows(j)}) = Len(buf[j])

\* A mutant of Copyable: the streams that are there are written again.
CopyableAlways(j) == TRUE

\* COPY cannot add a stream that is there.
Copyable(j) == Rows(j) \cap Known = {}

\* The batch was taken: the consumer goes on.
Flushed(j) ==
    /\ buf' = [buf EXCEPT ![j] = <<>>]
    /\ consumer' = [consumer EXCEPT ![j] = IF @ = "last" THEN "done" ELSE "select"]

\* The catalogue with a batch's streams: their health is not known yet.
Added(rows) == [s \in Stream |-> IF s \in rows THEN "unknown" ELSE catalogue[s]]

\* UpsertChannelBatch commits.
Commit(j) ==
    /\ Flushing(j) /\ ~Stopped(j) /\ Upsertable(j) /\ Copyable(j)
    /\ catalogue' = Added(Rows(j))
    /\ foreign' = foreign \cup {k \in Jobs \ {j} : ToSet(playlist[k]) \cap Rows(j) # {}}
    /\ Flushed(j)
    /\ UNCHANGED <<jobVars, parseVars, entries, seen, reported, probes, ingestFaults>>

\* COPY fails, as a stream is known, the context is done or the statement fails:
\* UpsertChannelBatch returns nil, and its transaction is rolled back.
CopyFails(j) ==
    /\ Flushing(j)
    /\ \/ Upsertable(j) /\ ~Copyable(j) /\ UNCHANGED <<foreign, ingestFaults>>
       \/ /\ Stopped(j) \/ ingestFaults < MaxIngestFaults
          /\ ingestFaults' = IF Stopped(j) THEN ingestFaults ELSE ingestFaults + 1
          /\ foreign' = foreign \cup {j}
    /\ Flushed(j)
    /\ UNCHANGED <<jobVars, parseVars, entries, seen, catalogue, reported, probes>>

\* Another statement fails: UpsertChannelBatch returns the error.
FlushFails(j) ==
    /\ Flushing(j)
    /\ \/ Stopped(j) \/ ~Upsertable(j)
       \/ ingestFaults < MaxIngestFaults
    /\ ingestFaults' = IF Stopped(j) \/ ~Upsertable(j) THEN ingestFaults ELSE ingestFaults + 1
    /\ consumer' = [consumer EXCEPT ![j] = "failed"]
    /\ UNCHANGED <<jobVars, parseVars, entries, seen, buf, storeVars>>

---------------------------------------------------------------------------
(* The refresh ends, and validates the source's streams in the background. *)

\* errgroup.Wait returns once both goroutines have.
Wait(j) ==
    /\ phase[j] = "run" /\ {parser[j], consumer[j]} \subseteq Ended
    /\ phase' = [phase EXCEPT ![j] =
                   IF "failed" \in {parser[j], consumer[j]} THEN "failed" ELSE "mark"]
    /\ UNCHANGED <<running, cancelled, parseVars, entries, consumeVars, storeVars, ingestFaults>>

\* MarkSourceRefreshed with the number of rows added, and
\* ListStreamsForValidation: those never probed and, if their probes are more
\* than 6 hours old, the others.
Mark(j) ==
    /\ phase[j] = "mark" /\ j \notin cancelled
    /\ phase' = [phase EXCEPT ![j] = "done"]
    /\ reported' = Cardinality(seen[j])
    /\ \E listed \in {Known, {s \in Known : catalogue[s] = "unknown"}} :
          probes' = [probes EXCEPT ![j] = listed]
    /\ UNCHANGED <<running, cancelled, parseVars, entries, consumeVars, catalogue,
                   foreign, ingestFaults>>

MarkFails(j) ==
    /\ phase[j] = "mark"
    /\ \/ j \in cancelled /\ UNCHANGED ingestFaults
       \/ ingestFaults < MaxIngestFaults /\ ingestFaults' = ingestFaults + 1
    /\ phase' = [phase EXCEPT ![j] = "failed"]
    /\ UNCHANGED <<running, cancelled, parseVars, entries, consumeVars, storeVars>>

\* A stream is probed, and the verdict stored, unless the statement fails.
Probe(j, s) ==
    /\ s \in probes[j]
    /\ probes' = [probes EXCEPT ![j] = @ \ {s}]
    /\ \/ catalogue' = [catalogue EXCEPT ![s] = "probed"] /\ UNCHANGED ingestFaults
       \/ ingestFaults < MaxIngestFaults /\ ingestFaults' = ingestFaults + 1 /\ UNCHANGED catalogue
    /\ UNCHANGED <<jobVars, parseVars, entries, consumeVars, reported, foreign>>

---------------------------------------------------------------------------
IngestNext ==
    \E j \in Jobs :
        \/ Refresh(j) \/ Deadline(j) \/ Fetch(j) \/ FetchFails(j)
        \/ ParseEntry(j) \/ Send(j) \/ ParserEnds(j)
        \/ Receive(j) \/ ReceiveEnd(j) \/ ConsumerStops(j)
        \/ Commit(j) \/ CopyFails(j) \/ FlushFails(j)
        \/ Wait(j) \/ Mark(j) \/ MarkFails(j)
        \/ \E s \in probes[j] : Probe(j, s)

IngestSpec == IngestInit /\ [][IngestNext]_ingestVars

\* Goroutines are scheduled, requests and statements return.
IngestFairSpec ==
    /\ IngestSpec
    /\ \A j \in Jobs :
          /\ WF_ingestVars(Fetch(j) \/ FetchFails(j))
          /\ WF_ingestVars(ParseEntry(j) \/ Send(j) \/ ParserEnds(j))
          /\ WF_ingestVars(Receive(j) \/ ReceiveEnd(j) \/ ConsumerStops(j)
                      \/ Commit(j) \/ CopyFails(j) \/ FlushFails(j))
          /\ WF_ingestVars(Wait(j) \/ Mark(j) \/ MarkFails(j))

---------------------------------------------------------------------------
\* The streams a refresh of a playlist should add: the first with each URL.
Wanted(p) ==
    {p[i] : i \in {i \in DOMAIN p : \A k \in 1 .. i - 1 : p[k].url # p[i].url}}

\* A refresh that ends well and met no stream but its own has added all the
\* streams of its playlist: the dedupe, the batching and the final flush lose
\* none, whatever else runs.
NewStreamsArrive ==
    \A j \in Jobs : phase[j] = "done" /\ j \notin foreign => Wanted(playlist[j]) \subseteq Known

\* "Duplicate streams hit the unique index; we tolerate that": a refresh that
\* ends well has added the streams of its playlist, known ones among them or
\* not.  In the code one known stream takes its whole batch with it.
RefreshIsComplete ==
    \A j \in Jobs : phase[j] = "done" => Wanted(playlist[j]) \subseteq Known

\* The verdict of a probe is never taken back by a later refresh, and no stream
\* leaves the catalogue.
VerdictsStand ==
    [][\A s \in Stream :
            /\ catalogue[s] = "probed" => catalogue'[s] = "probed"
            /\ catalogue[s] = "unknown" => catalogue'[s] # "absent"]_ingestVars

\* A refresh that nothing stops and none of whose batches fails ends: parser
\* and consumer never wait for each other.
RefreshEnds ==
    \A j \in Jobs :
        phase[j] = "run" ~> phase[j] # "run" \/ Stopped(j)

\* parser.go: "Context cancellation aborts cleanly".  A parser that is sending
\* does not look at the context, and once the consumer is gone no one receives.
CancelledRefreshEnds ==
    \A j \in Jobs : j \in cancelled ~> phase[j] \in Ended
=============================================================================
