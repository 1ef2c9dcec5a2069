# Verification of Nova Stream

TLA+ models of the parts of this repository whose correctness depends on what
happens between their steps: workers that share Redis keys, services that write
to a database and an object store in turn, devices that exchange updates, pages
that race their own requests. `PROJECT.json` lists the runs, the mutants, the
source lines each definition stands for, the hazards and the theorems.

Run a model with `tlc -workers 2 -config MCX.cfg MCX`, the proofs of a module with
`tlapm XProofs.tla` (the longest take two minutes).

## 1. The system

An IPTV platform: Go services that talk gRPC, Redis, Postgres, Kafka and S3, a
Next.js web app on an edge runtime with a KV store, and thin TV and phone shells.

| component | state | operations | talks to |
|---|---|---|---|
| recording, leases (`services/recording`, `leases.go`, `recorder.go`) | Redis `dvr:recordable`, `dvr:lease:{channel}`; recorders per worker | Refresh (renew, acquire), expiry, spawn, cancel | Redis; fed by the DVR scheduler |
| recording, archive (`recorder.go`, `store.go`, `storage.go`, `retention.go`) | seen ring, objects in S3, rows of `dvr_segments` | poll, fetch, upload, index, sweep | origin, S3, Postgres |
| DVR (`services/dvr`) | schedules, rules | promote scheduled, manifests | Redis, Postgres |
| sync (`services/sync`) | LWW map, OR-set | Set, Add, Remove, Merge | devices |
| playback (`services/playback`) | tickets, remembered URLs, QoE counters in Redis | Issue, Validate, ServeHTTP, Observe, SwapOrigin | Redis, origins, players |
| AI playback (`services/ai-playback`) | failure tallies in memory | evaluate, recordFailure | Redis pub/sub, playback, playlist ingestion |
| playlist ingestion (`services/playlist-ingestion`, `libs/go/pkg/m3u`) | channels, streams, running refreshes | Refresh, parse, batch, probe | provider, Postgres, Kafka |
| auth (`services/auth`) | users, email and refresh tokens, device slots, failures | Register, Activate, Login, Refresh, Acquire, Heartbeat, Release | Postgres, Redis, SMTP |
| EPG, gateway, search, recommendation | programmes, token buckets, indexes | ingest, now/next, Allow, fuse, re-rank | Postgres, Redis, OpenSearch |
| web: settings (`apps/web/src/lib/serverSync.ts`, `usePersisted.ts`) | localStorage, hooks, a KV blob per user | edit, scheduleUp, pushNow, syncDown | `/api/settings` |
| web: accounts (`lib/auth`, `app/api/auth`) | KV user records, sessions, their index | login, signup, verify, reset, revoke, delete, admin | KV, Firebase |
| web: channel health (`lib/channelHealth.ts`) | a record per channel, a cursor | reportOk, reportFail, sweep, recheck | probe route, player |
| web: player and live page (`PlayerSurface.tsx`, `live/page.tsx`) | attempt, timers, selection, moment | zap, seek, retry, hide, deep link | stream proxy, health |
| web: preview tiles (`LivePreviewTile.tsx`) | decoder slots, a queue, stills | capture, hover, unmount | stream proxy |
| web: sources (`lib/channelCache.ts`, `epgCache.ts`, `digestClient.ts`) | caches, fetches under way | load, invalidate, sync | providers, localStorage |
| web: parsing (`lib/m3u.ts`, `epg.ts`, `digest.ts`, `catchup.ts`) | none | parse, match, build archive URLs | the pages, the digest route |
| web: guide pages (`guide/page.tsx`, `catchup/page.tsx`) | day, rows, banner | load, leaf, link | digest, guide, player |
| web: stream proxy (`lib/ssrfGuard.ts`, `streamProxy.ts`, `app/api/{stream,m3u,epg}`) | a digest cache | fetch, follow, judge, rewrite | providers |
| web: billing (`app/api/billing`, `lib/stripe.ts`) | customers and subscriptions at Stripe, events seen | checkout, webhook, status | Stripe |
| clients, infrastructure | – | shells, deployment | – |

What is hard in it, and where: commands of several workers interleave on the
same Redis keys (leases, tickets, device slots); two stores are written one
after the other and either write can be the last before a crash (archive,
ingestion, sessions); messages and uploads overtake each other (CRDT, telemetry,
settings, webhooks); a decision is taken on state read some remote calls ago
(failover, ingestion, syncDown); and goroutines wait for each other over a
bounded channel (parser and consumer).  `PROJECT.json` lists the hazards, each
at its line, with the properties that would catch it.

## 2. Plan

In the order of what the platform would miss most:

1. `RecordingLeases`, `SegmentArchive` with the abstract `RetainedArchive`: done, with
   proofs, the fleet bound among them.
2. `SyncCRDT`: done, with proofs.
3. `PlaybackProxy` below `FailoverSupervisor`: done, with proofs.
4. `PlaylistIngest`: done, with proofs.
5. `SettingsSync`, `ChannelHealth`, `SourceCaches`: done, with proofs.
6. `Accounts`, `Billing`: done, with proofs.
7. `PlayerSurface` below `LivePage`, and `PreviewTiles`: done, with proofs.
8. `DeviceSlots` below `AuthService`: done, with proofs.
9. Pure algorithms against reference definitions: `PlaylistFile`, `ProgrammeGuide`,
   `CatchupUrls`, `UpstreamRoutes`, `TvGuide`: done as operators, which ASSUMEs of
   the MC modules evaluate over bounded inputs; some of their facts are proved.
10. To come: EPG now/next, the gateway's token bucket, DVR schedules and manifests;
   reciprocal rank fusion, MMR and the focus engine.
11. Proofs to come: what a playlist file gives, by the induction of
   `RecursiveFunctions`; a composition of leases with the archive (the archive module
   already allows several recorders at once, which is what the leases permit).

## 3. Modules

Each state variable names the code's state in a comment, each action one
operation or one remote call of it; history variables are marked. Bounds end in
`Max...` and are guards. Payloads, names and times of day are left out.
No run lists a type invariant: each is proved, or holds by the inductive invariant of the
proofs (section 4). A proof module extends several models, so that those it joins
have names of their own (`LeaseInit`, `IngestInit`, `HealthInit`, `CacheInit`, ...).

### RecordingLeases

`lease` is Redis, `recordable` the set the DVR scheduler fills, `phase`, `toRenew`,
`toAcquire` and `held` the local state of `LeaseManager.Refresh`, `recording` the
cancel functions of `Recorder.Run`. One action per Redis command, so the
refreshes of workers, `Tick` (expiry) and `Crash` interleave between any two.
`claim` is a history variable: how long the last answered SET entitles a worker
to the channel.

* `leases_safety` (2 workers, 3 channels, 1 slot each): `ClaimIsLeased`, nothing a
  worker was told is taken back early; `FleetLeaseBound`, live leases stay within
  the slots of the fleet although renewals are not bounded.
* `leases_recovery`: `CapacityIsUsed`, after faults stop, a worker's worth of
  channels is recorded again. Fairness: every worker's loop goes on (its ticker),
  time passes, a stopped process is restarted (Kubernetes).

### SegmentArchive, RetainedArchive

One channel's recorders and all retention sweepers. A batch of segments is a set
of `jobs`, each fetched, uploaded and indexed in steps of its own; `Abandon` is
the errgroup's cancellation, and faults hit every request. `RetainedArchive` is
the promise: a segment becomes replayable and stays so until it has expired.

* `archive` (1 recorder, 2 sweepers): `UnexpiredIsReplayable` (every row within
  retention has its object), `ImplementsRetainedArchive` (the refinement), `BacklogClears` (liveness: expired rows are worked off, under fairness of the
  sweepers' ticker and with finitely many faults). Two recorders with one sweeper
  satisfy the same safety properties; the theorems cover any number of both.

### SyncCRDT

Every device has a replica of the LWW map and of the OR-set. The delivery of updates
is not in the repository: it is modelled as the most general one that keeps the
rules `crdt.go` states (a fresh tag per Add, distinct times per device and key).

* `crdt` (2 devices): `MapConverges`, `ReAddShows`, and `EventuallyAgree` under fair
  delivery. `NoRollback` is proved (section 4).

### PlaybackProxy, FailoverSupervisor

The proxy module has tickets, the hash of remembered URLs and a player that requests
what it was offered. The supervisor extends it with counters, pub/sub and
`evaluate`, one remote call per action.

* `failover` (a ticket, two streams of its channel at different hosts and one of
  another channel; one fault): `FetchesStayOnChannel`, and `SlowSessionFailsOver`: a
  session that stays at 300 kbit/s and keeps sending samples leaves its stream for
  good. Fairness: the supervisor's loop goes on, and does not pass over a ticket that
  keeps being notified. Nothing is assumed of players or networks.

### PlaylistIngest

A refresh is a parser and a consumer around a bounded channel, a batcher and a
transaction per batch. Refreshes of a source overlap, the newer one cancels the
older one, and deadlines, failed reads and failed statements end either side.

* `ingest` (two refreshes, playlists of up to three entries with duplicates, a
  channel of one entry, batches of two rows): `NewStreamsArrive` (deduplication,
  batching and the last flush lose nothing when no batch is rolled back),
  `VerdictsStand` (a re-ingest does not undo a probe), `RefreshEnds` (parser and
  consumer do not wait for each other unless the refresh was cancelled).

A channel of one entry and batches of two rows stand for 1024 and 500: what matters
is that the channel is full, empty and in between, and that the last batch is short,
full or empty.

### PlaylistFile, ProgrammeGuide, CatchupUrls

Pure functions of the web application, line by line or element by element; what is
recognised in a line stands for its text. `MCSourceCaches` evaluates the first two and
`MCLivePage` the third before their runs start.

* `PlaylistFile` (playlists of up to four lines, or four entries, two tvg-ids): no row is
  lost, ids differ, numbers ascend.
* `ProgrammeGuide` (up to three programmes or three channel elements): the banner is on what
  began last, the window of a digest is whole although the walk breaks off, and the digest
  agrees with the browser unless a channel's name is claimed by an entry without programmes.
* `CatchupUrls` (every shape of a live URL that the code tells apart): no URL is tried
  twice, a playlist's template has its place, and on a Flussonic URL what the live stream may
  answer comes last and is noticed. Lists have one URL or at least six: `live` uses two,
  as a stand-in for the shortest that has a next.

### TvGuide, UpstreamRoutes

* `TvGuide` (in `MCSourceCaches`; calendars with a day of 23 or of 25 hours): every hour of
  a programme is on one page of the grid, the line of the present is on what is on, the rows
  are the same with the digest and without, and what the grid links the catch-up page lists.
* `UpstreamRoutes` (in `MCChannelHealth`; three URLs that redirect to each other in any
  way, addresses of ten octets in every spelling, manifests of three lines, bodies of four
  chunks): every hop of a redirect is judged, spellings of an address agree, the lines of a
  rewritten manifest lead where they did, a body is whole or an error. Literals of IPv6 and
  the names and ports refused outright are a set of URLs.

### SettingsSync

`local` is localStorage, `shown` the hooks on screen, `timer`, `inFlight` and `pending`
the three flags of `serverSync.ts`, `puts` and `get` the requests under way. A PUT
outlives a reload of its page and may take effect after the page saw an error.

* `settings` (two devices, one setting, four user acts, one fault):
  `ChangesAreScheduled`, `HooksShowStorage`, `PutsTakeEffectInOrder` and the
  liveness property `ChangesAreSent`: a change is read by a PUT, unless its page goes away
  or an answer of `syncDown` overwrites it first. `changed` has the keys that wait for a
  PUT, `undone` those that lost their change to such an answer, so that a lost edit never
  counts as sent; that there are some is `NoLostWrite` of section 7.
  Fairness: timers fire, and a PUT takes effect
  or is answered in the end. One setting is enough because a snapshot takes all keys
  at once and an answer is merged key by key; the theorems cover any number.

`syncUpNow` (`serverSync.ts:145`), which uploads without the gate of `pushNow`, is exported
but has no caller and is left out; so is the gate `awaitInitialSyncDown` (112). KV's
propagation delay (a read may be up to a minute old) is left out.

### Accounts

One email address: its record, sessions and index in KV, its account at Firebase.
Thirteen kinds of request; each is a chain of steps, one per remote call, with what it
has read so far in `req[r]`. Writes that the code awaits together form the set `todo`
and land in any order. Requests may die between two calls and a KV delete may fail.

* `accounts` (3 requests, at most two at once, one fault, an old session and two Firebase
  uids): `OthersSignedOut` (a password change or deletion leaves no session of the
  user's uid that was handed out before it listed them, although validity and index are
  different keys written in any order), `SessionsAreListed` (a valid session is in the
  index when all is quiet), `SessionsAreProven` (no path through sign-up, legacy
  migration, verification or reset issues a session for a Firebase account, unless that
  very account was shown to be of the owner of the address, by a link or by the password
  the address had before, or a login has put it in a record of another uid; what the last
  exception lets in is `OnlyProvenPass` of section 7), `AccessEndsByDesign` (a record that
  is written back whole loses paid or trial access only by a cancellation, a deletion, or when it was read before somebody
  else wrote it). Days are whole and requests are of one day, because handlers compare
  days only. Requests are finite, so the run ends without a step left: no deadlock check.
  Three requests are enough for two racing ones and one that sees what they left.
  A request that is answered forgets everything but the sessions it had to sign out.
  `proven` and `adopted` are history, of one Firebase account each: an address that is
  deleted and signed up again has another one, which nobody has shown to be theirs.
  A behaviour of the run is one of the account or one of its billing, which share no state.

### Billing

One address at Stripe: customers, subscriptions, checkouts, and the events Stripe sends
until they are acknowledged; `seen` is what each instance of the webhook remembers,
`handled` and `raced` are history.

* `accounts` (one checkout beside an earlier customer, two instances, two events, one delivery
  at a time, one failure; two deliveries at once also hold): `AcknowledgedIsHandled` (an event
  that Stripe takes for delivered was applied, unless a duplicate came while it was handled).

### ChannelHealth

`store` is the record per channel in localStorage, `sweep` a tick of the sweep with its
parallel slices and answers, `recheck` the probes of hidden channels, `upstream` what a
provider would serve. The probe route is modelled by its verdicts, on the first channels
of a slice only (`ProbeBatch`): one call has 42 subrequests and begins a channel while 12
are left, so that of 12 channels 4 to 8 have a verdict as a rule. Requests that fail or
run out of time (`ProbeBatchCut`) are faults.

* `health` (5 channels, one without a URL, slices of two of which the probe is sure to
  reach one, two at a time, two rounds, two bad channels, one fault, and one act: playback,
  restore, recheck or a change of an upstream): `UnplayableIsCounted` (what makes the
  early return of `reportOk` sound), `SweepKeepsPlayback` (no interleaving of sweep and
  playback lets a probe clear what the player learnt), `SweepComesRound` (as long as slices
  that count keep coming, every channel with a URL is in a slice again and again).
  Fairness: answers that are all there are recorded, as no await comes in between; whether
  answers come, and any that count, is the property's premise, because `Batch * Parallel`
  neighbours that never answer do stop the sweep (section 7). A channel in a slice need not
  have a verdict: `TruncatedAreRetried` of section 7. The five channels do not divide into
  slices, so the cursor wraps inside one; with two bad channels a whole slice can be
  discarded beside one that counts.

### PlayerSurface, LivePage

`PlayerSurface` is the effect that plays: candidates, the stall timer, retries, the
import of hls.js and what it attaches, errors, playing, and the outcome it reports.
Leaving an attempt is the effect's clean-up, so an import or timer of an earlier attempt
may still come in (`late`). `LivePage` extends it with the page: `page` is its React
state, `done` the dependencies the effects have seen. `Effects` is the commit of a render,
all effects in their order, and no user event comes between a render and its effects,
as React has it; a handler sets state, and the player is given what the next render derives.

* `live` (two channels, the first with an archive of two candidate URLs, one retry, one
  probe verdict, one scrub): `NoStaleStream` (what is attached to the element belongs to
  the present attempt), `SelectionPlays` (when the effects are through, something
  selected is playing, whatever hiding did to the list), `ReplayIsOfTheArchive` (the
  page claims a moment in the past only if the player was given that moment's archive),
  `OnlyLiveIsBlamed` (a failure is counted only against the channel that is playing live),
  `AlternativesAreTried` (no candidate holds up the next for ever). Fairness: effects run
  and a timer that is not cleared fires. With hiding off nothing is hidden at the start.

### PreviewTiles

The tiles of the home page: `active` and `waiting` are the decoder slots and the queue for them,
`job` a capture or a session of the pointer with the closure it runs in, `tile` the React
state. The tab of run `live` shows the live page or the home page; the two share no state.
`Rests` is a tab whose viewer has made the moves of the bound.

* `live` (two tiles, one of which needs hls.js, two jobs, one slot, three moves; three
  jobs, 5.4 million states, also hold): `WaitsOnlyWhenFull` (nobody waits while a decoder is
  free), `SessionHoldsSlot` (what plays under the pointer has a slot), `SessionsLetGo` (a
  session the pointer left keeps none), `StillsAreRevoked` (a tile owns the object URL of the
  still it shows and no other).

### SourceCaches

`live` and `epg` are the synced source lists of each tenant of the browser, `mem` and
`sess` the two caches, `flights` the fetches under way with the tenant they were started
for, `guides` and `inflight` the guide's, `screen` what the open page has painted and waits for.
A list stands for the URL it was parsed from.

* `sources` (two tenants, two playlists, one feed, one row of the sources page, two edits,
  syncs or sign-ins, one fault): `PageShowsItsSource` (a page opened after the last change
  paints and receives its own source only, although fetches outlive pages, accounts and
  sources and store what they bring under whoever is signed in), `SourceIsShown`
  (an entry of another playlist does not keep the configured one from being loaded).
  Fairness: the viewer goes on opening pages and requests are answered. Two edits allow a
  change and the change back while a fetch is under way.

### DeviceSlots, AuthService

`DeviceSlots` is Redis: `slots` the age of each member's score, `keyTTL` what is left of the
key, `attempt` each device's Acquire with its WATCH (`dirty` once somebody, itself
included, wrote to the key). `AuthService` extends it with Postgres: `user`, `link` (the
email token), `token` (a row per refresh token), `failures`, and `req`, each handler at
the statement it is about to send; `given` are the tokens clients were answered with and
may present again and again. Billing, which writes the plan, is external. An access token
carries the limit with which a device asks for a slot.

* `auth` (4 requests, at most two at once, 2 devices, one fault): `OneUsableToken` (the
  race of `docs/security/audit-2026-05.md`, section 5: however many requests present a token
  and wherever they fail, a login has one token that works), `ReplayEndsSession` (after a
  replay no client has a token of that login that works; it needs the new token to be put on
  the old one's chain each time), `SlotsWithinPlan` (the optimistic transaction keeps the
  limit against other Acquires, heartbeats, releases and expiry). Four requests are a login,
  two rotations and a replay of the first token. One failure locks an account; a limit of one
  slot, because two devices cannot exceed a larger one (three devices with a limit of two
  also hold). A tick is the slots' time to live
  (the key's is two), and an Acquire may see one pass.

## 4. Proofs

All theorems hold for every value of the constants, under the named ASSUMEs of the
modules only. An invariant is proved from an inductive one, by a lemma for the initial
states, one for the steps (a step per action) and PTL; action properties follow from the
same invariant. Every safety property of every run is stated by a theorem.

* `RecordingProofs`. Leases: `LeaseTypes`, `ClaimSafe` (a SET gives the lease at least
  what it gives the claim, and a tick takes as much from both) and `FleetBounded`. The last
  follows from an assignment of slots to live leases, no two of the same: one of the worker
  that acquired the lease, or one of a fault's. It is inductive because a worker knows, during
  a refresh, of the leases in its own slots: it has renewed them, or will. Archive: `Replayable` and `Refinement`, from
  where objects and rows come from: an uploaded job's object exists and its key is not
  reused, and a sweeper's list holds expired rows only. The refinement maps the rows with an
  object to the abstract archive; every step adds a replayable segment, drops expired
  ones or stutters.
* `SyncCRDTProofs`: `TypeCorrect`, `Converges`, `NeverRollsBack`, `AddShows`. A replica
  holds the newest of the updates it has seen, which the tie-break by origin makes unique,
  and a tag is in use only after its device issued it.
* `StreamsProofs`. Ingestion: `NothingIsLost`, `VerdictsAreKept`. What the parser has
  read, what is in the channel and what the consumer had are the playlist in turn; the first
  entry of each URL is in the batch or in the catalogue; and a refresh that met no stream
  but its own finds none of its batch there. Playback: `StaysOnChannel`. Origin, remembered
  URLs, requests and the stream about to be swapped in are of the ticket's channel, and the
  stream of a ticket never changes while it has one, so nothing an evaluation read about
  it is stale. Operators: `NoIdsYet` and `LineKeepsIds` (ids of a playlist file), the
  window `AsksForWholeWindow` and `AsksForTheProgramme` (catch-up URLs) and `DigestMatches`.
* `BrowserProofs`. Settings: `TypeCorrect`, `Scheduled`, `InStep`, `InOrder`: timer and
  PUT exclude each other, what is pending is so during a PUT, and a page whose requests did
  not fail has no other PUT under way than the one it waits for. Health: `HealthTypes`,
  `UnplayableCounts`, `SweepsSparePlayback`: an answer that is out is one the probe
  can give, and recording the slices of a sweep one upon the other keeps what the player
  left on each record. Caches: `PagesShowTheirSource`: what a page waits for is the
  configured source, for as long as the page is not older than it.
* `AccountsProofs`. Billing: `BillingTypes`, `Handled`: an instance remembers an event
  only when it was applied or is in hand. Accounts: `AccountTypes`,
  `ValidSessionsAreListed`, `EndedWhenAnswered`, `NoSessionUnproven`, `AccessIsTakenByDesign`.
  The invariant has what each request carries when it comes to a step; that a session is put
  before it is indexed and read before it is destroyed; that the Firebase accounts which are
  known, proven or adopted, only grow, and whoever is verified or migrated, and a record with
  the legacy flag, is of a known one; and that a request which
  will write the record back has a copy of it, as long as nobody else wrote it.
  `RecordAssumption` says that two model values are not records.
* `LivePageProofs`. The page: `NothingStale`, `ReplayIsReal`, `LiveIsBlamed` and
  `SelectedIsPlayed`: what the player was given is what the effects last derived, a selection
  past the end of the list is pulled back, and the list shown is a sequence of channels.
  Tiles: `TilesTypes`, `NobodyWaitsForNothing`, `LeftSessionsLetGo`, `SessionsHoldSlots`,
  `StillsRevoked`: the queue is of fresh jobs without repetition, a tile has one session,
  and a capture goes on only for a tile that wants it.
* `AuthServiceProofs`: `TypeCorrect`, `OnlyOneWorks`, `ReplayIsFinal`, `PlanIsKept`. A token
  that can be exchanged is in the table or in the hands of one rotation; what a login's
  clients were given is on one chain unless a stitch failed; a login that has ended has no
  rotation; and an Acquire whose transaction will go through has counted the members that
  are there. Devices are a finite set.
* `RecursiveFunctions`: `SetInduction`, `Recursion`, `HandedOn`. The library's induction
  theorems take an operator, which no installed prover can instantiate. Induction for a
  set follows from the pigeonhole principle of finite sets, and with it that a function
  defined by recursion along an interval exists and has its values where its steps keep
  them. `Without` of `LivePage`, `Total` and `NotedInTurn` of `ChannelHealth` are such.

## 5. What is model-checked only

Liveness under fairness (`CapacityIsUsed`, `BacklogClears`, `EventuallyAgree`,
`SlowSessionFailsOver`, `RefreshEnds`, `ChangesAreSent`, `SweepComesRound`,
`AlternativesAreTried`, `SourceIsShown`), since the provers know neither ENABLED nor
fairness. Of the pure algorithms, what the ASSUMEs of the MC modules evaluate: they are
folds and selections over sequences, of which only single steps are proved
(`LineKeepsIds`: a line of a playlist file keeps ids apart).

## 6. What is not modelled

Rendering, styling and forms of the web pages and the clients; HTTP, TLS and gRPC
plumbing; the stub services; infrastructure. EPG, gateway, search and recommendation are
planned (section 2); the hazards of the first are in `PROJECT.json`.
Of billing: prices, the portal session and the pages. Nothing but the admin writes
`subscribedUntil` after a payment, so that billing and account share no state.
Of auth: password hashing, token signing and the audit log. Of the accounts: rate limits, the admin login, statistics. Of the live page: watch
history, prefetching, the panels' own state, the fullscreen API. Of parsing: tokens of text;
of the stream proxy: header values.

## 7. Known disagreements

Properties that a comment or document of the repository states and the code does not
keep, as TLC shows when the named property is added to the run's `.cfg`, or, where a module
is named in brackets, to the ASSUMEs of its MC module. They stay in the modules; no run is
kept for them.

| property | run | what the text says, what the code does |
|---|---|---|
| `ExactlyOneRecorder` | leases_safety | `leases.go:13`; the renewal's `SET XX` (line 63) does not look at the owner |
| `ManifestsArePlayable` | failover | `ticket.go:9`; after a swap the variant being polled is refused URI by URI (`proxy.go:134`) |
| `RefreshIsComplete` | ingest | `store.go:199`; a known stream aborts the COPY and the whole batch is dropped (line 201) |
| `CancelledRefreshEnds` | ingest | `m3u/parser.go:75`; the parser's send does not watch the context (line 138) |
| `MountNeverPushesDefault` | settings | `usePersisted.ts:61`; the flip of `loaded` itself runs the effect (line 65) |
| `NoLostWrite` | settings | `serverSync.ts:171`, 104-109; an answer of `syncDown` overwrites an edit made while it was under way, before a PUT has read it (130), and the gate against that has no callers |
| `OnlyProvenPass` | accounts | `login/route.ts:83`, `users.ts:30`, `signup/route.ts:8-10`; a login takes any record of another uid, as of a Google login beside a sign-up, for a legacy one (103-107) and lets an unverified account in |
| `TruncatedAreRetried` | health | `channelHealth.ts:553`, 371; the cursor steps over the whole slice (550), though the probe's budget (`probe/route.ts:307`) covers 4 to 8 of its 12 channels |
| `DeletionRevokesEverySession` | accounts | `privacy/delete/route.ts:94`; sessions of the uid before a login aligned it (`login/route.ts:103`) are in another index |
| `RemovedIsGone` | sources | `sources/page.tsx:157`; a fetch under way stores its list after the invalidation, and any entry will do without a source |
| `GuideIsOfTheFeed` | sources, with two feeds | `channelCache.ts:87`; the guide under way is shared whatever its URL (`epgCache.ts:82`) |
| `NothingDropped` | (`PlaylistFile`) | `m3u.ts:165`, 282; an entry whose URL never came is counted as dropped (284) |
| `DigestAgrees` | (`ProgrammeGuide`) | `digest.ts:73`; when an entry without programmes claims the channel's name, the digest has none and the browser goes on looking (`epgCache.ts:45-58`) |
| `LiveComesLast` | (`CatchupUrls`) | `catchup.ts:266`; true of Flussonic URLs only |
| `SilentLiveIsNoticed` | (`CatchupUrls`) | `catchup.ts:391`; the guard does not know every spelling the builder has |
| `TodayIsToday` | (`TvGuide`) | `guide/page.tsx:141`; the day is taken when it is chosen, so after midnight "Today" is yesterday |
| `AiredThatDay` | (`TvGuide`) | `catchup/page.tsx:387`; pages step by 24 hours, so days of 23 or 25 hours are cut wrongly |
| `BannerIsHonest` | (`TvGuide`) | `catchup/page.tsx:88`; a playlist that was cached and could not be loaded again leaves the banner of the older list |
| `GuideIsAsked` | (`UpstreamRoutes`) | `digest/route.ts:148`; an answer without the guide is kept for as long as any other |
| `HardCap` | live | `LivePreviewTile.tsx:54`; a clean-up that runs twice lets in two for one slot |
| `CapturesLetGo` | live | `LivePreviewTile.tsx:157`; the watchdog of a cancelled capture does not clean up |
| `NothingIsDropped` | accounts | `webhook/route.ts:71`; a retry that comes while the first delivery is at work is acknowledged, and that one may still fail |
| `DuplicateDoesNoHarm` | accounts | `webhook/route.ts:88`; an event applied again after a later one undoes it |
| `OneCustomer` | accounts, with two checkouts | `stripe.ts:76`; two checkouts that search at once create two |
| `PlanIsThePrice` | accounts | `portal/route.ts:4`; the plan shown is that of the checkout |
| `LinkOpensItsChannel` | live | `live/page.tsx:289`; the look-up filters always, the render only with hiding on and the breaker closed (126-133), so that with a failed channel before it a link opens another one |
| `AnyReplayEndsSession` | auth | `service.go:193`; a replay between the statements of a rotation, or after one whose last statement failed, misses the new token (line 231) |
| `HeartbeatKeepsSlot` | auth, with `SlotTTL = 2` | `devices.go:27`; ZADD XX answers 0 for a member that is there (103), so every heartbeat is refused and the key's expiry is never put off |

Seen while modelling, part of the models but not of a property: the sweep's cursor is
pinned by `Batch * Parallel` neighbours that never answer, since a round without an answer
ends the tick before the branch that steps over them (`channelHealth.ts:527`), and
a discarded slice between two answered ones is skipped while a later one is asked again
(548-558); a recheck that answers clears playback evidence too (594 against 107-110);
the scrubber's commit timer survives a change of channel; a stall during a pending
import may leave two hls.js instances of one attempt attached; retries are not reset by playing; a body
that breaks off while it is read leaves the page loading (`channelCache.ts`, `r.text()`
outside the try); an UPDATE of a refresh that fails while its rows are read is taken for a
replay and revokes the chain, as `rows.Err()` is not asked (`auth/service.go:208`); failures of
one second are one member of the lockout's set (line 326); and an address whose activation
link was never sent, or lapsed, cannot be activated (114); a tvg-id that reads like one made
for a repeated row can collide with it (`m3u.ts:247`), which `TvgIds` excludes; and a master
playlist of an archive, which has no end marker, is taken for silent live (`stream/route.ts:260`).
