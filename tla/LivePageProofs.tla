---------------------------- MODULE LivePageProofs -----------------------------
(***************************************************************************)
(* Theorems about the pages that play: LivePage with its PlayerSurface,    *)
(* for any playlist and any archives, and PreviewTiles, for any number of  *)
(* tiles and decoder slots.                                                *)
(***************************************************************************)
EXTENDS LivePage, PreviewTiles, RecursiveFunctions

(***************************************************************************)
(* The live page.  What the player was given is what the effects derived   *)
(* when they last ran: nothing but them starts an attempt for another      *)
(* stream, or makes another channel answer for it.                         *)
(***************************************************************************)
Fields == {"on", "stream", "health", "cand", "retries", "hls", "imports", "stall",
           "err", "data", "started", "paused", "permanent"}
UnderWay(a) == a.on = TRUE /\ DOMAIN a = Fields
AttemptFields == attempt = NoAttempt \/ UnderWay(attempt)

Given ==
    /\ attempt.on <=> done.active # NoChannel
    /\ attempt.on => attempt.stream = Playable(done) /\ attempt.health = HealthOf(done)

(* A moment that has no archive was dropped when the effects ran.          *)
MomentIsKept == Settled /\ done.active # NoChannel /\ done.catchup > 0 => Archived(done)

(* And the selection was pulled back into the list.                        *)
SelectionIsKept == Settled /\ done.len > 0 => done.active # NoChannel

Fielded(p) ==
    /\ DOMAIN p = {"all", "load", "idx", "watching", "catchup", "error", "anyway"}
    /\ p.idx \in Nat
PageFields == Fielded(page)

LiveInv ==
    /\ PageFields /\ AttemptFields
    /\ NoStaleStream /\ Given /\ MomentIsKept /\ SelectionIsKept

(* The list that is shown is one of channels, whatever is hidden.          *)
LEMMA WithoutIsASequence ==
  ASSUME NEW hidden PROVE Without(hidden) \in Seq(Channels)
<1> DEFINE m == Len(Playlist)
           Step(f, n) == IF n = 0 THEN << >>
                         ELSE IF Playlist[n] \in hidden THEN f[n - 1]
                         ELSE Append(f[n - 1], Playlist[n])
           IsKept(f) == f = [n \in 0 .. m |-> Step(f, n)]
           G == [n \in 1 .. m |-> [s \in Seq(Channels) |->
                   IF Playlist[n] \in hidden THEN s ELSE Append(s, Playlist[n])]]
<1>1. m \in Nat /\ \A n \in 1 .. m : Playlist[n] \in Channels
  BY LiveAssumption
<1>2. G \in [1 .. m -> [Seq(Channels) -> Seq(Channels)]]
  BY <1>1
<1>3. << >> \in Seq(Channels)
  OBVIOUS
<1>4. \E f : IsKept(f)
  <2> HIDE DEF G, m
  <2>1. PICK f \in [0 .. m -> Seq(Channels)] :
               f[0] = << >> /\ \A n \in 1 .. m : f[n] = G[n][f[n - 1]]
    <3>1. Recursive(m, << >>, Seq(Channels), G)
      BY <1>1, <1>2, <1>3, Recursion
    <3> QED
      BY <3>1 DEF Recursive
  <2>2. ASSUME NEW n \in 0 .. m PROVE f[n] = Step(f, n)
    <3>1. CASE n = 0
      BY <2>1, <3>1
    <3>2. CASE n # 0
      <4>1. n \in 1 .. m /\ n - 1 \in 0 .. m
        BY <1>1, <3>2
      <4>2. f[n] = G[n][f[n - 1]] /\ f[n - 1] \in Seq(Channels)
        BY <2>1, <4>1
      <4> QED
        BY <3>2, <4>1, <4>2 DEF G
    <3> QED
      BY <3>1, <3>2
  <2>3. f = [n \in 0 .. m |-> f[n]]
    BY <2>1
  <2> HIDE DEF Step
  <2>4. IsKept(f)
    BY <2>2, <2>3
  <2> QED
    BY <2>4
<1> DEFINE kept == CHOOSE f : IsKept(f)
<1>5. Without(hidden) = kept[m]
  BY DEF Without
<1>6. IsKept(kept)
  <2> HIDE DEF IsKept
  <2> QED
    BY <1>4
<1> HIDE DEF kept
<1>7. ASSUME NEW n \in 1 .. m, kept[n - 1] \in Seq(Channels) PROVE kept[n] \in Seq(Channels)
  <2>1. n # 0 /\ n \in 0 .. m
    BY <1>1
  <2>2. kept[n] = Step(kept, n)
    BY <1>6, <2>1
  <2> QED
    BY <1>1, <1>7, <2>1, <2>2
<1>8. kept[0] = << >> /\ kept = [n \in 0 .. m |-> kept[n]]
  <2>1. 0 \in 0 .. m
    BY <1>1
  <2>2. kept[0] = Step(kept, 0)
    BY <1>6, <2>1
  <2>3. kept[0] = << >>
    BY <2>2
  <2>4. kept = [n \in 0 .. m |-> kept[n]]
    <3> HIDE DEF Step
    <3> QED
      BY <1>6
  <2> QED
    BY <2>3, <2>4
<1>9. kept \in [0 .. m -> Seq(Channels)]
  <2> HIDE DEF m, IsKept
  <2> QED
    BY <1>1, <1>3, <1>7, <1>8, HandedOn
<1> HIDE DEF m
<1> QED
  BY <1>1, <1>5, <1>9

LEMMA ShownIsASequence == Shown \in Seq(Channels)
<1>1. Playlist \in Seq(Channels)
  BY LiveAssumption
<1>2. << >> \in Seq(Channels)
  OBVIOUS
<1> QED
  BY <1>1, <1>2, WithoutIsASequence DEF Shown

(* An attempt for the same stream and channel.                             *)
Same(a, b) == UnderWay(a) /\ UnderWay(b) /\ a.stream = b.stream /\ a.health = b.health

LEMMA AttachingIsSame ==
  ASSUME NEW a, UnderWay(a), NEW i
  PROVE  Same(Attaching(a, i), a)
<1> DEFINE asks == [a EXCEPT !.cand = i, !.retries = 0, !.stall = TRUE, !.data = FALSE,
                             !.started = FALSE, !.paused = TRUE, !.hls = 0]
<1>1. Same(asks, a)
  BY DEF UnderWay, Fields, Same
<1>2. Attaching(a, i) = IF native THEN asks ELSE IF loaded THEN [asks EXCEPT !.hls = i]
                        ELSE [asks EXCEPT !.imports = @ \cup {i}]
  BY DEF Attaching
<1> HIDE DEF asks
<1>3. Same([asks EXCEPT !.hls = i], a)
  BY <1>1 DEF UnderWay, Fields, Same
<1>4. Same([asks EXCEPT !.imports = @ \cup {i}], a)
  BY <1>1 DEF UnderWay, Fields, Same
<1> QED
  BY <1>1, <1>2, <1>3, <1>4

(* What a step of the player leaves as it is, and whom it blames.          *)
PlayerKeeps ==
    /\ AttemptFields' /\ NoStaleStream' /\ (attempt'.on <=> attempt.on)
    /\ attempt.on => attempt'.stream = attempt.stream /\ attempt'.health = attempt.health
    /\ \A c \in failed' \ failed : attempt.on /\ c = attempt.health /\ c # NoChannel

LEMMA AttemptGoesOn ==
  ASSUME attempt.on, NoStaleStream, Same(attempt', attempt),
         \A x \in attached' : x \in attached \/ x.stream = attempt.stream,
         \A c \in failed' \ failed : c = attempt.health /\ c # NoChannel
  PROVE  PlayerKeeps
  BY DEF Same, UnderWay, NoStaleStream, PlayerKeeps, AttemptFields

LEMMA FailAllFacts ==
  ASSUME NEW a, Same(a, attempt), FailAll(a)
  PROVE  /\ Same(attempt', attempt)
         /\ \A c \in failed' \ failed : c = attempt.health /\ c # NoChannel
<1>1. attempt' = [a EXCEPT !.err = TRUE]
  BY DEF FailAll
<1>2. Same(attempt', attempt)
  BY <1>1 DEF Same, UnderWay, Fields
<1>3. failed' = failed \/ (a.health # NoChannel /\ failed' = failed \cup {a.health})
  BY DEF FailAll
<1> QED
  BY <1>2, <1>3 DEF Same

LEMMA TryCandidateFacts ==
  ASSUME NEW a, Same(a, attempt), NEW i, TryCandidate(a, i)
  PROVE  /\ Same(attempt', attempt)
         /\ \A x \in attached' : x \in attached \/ x.stream = attempt.stream
         /\ \A c \in failed' \ failed : c = attempt.health /\ c # NoChannel
<1>1. CASE PastLast(a, i)
  BY <1>1, FailAllFacts DEF TryCandidate
<1>2. CASE ~PastLast(a, i)
  <2>1. /\ attempt' = Attaching(a, i) /\ failed' = failed
        /\ attached' = Destroyed(a) \cup
              (IF native \/ loaded THEN {[stream |-> a.stream, cand |-> i]} ELSE {})
    BY <1>2 DEF TryCandidate
  <2>2. Same(attempt', a)
    BY <2>1, AttachingIsSame DEF Same
  <2>3. Same(attempt', attempt)
    BY <2>2 DEF Same
  <2>4. ASSUME NEW x \in attached' PROVE x \in attached \/ x.stream = attempt.stream
    <3>1. x \in attached \/ x = [stream |-> a.stream, cand |-> i]
      BY <2>1, <2>4 DEF Destroyed
    <3> QED
      BY <3>1 DEF Same
  <2> QED
    BY <2>1, <2>3, <2>4
<1> QED
  BY <1>1, <1>2

LEMMA PlayerStep ==
  ASSUME AttemptFields, NoStaleStream, PlayerNext
  PROVE  PlayerKeeps
<1>1. attempt.on => UnderWay(attempt)
  BY DEF AttemptFields, NoAttempt
<1>2. CASE ImportArrives
  <2> DEFINE mine == IF attempt.on THEN attempt.imports ELSE {}
  <2>1. /\ attached' = attached \cup {[stream |-> attempt.stream, cand |-> i] : i \in mine}
        /\ attempt' = IF mine = {} THEN attempt
                      ELSE [attempt EXCEPT !.imports = {},
                              !.hls = CHOOSE i \in mine : \A j \in mine : j <= i]
        /\ failed' = failed
    BY <1>2 DEF ImportArrives, Resumes, verdicts
  <2>2. CASE ~attempt.on
    BY <2>1, <2>2 DEF PlayerKeeps, NoStaleStream, AttemptFields
  <2>3. CASE attempt.on
    <3>1. Same(attempt', attempt)
      <4>1. CASE mine = {}
        BY <1>1, <2>1, <2>3, <4>1 DEF Same
      <4>2. CASE mine # {}
        <5> DEFINE h == CHOOSE i \in mine : \A j \in mine : j <= i
        <5>1. attempt' = [attempt EXCEPT !.imports = {}, !.hls = h]
          BY <2>1, <4>2
        <5> HIDE DEF h
        <5> QED
          BY <1>1, <2>3, <5>1 DEF Same, UnderWay, Fields
      <4> QED
        BY <4>1, <4>2
    <3>2. ASSUME NEW x \in attached' PROVE x \in attached \/ x.stream = attempt.stream
      BY <2>1, <3>2
    <3> QED
      BY <2>1, <2>3, <3>1, <3>2, AttemptGoesOn
  <2> QED
    BY <2>2, <2>3
<1>3. CASE ImportFails \/ PlayGranted \/ Pauses \/ DataArrives \/ Starves \/ VideoPlaying
  <2>1. attempt.on /\ attached' = attached /\ failed' \subseteq failed
    BY <1>3 DEF ImportFails, PlayGranted, Pauses, DataArrives, Starves, VideoPlaying, verdicts
  <2>2. Same(attempt', attempt)
    BY <1>1, <1>3, <2>1 DEF ImportFails, PlayGranted, Pauses, DataArrives, Starves,
                            VideoPlaying, Same, UnderWay, Fields
  <2> QED
    BY <2>1, <2>2, AttemptGoesOn
<1>4. ASSUME NEW fatal \in BOOLEAN, NEW manifest \in BOOLEAN, NEW codec \in BOOLEAN,
             HlsError(fatal, manifest, codec)
      PROVE  PlayerKeeps
  <2> DEFINE a == [attempt EXCEPT !.permanent = codec]
             b == [a EXCEPT !.data = FALSE]
             c == [a EXCEPT !.retries = @ + 1, !.data = FALSE]
  <2>1. attempt.on /\ UnderWay(attempt)
    BY <1>1, <1>4 DEF HlsError
  <2>2. Same(a, attempt) /\ Same(b, attempt) /\ Same(c, attempt)
    <3>1. Same(a, attempt)
      BY <2>1 DEF Same, UnderWay, Fields
    <3> HIDE DEF a
    <3> QED
      BY <3>1 DEF Same, UnderWay, Fields
  <2>3. \/ attempt' \in {a, c} /\ attached' = attached /\ failed' = failed
        \/ TryCandidate(b, attempt.cand + 1)
    BY <1>4 DEF HlsError
  <2> HIDE DEF a, b, c
  <2>4. CASE attempt' \in {a, c} /\ attached' = attached /\ failed' = failed
    BY <2>1, <2>2, <2>4, AttemptGoesOn
  <2>5. CASE TryCandidate(b, attempt.cand + 1)
    BY <2>1, <2>2, <2>5, TryCandidateFacts, AttemptGoesOn
  <2> QED
    BY <2>3, <2>4, <2>5
<1>5. ASSUME NEW codec \in BOOLEAN, VideoError(codec)
      PROVE  PlayerKeeps
  <2> DEFINE a == [attempt EXCEPT !.permanent = codec, !.stall = FALSE, !.data = FALSE]
  <2>1. attempt.on /\ UnderWay(attempt) /\ TryCandidate(a, attempt.cand + 1)
    BY <1>1, <1>5 DEF VideoError
  <2>2. Same(a, attempt)
    BY <2>1 DEF Same, UnderWay, Fields
  <2> HIDE DEF a
  <2> QED
    BY <2>1, <2>2, TryCandidateFacts, AttemptGoesOn
<1>6. CASE StallFires
  <2> DEFINE a == [attempt EXCEPT !.stall = FALSE]
             b == [a EXCEPT !.permanent = FALSE]
  <2>1. attempt.on /\ UnderWay(attempt)
    BY <1>1, <1>6 DEF StallFires
  <2>2. Same(a, attempt) /\ Same(b, attempt)
    <3>1. Same(a, attempt)
      BY <2>1 DEF Same, UnderWay, Fields
    <3> HIDE DEF a
    <3> QED
      BY <3>1 DEF Same, UnderWay, Fields
  <2>3. \/ attempt' = a /\ attached' = attached /\ failed' = failed
        \/ TryCandidate(a, a.cand + 1)
        \/ FailAll(b) /\ attached' = attached
    BY <1>6 DEF StallFires
  <2> HIDE DEF a, b
  <2>4. CASE attempt' = a /\ attached' = attached /\ failed' = failed
    BY <2>1, <2>2, <2>4, AttemptGoesOn
  <2>5. CASE TryCandidate(a, a.cand + 1)
    BY <2>1, <2>2, <2>5, TryCandidateFacts, AttemptGoesOn
  <2>6. CASE FailAll(b) /\ attached' = attached
    BY <2>1, <2>2, <2>6, FailAllFacts, AttemptGoesOn
  <2> QED
    BY <2>3, <2>4, <2>5, <2>6
<1> QED
  BY <1>2, <1>3, <1>4, <1>5, <1>6 DEF PlayerNext

LEMMA AttachFacts ==
  ASSUME NEW stream, NEW health, Attach(stream, health)
  PROVE  /\ UnderWay(attempt') /\ attempt'.stream = stream /\ attempt'.health = health
         /\ \A x \in attached' : x.stream = stream
         /\ failed' = failed
<1> DEFINE a == [on |-> TRUE, stream |-> stream, health |-> health, cand |-> 1, retries |-> 0,
                 hls |-> 0, imports |-> {}, stall |-> FALSE, err |-> FALSE, data |-> FALSE,
                 started |-> FALSE, paused |-> TRUE, permanent |-> FALSE]
<1>1. UnderWay(a) /\ a.stream = stream /\ a.health = health
  BY DEF UnderWay, Fields
<1>2. /\ attempt' = Attaching(a, 1)
      /\ attached' = IF native \/ loaded THEN {[stream |-> stream, cand |-> 1]} ELSE {}
      /\ failed' = failed
  BY DEF Attach, verdicts
<1> HIDE DEF a
<1>3. Same(attempt', a)
  BY <1>1, <1>2, AttachingIsSame
<1> QED
  BY <1>1, <1>2, <1>3 DEF Same

LEMMA EffectsStep ==
  ASSUME LiveInv, Effects
  PROVE  LiveInv' /\ failed' = failed
<1> DEFINE d == Deps
<1>1. /\ done' = d /\ d.active = Active /\ d.catchup = page.catchup
      /\ page' = [page EXCEPT !.idx = PullsBack(@), !.catchup = Drops(@), !.error = Notice]
  BY DEF Effects, Deps, Active
<1>2. /\ AttemptFields' /\ NoStaleStream' /\ failed' = failed
      /\ attempt'.on <=> d.active # NoChannel
      /\ attempt'.on => attempt'.stream = Playable(d) /\ attempt'.health = HealthOf(d)
  <2>1. CASE /\ done.active # NoChannel /\ Active # NoChannel
             /\ done.watching = page.watching
             /\ Playable(done) = Playable(d) /\ HealthOf(done) = HealthOf(d)
    <3>1. UNCHANGED playerVars
      BY <2>1 DEF Effects, PlayerIsGiven
    <3> QED
      BY <1>1, <2>1, <3>1 DEF playerVars, LiveInv, AttemptFields, NoStaleStream, Given
  <2>2. CASE Active = NoChannel
    <3>1. Detach
      BY <2>2 DEF Effects, PlayerIsGiven
    <3>2. attempt' = NoAttempt /\ attached' = {} /\ failed' = failed
      BY <3>1 DEF Detach, verdicts
    <3> QED
      BY <1>1, <2>2, <3>2 DEF AttemptFields, NoStaleStream, NoAttempt
  <2>3. CASE Active # NoChannel /\ Attach(Playable(d), HealthOf(d))
    <3>1. /\ UnderWay(attempt') /\ attempt'.stream = Playable(d) /\ attempt'.health = HealthOf(d)
          /\ \A x \in attached' : x.stream = Playable(d)
          /\ failed' = failed
      BY <2>3, AttachFacts
    <3> QED
      BY <1>1, <2>3, <3>1 DEF AttemptFields, NoStaleStream, UnderWay
  <2> QED
    BY <2>1, <2>2, <2>3 DEF Effects, PlayerIsGiven
<1>3. MomentIsKept'
  <2> SUFFICES ASSUME Settled', d.active # NoChannel, d.catchup > 0 PROVE Archived(d)
    BY <1>1 DEF MomentIsKept
  <2>1. Deps' = d
    BY <1>1 DEF Settled
  <2>2. page'.catchup = d.catchup
    BY <2>1 DEF Deps
  <2>3. page'.catchup = Drops(page.catchup)
    BY <1>1 DEF LiveInv, PageFields, Fielded
  <2> QED
    BY <1>1, <2>2, <2>3 DEF Drops
<1>4. d.len = Len(Shown) /\ d.len \in Nat /\ page.idx \in Nat /\ d.idx = page.idx
  BY ShownIsASequence DEF LiveInv, PageFields, Fielded, Deps
<1>5. PageFields' /\ page'.idx = PullsBack(page.idx)
  <2>1. PullsBack(page.idx) \in Nat
    BY <1>4 DEF PullsBack
  <2> QED
    BY <1>1, <2>1 DEF LiveInv, PageFields, Fielded
<1>6. SelectionIsKept'
  <2> SUFFICES ASSUME Settled', d.len > 0 PROVE d.active # NoChannel
    BY <1>1 DEF SelectionIsKept
  <2>1. page'.idx = page.idx
    BY <1>1, <1>4 DEF Settled, Deps
  <2>2. page.idx < Len(Shown)
    BY <1>4, <1>5, <2>1 DEF PullsBack
  <2>3. page.idx + 1 \in 1 .. Len(Shown)
    BY <1>4, <2>2
  <2>4. Shown[page.idx + 1] \in Channels
    BY <2>3, ShownIsASequence
  <2> QED
    BY <1>1, <2>2, <2>4, PlayerAssumption DEF Active, Selected
<1> HIDE DEF d
<1> QED
  BY <1>1, <1>2, <1>3, <1>5, <1>6 DEF LiveInv, Given

(* Before the effects of a render have run nothing but they happen.        *)
LEMMA PageSteps ==
  ASSUME LiveInv, Settled, UNCHANGED <<attempt, attached, done>>, PageFields'
  PROVE  LiveInv'
  BY DEF LiveInv, AttemptFields, NoStaleStream, Given, MomentIsKept, SelectionIsKept, Settled

LEMMA LinkedKeepsFields ==
  ASSUME NEW p, Fielded(p)
  PROVE  Fielded(Linked(p))
<1>1. Resolved = NoIndex \/ Resolved \in Nat
  <2> DEFINE list == Without(HiddenIds)
             at == {i \in 1 .. Len(list) : list[i] = link.ch}
             i == CHOOSE i \in at : TRUE
  <2>1. at # {} => i \in Nat \ {0}
    <3>1. Len(list) \in Nat
      BY WithoutIsASequence
    <3>2. \A j \in at : j \in Nat \ {0}
      BY <3>1
    <3> HIDE DEF at
    <3> QED
      BY <3>2
  <2>2. Resolved = IF at = {} THEN NoIndex ELSE i - 1
    BY DEF Resolved
  <2> HIDE DEF at, i
  <2> QED
    BY <2>1, <2>2
<1> QED
  BY <1>1 DEF Linked, Fielded

(* What a step does to the failures that are counted.                      *)
Blames == \A c \in failed' \ failed : attempt.on /\ c = attempt.health /\ c # NoChannel

LEMMA LiveStep ==
  ASSUME LiveInv, [Next]_vars
  PROVE  LiveInv' /\ Blames
<1>1. CASE LoadArrives
  <2>1. /\ Settled /\ UNCHANGED <<attempt, attached, done, failed>>
        /\ page' = Linked([page EXCEPT !.all = TRUE, !.load = "ready"])
    BY <1>1 DEF LoadArrives, LinkRead, playerVars
  <2>2. PageFields'
    <3> DEFINE p == [page EXCEPT !.all = TRUE, !.load = "ready"]
    <3>1. Fielded(p)
      BY DEF LiveInv, PageFields, Fielded
    <3> HIDE DEF p
    <3>2. Fielded(Linked(p))
      BY <3>1, LinkedKeepsFields
    <3>3. page' = Linked(p)
      BY <2>1 DEF p
    <3> QED
      BY <3>2, <3>3 DEF PageFields, Fielded
  <2> QED
    BY <2>1, <2>2, PageSteps DEF Blames
<1>2. CASE LoadFails \/ RetryArrives
  <2>1. Settled /\ UNCHANGED <<attempt, attached, done, failed>> /\ PageFields'
    BY <1>2 DEF LoadFails, RetryArrives, LinkRead, playerVars, rest, LiveInv, PageFields, Fielded
  <2> QED
    BY <2>1, PageSteps DEF Blames
<1>3. CASE Effects
  BY <1>3, EffectsStep DEF Blames
<1>4. ASSUME NEW i \in Indices, NEW enter \in BOOLEAN, Tune(i, enter)
      PROVE  LiveInv' /\ Blames
  <2>1. Settled /\ UNCHANGED <<attempt, attached, done, failed>> /\ PageFields'
    BY <1>4, LiveAssumption DEF Indices, Tune, Ready, playerVars, rest, LiveInv, PageFields, Fielded
  <2> QED
    BY <2>1, PageSteps DEF Blames
<1>5. CASE Opens \/ Closes \/ SeekCommits
  <2>1. Settled /\ UNCHANGED <<attempt, attached, done, failed>> /\ PageFields'
    BY <1>5 DEF Opens, Closes, SeekCommits, Ready, playerVars, rest, LiveInv, PageFields, Fielded
  <2> QED
    BY <2>1, PageSteps DEF Blames
<1>6. ASSUME NEW start \in Starts, RestartsProgramme(start) \/ Skips(start)
      PROVE  LiveInv' /\ Blames
  <2>1. Settled /\ UNCHANGED <<attempt, attached, done, failed>> /\ PageFields'
    BY <1>6 DEF RestartsProgramme, Skips, Ready, playerVars, rest, LiveInv, PageFields, Fielded
  <2> QED
    BY <2>1, PageSteps DEF Blames
<1>7. ASSUME NEW banner \in BOOLEAN, ReturnsLive(banner)
      PROVE  LiveInv' /\ Blames
  <2>1. Settled /\ UNCHANGED <<attempt, attached, done, failed>> /\ PageFields'
    BY <1>7 DEF ReturnsLive, Ready, playerVars, rest, LiveInv, PageFields, Fielded
  <2> QED
    BY <2>1, PageSteps DEF Blames
<1>8. CASE ModeChanges
  <2>1. /\ Settled /\ attempt.on /\ Attach(attempt.stream, attempt.health)
        /\ UNCHANGED <<page, done>>
    BY <1>8 DEF ModeChanges, Ready, rest
  <2>2. /\ UnderWay(attempt') /\ attempt'.stream = attempt.stream
        /\ attempt'.health = attempt.health
        /\ \A x \in attached' : x.stream = attempt.stream
        /\ failed' = failed
    BY <2>1, AttachFacts
  <2> QED
    BY <2>1, <2>2 DEF LiveInv, PageFields, AttemptFields, NoStaleStream, UnderWay, Given,
                      MomentIsKept, SelectionIsKept, Settled, Blames
<1>9. ASSUME NEW c \in Channels, ProbeHides(c) \/ ProbeRestores(c)
      PROVE  LiveInv' /\ Blames
  <2>1. /\ Settled /\ UNCHANGED <<attempt, attached, done, page>>
        /\ failed' = failed \/ failed' = failed \ {c}
    BY <1>9 DEF ProbeHides, ProbeRestores, Ready
  <2>2. PageFields'
    BY <2>1 DEF LiveInv, PageFields, Fielded
  <2> QED
    BY <2>1, <2>2, PageSteps DEF Blames
<1>10. CASE ShowsAll
  <2>1. Settled /\ UNCHANGED <<attempt, attached, done>> /\ PageFields' /\ failed' = {}
    BY <1>10 DEF ShowsAll, Ready, rest, LiveInv, PageFields, Fielded
  <2> QED
    BY <2>1, PageSteps DEF Blames
<1>11. ASSUME NEW on \in BOOLEAN, HidesAnyway(on)
       PROVE  LiveInv' /\ Blames
  <2>1. Settled /\ UNCHANGED <<attempt, attached, done, failed>> /\ PageFields'
    BY <1>11 DEF HidesAnyway, Ready, playerVars, rest, LiveInv, PageFields, Fielded
  <2> QED
    BY <2>1, PageSteps DEF Blames
<1>12. CASE Plays
  <2>1. Settled /\ PlayerNext /\ UNCHANGED <<page, done>>
    BY <1>12 DEF Plays, rest
  <2>2. PlayerKeeps
    BY <2>1, PlayerStep DEF LiveInv
  <2> QED
    BY <2>1, <2>2 DEF LiveInv, PlayerKeeps, Blames, PageFields, Given, MomentIsKept,
                      SelectionIsKept, Settled
<1>13. CASE UNCHANGED vars
  <2>1. UNCHANGED <<attempt, attached, done, page, failed, autoHide, probed>>
    BY <1>13 DEF vars, playerVars
  <2>2. Deps' = Deps
    <3>1. HiddenIds' = HiddenIds
      BY <2>1 DEF HiddenIds
    <3>2. Shown' = Shown
      BY <2>1, <3>1 DEF Shown, Broken
    <3> QED
      BY <2>1, <3>2 DEF Deps, Selected
  <2> QED
    BY <2>1, <2>2 DEF LiveInv, PageFields, AttemptFields, NoStaleStream, Given, MomentIsKept,
                      SelectionIsKept, Settled, Blames
<1> QED
  BY <1>1, <1>2, <1>3, <1>4, <1>5, <1>6, <1>7, <1>8, <1>9, <1>10, <1>11, <1>12, <1>13 DEF Next

LEMMA InitLive == Init => LiveInv
<1> SUFFICES ASSUME Init PROVE LiveInv
  OBVIOUS
<1>1. attempt = NoAttempt /\ attached = {} /\ done.active = NoChannel
  BY DEF Init, PlayerInit
<1>2. PageFields
  <2> DEFINE started == [Blank EXCEPT !.catchup = link.start]
             hydrated == [started EXCEPT !.all = TRUE, !.load = "hydrated"]
  <2>1. page \in {started, Linked(hydrated)}
    BY DEF Init
  <2>2. Fielded(started)
    BY DEF Blank, Fielded
  <2>3. Fielded(hydrated)
    BY <2>2 DEF Fielded
  <2> HIDE DEF started, hydrated
  <2> QED
    BY <2>1, <2>2, <2>3, LinkedKeepsFields DEF PageFields
<1>3. done.len = 0
  BY DEF Init
<1> QED
  BY <1>1, <1>2, <1>3 DEF LiveInv, AttemptFields, NoStaleStream, Given, MomentIsKept,
                          SelectionIsKept, NoAttempt

LEMMA LiveAlways == Spec => []LiveInv
  BY InitLive, LiveStep, PTL DEF Spec

(* Nothing of an attempt that was left is on the video element.            *)
THEOREM NothingStale == Spec => []NoStaleStream
<1>1. LiveInv => NoStaleStream
  BY DEF LiveInv
<1> QED
  BY <1>1, LiveAlways, PTL

(* The moment the page claims to replay is the one the player was given an *)
(* archive URL for.                                                        *)
THEOREM ReplayIsReal == Spec => []ReplayIsOfTheArchive
<1>1. LiveInv => ReplayIsOfTheArchive
  <2> SUFFICES ASSUME LiveInv, Settled, Active # NoChannel, page.catchup > 0
               PROVE  Candidates[Active] > 0 /\ attempt.stream.start = page.catchup
    BY DEF ReplayIsOfTheArchive
  <2>1. done = Deps /\ done.active = Active /\ done.catchup = page.catchup
    BY DEF Settled, Deps, Active
  <2>2. Archived(done) /\ attempt.stream = Playable(done)
    BY <2>1 DEF LiveInv, MomentIsKept, Given
  <2> QED
    BY <2>1, <2>2 DEF Archived, Playable
<1> QED
  BY <1>1, LiveAlways, PTL

(* Once the effects are through, something is selected if the list is not  *)
(* empty, and the player has it.                                           *)
THEOREM SelectedIsPlayed == Spec => []SelectionPlays
<1>1. LiveInv => SelectionPlays
  <2> SUFFICES ASSUME LiveInv, Settled PROVE SelectionPlays
    BY DEF SelectionPlays, SelectionIsGiven
  <2>1. done.active = Active /\ done.len = Len(Shown)
    BY DEF Settled, Deps, Active
  <2>2. Len(Shown) > 0 => Active # NoChannel
    BY <2>1 DEF LiveInv, SelectionIsKept
  <2>3. Active # NoChannel => attempt.on /\ attempt.stream.ch = Active
    BY <2>1 DEF LiveInv, Given, Playable
  <2> QED
    BY <2>2, <2>3 DEF SelectionPlays, SelectionIsGiven
<1> QED
  BY <1>1, LiveAlways, PTL

(* A failure is counted against the channel whose live URL is under way.   *)
THEOREM LiveIsBlamed == Spec => OnlyLiveIsBlamed
<1>1. LiveInv /\ [Next]_vars =>
        [\A c \in failed' \ failed : attempt.on /\ attempt.stream = [ch |-> c, start |-> 0]]_vars
  <2> SUFFICES ASSUME LiveInv, [Next]_vars, NEW c \in failed' \ failed
               PROVE  attempt.on /\ attempt.stream = [ch |-> c, start |-> 0]
    OBVIOUS
  <2>1. attempt.on /\ c = attempt.health /\ c # NoChannel
    BY LiveStep DEF Blames
  <2>2. attempt.stream = Playable(done) /\ c = HealthOf(done)
    BY <2>1 DEF LiveInv, Given
  <2>3. ~(done.catchup > 0) /\ c = done.active
    BY <2>1, <2>2 DEF HealthOf
  <2> QED
    BY <2>1, <2>2, <2>3 DEF Playable, Archived
<1> QED
  BY <1>1, LiveAlways, PTL DEF Spec, OnlyLiveIsBlamed

(***************************************************************************)
(* The tiles.  A job that waits has done nothing but ask, and is not let   *)
(* in yet; a session that the pointer is on is the only one of its tile,   *)
(* and holds its slot from the moment it goes on; a capture that was not   *)
(* cancelled is of a tile that still wants it.                             *)
(***************************************************************************)
AskedIsFresh ==
    \A j \in Jobs : job[j].phase = "asked" =>
        ~job[j].watched /\ ~job[j].source /\ job[j].play = "no" /\ job[j].frame = "no"

Queued == {waiting[i] : i \in 1 .. Len(waiting)}
NoneTwice == \A i, k \in 1 .. Len(waiting) : waiting[i] = waiting[k] => i = k
Queue == NoneTwice /\ \A j \in Queued : job[j].phase = "asked" /\ j \notin active

SessionsFit ==
    \A j \in Jobs : job[j].kind = "hover" =>
        /\ job[j].play = "pending" => job[j].phase = "on"
        /\ job[j].cancelled => ~job[j].source /\ (j \in active => job[j].phase = "asked")
        /\ ~job[j].cancelled =>
              /\ Hovering(tile[job[j].tile])
              /\ job[j].phase # "asked" => j \in active
              /\ job[j].source <=> job[j].phase = "on"

OneSession ==
    \A t \in Tiles : \A j, k \in Under(t, "hover") : j = k

CapturesFit ==
    \A j \in Jobs : job[j].kind = "capture" /\ ~job[j].cancelled => Capturing(tile[job[j].tile])

LiveIsPlayed == \A t \in Tiles : tile[t].live => \E j \in Under(t, "hover") : job[j].source

TilesInv ==
    /\ TilesTypeOK /\ AskedIsFresh /\ Queue /\ WaitsOnlyWhenFull
    /\ SessionsFit /\ OneSession /\ CapturesFit /\ LiveIsPlayed /\ StillsAreRevoked

\* Of the pool: none of out keeps a slot and nobody else loses one, those let
\* in were waiting or are new, and nobody waits while a slot is free.
PoolMoves(out, new) ==
    /\ active' \subseteq Jobs /\ waiting' \in Seq(Jobs)
    /\ active \ out \subseteq active' /\ out \cap active' = {}
    /\ active' \subseteq active \cup new \cup Queued
    /\ Queued' \subseteq Queued \cup new /\ Queued' \cap active' = {}
    /\ NoneTwice' /\ WaitsOnlyWhenFull'

LEMMA PoolStays ==
  ASSUME TilesTypeOK, Queue, WaitsOnlyWhenFull, UNCHANGED pool
  PROVE  PoolMoves({}, {})
  BY DEF TilesTypeOK, Queue, WaitsOnlyWhenFull, pool, PoolMoves, Queued, NoneTwice

LEMMA Releases ==
  ASSUME TilesTypeOK, Queue, WaitsOnlyWhenFull, NEW j \in Jobs, j \notin Queued, Release(j)
  PROVE  PoolMoves({j}, {})
<1>1. CASE waiting = << >>
  <2>1. active' = active \ {j} /\ waiting' = waiting
    BY <1>1 DEF Release
  <2> QED
    BY <1>1, <2>1 DEF TilesTypeOK, PoolMoves, Queued, NoneTwice, WaitsOnlyWhenFull
<1>2. CASE waiting # << >>
  <2> DEFINE h == Head(waiting)
  <2>1. active' = (active \ {j}) \cup {h} /\ waiting' = Tail(waiting)
    BY <1>2 DEF Release
  <2>2. waiting \in Seq(Jobs) /\ Len(waiting) \in Nat \ {0} /\ h = waiting[1]
    BY <1>2 DEF TilesTypeOK
  <2>3. /\ Tail(waiting) \in Seq(Jobs) /\ Len(Tail(waiting)) = Len(waiting) - 1
        /\ \A i \in 1 .. Len(waiting) - 1 : Tail(waiting)[i] = waiting[i + 1]
    BY <2>2, <1>2
  <2>4. h \in Queued /\ h \in Jobs /\ h # j /\ h \notin active
    BY <2>2 DEF Queued, Queue
  <2>5. Queued' \subseteq Queued \ {h}
    <3> SUFFICES ASSUME NEW i \in 1 .. Len(waiting') PROVE waiting'[i] \in Queued \ {h}
      BY DEF Queued
    <3>1. waiting'[i] = waiting[i + 1] /\ i + 1 \in 1 .. Len(waiting) /\ i + 1 # 1
      BY <2>1, <2>2, <2>3
    <3>2. 1 \in 1 .. Len(waiting)
      BY <2>2
    <3> QED
      BY <3>1, <3>2, <2>2 DEF Queued, Queue, NoneTwice
  <2>6. NoneTwice'
    <3> SUFFICES ASSUME NEW i \in 1 .. Len(waiting'), NEW k \in 1 .. Len(waiting'),
                        waiting'[i] = waiting'[k]
                 PROVE  i = k
      BY DEF NoneTwice
    <3>1. /\ waiting'[i] = waiting[i + 1] /\ i + 1 \in 1 .. Len(waiting)
          /\ waiting'[k] = waiting[k + 1] /\ k + 1 \in 1 .. Len(waiting)
      BY <2>1, <2>2, <2>3
    <3>2. i + 1 = k + 1
      BY <3>1 DEF Queue, NoneTwice
    <3> QED
      BY <3>2
  <2>7. Cardinality(active') >= MaxConcurrent
    <3>1. IsFiniteSet(active)
      BY TilesAssumption, FS_Subset DEF TilesAssumption, TilesTypeOK
    <3>2. /\ IsFiniteSet(active \ {j})
          /\ Cardinality(active \ {j}) = IF j \in active THEN Cardinality(active) - 1
                                                         ELSE Cardinality(active)
      BY <3>1, FS_RemoveElement
    <3>3. h \notin active \ {j}
      BY <2>4
    <3>4. Cardinality((active \ {j}) \cup {h}) = Cardinality(active \ {j}) + 1
      BY <3>2, <3>3, FS_AddElement
    <3>5. Cardinality(active) \in Nat /\ Cardinality(active) >= MaxConcurrent
      BY <1>2, <3>1, FS_CardinalityType DEF WaitsOnlyWhenFull
    <3> HIDE DEF h
    <3> QED
      BY <2>1, <3>2, <3>4, <3>5, TilesAssumption DEF TilesAssumption
  <2>8. Queued' \cap active' = {}
    BY <2>1, <2>5 DEF Queue
  <2> QED
    BY <2>1, <2>3, <2>4, <2>5, <2>6, <2>7, <2>8 DEF TilesTypeOK, PoolMoves, WaitsOnlyWhenFull
<1> QED
  BY <1>1, <1>2

LEMMA Acquires ==
  ASSUME TilesTypeOK, Queue, WaitsOnlyWhenFull, NEW j \in Jobs,
         j \notin Queued, j \notin active, Acquire(j)
  PROVE  PoolMoves({}, {j})
<1>1. CASE Cardinality(active) < MaxConcurrent
  <2>1. active' = active \cup {j} /\ waiting' = waiting
    BY <1>1 DEF Acquire
  <2>2. IsFiniteSet(active)
    BY TilesAssumption, FS_Subset DEF TilesAssumption, TilesTypeOK
  <2>3. Cardinality(active) \in Nat
    BY <2>2, FS_CardinalityType
  <2>4. waiting = << >>
    BY <1>1, <2>3, TilesAssumption DEF TilesAssumption, WaitsOnlyWhenFull
  <2> QED
    BY <2>1, <2>4 DEF TilesTypeOK, Queue, PoolMoves, Queued, NoneTwice, WaitsOnlyWhenFull
<1>2. CASE ~(Cardinality(active) < MaxConcurrent)
  <2>1. waiting' = Append(waiting, j) /\ active' = active
    BY <1>2 DEF Acquire
  <2>2. /\ waiting \in Seq(Jobs) /\ Len(waiting) \in Nat
        /\ waiting' \in Seq(Jobs) /\ Len(waiting') = Len(waiting) + 1
        /\ \A i \in 1 .. Len(waiting) : waiting'[i] = waiting[i]
        /\ waiting'[Len(waiting) + 1] = j
    BY <2>1 DEF TilesTypeOK
  <2>3. \A i \in 1 .. Len(waiting') : i \in 1 .. Len(waiting) \/ i = Len(waiting) + 1
    BY <2>2
  <2>4. Queued' \subseteq Queued \cup {j}
    BY <2>2, <2>3 DEF Queued
  <2>5. NoneTwice'
    <3> SUFFICES ASSUME NEW i \in 1 .. Len(waiting'), NEW k \in 1 .. Len(waiting'),
                        waiting'[i] = waiting'[k]
                 PROVE  i = k
      BY DEF NoneTwice
    <3>1. CASE i \in 1 .. Len(waiting) /\ k \in 1 .. Len(waiting)
      BY <3>1, <2>2 DEF Queue, NoneTwice
    <3>2. CASE i \in 1 .. Len(waiting) /\ k = Len(waiting) + 1
      BY <3>2, <2>2 DEF Queued
    <3>3. CASE i = Len(waiting) + 1 /\ k \in 1 .. Len(waiting)
      BY <3>3, <2>2 DEF Queued
    <3> QED
      BY <3>1, <3>2, <3>3, <2>3
  <2>6. Cardinality(active) \in Nat
    <3>1. IsFiniteSet(active)
      BY TilesAssumption, FS_Subset DEF TilesAssumption, TilesTypeOK
    <3> QED
      BY <3>1, FS_CardinalityType
  <2>7. WaitsOnlyWhenFull'
    BY <1>2, <2>1, <2>6, TilesAssumption DEF TilesAssumption, WaitsOnlyWhenFull
  <2> QED
    BY <2>1, <2>2, <2>4, <2>5, <2>7 DEF TilesTypeOK, Queue, PoolMoves
<1> QED
  BY <1>1, <1>2

(***************************************************************************)
(* Jobs.                                                                   *)
(***************************************************************************)
LEMMA DoneIsDone ==
  ASSUME NEW kind \in {"capture", "hover"}
  PROVE  /\ Done(kind) \in Job /\ Done(kind).kind = kind
         /\ Done(kind).phase = "on" /\ Done(kind).cancelled
         /\ ~Done(kind).watched /\ ~Done(kind).source
         /\ Done(kind).play = "no" /\ Done(kind).frame = "no"
  BY TilesAssumption DEF TilesAssumption, Done, Job

\* Resting changes a job that is over only.
LEMMA RestFacts ==
  ASSUME NEW r \in Job
  PROVE  /\ Rest(r) \in Job /\ Rest(r).kind = r.kind /\ Rest(r).phase = r.phase
         /\ Rest(r) = r \/ (Rest(r) = Done(r.kind) /\ Rest(r).cancelled)
         /\ Rest(r).source => r.source
         /\ Rest(r).play = "pending" => r.play = "pending"
         /\ r.cancelled => Rest(r).cancelled
         /\ r.kind = "hover" /\ ~r.cancelled => Rest(r) = r
<1>1. r.kind \in {"capture", "hover"} /\ r.phase \in {"asked", "import", "on"}
  BY DEF Job
<1>2. CASE Pending(r)
  BY <1>2 DEF Rest
<1>3. CASE ~Pending(r)
  BY <1>1, <1>3, DoneIsDone DEF Rest, Pending
<1> QED
  BY <1>2, <1>3

LEMMA QueuedIsAsked ==
  ASSUME TilesInv, NEW j \in Jobs, job[j].phase # "asked" \/ j \in active
  PROVE  j \notin Queued
  BY DEF TilesInv, Queue

\* A callback of a capture changes nothing that sessions or the queue rest on.
LEMMA CaptureMoves ==
  ASSUME TilesInv, NEW j \in Jobs, NEW r \in Job, job' = [job EXCEPT ![j] = r],
         job[j].kind = "capture", r.kind = "capture", r.phase # "asked", j \notin Queued,
         r.cancelled \/ (~job[j].cancelled /\ r.tile = job[j].tile),
         PoolMoves({}, {}) \/ PoolMoves({j}, {}), UNCHANGED moves,
         tile' \in [Tiles -> Tile], blobs' \in [Tiles -> Nat], StillsAreRevoked',
         \A t \in Tiles : /\ Capturing(tile[t]) => Capturing(tile'[t])
                          /\ Hovering(tile[t]) => Hovering(tile'[t])
                          /\ tile'[t].live => tile[t].live
  PROVE  TilesInv'
<1> USE DEF TilesInv
<1>1. job' \in [Jobs -> Job] /\ job'[j] = r /\ \A k \in Jobs \ {j} : job'[k] = job[k]
  BY DEF TilesTypeOK
<1>2. /\ active' \subseteq Jobs /\ waiting' \in Seq(Jobs)
      /\ active \ {j} \subseteq active' /\ active' \subseteq active \cup Queued
      /\ Queued' \subseteq Queued /\ Queued' \cap active' = {}
      /\ NoneTwice' /\ WaitsOnlyWhenFull'
  BY DEF PoolMoves
<1>3. Queued \subseteq Jobs
  BY DEF Queued, TilesTypeOK
<1>4. TilesTypeOK'
  BY <1>1, <1>2 DEF TilesTypeOK
<1>5. AskedIsFresh'
  BY <1>1 DEF AskedIsFresh
<1>6. Queue'
  <2> SUFFICES ASSUME NEW k \in Queued' PROVE job'[k].phase = "asked" /\ k \notin active'
    BY <1>2 DEF Queue
  <2>1. k \in Queued /\ k # j
    BY <1>2
  <2> QED
    BY <2>1, <1>1, <1>2, <1>3 DEF Queue
<1>7. SessionsFit'
  <2> SUFFICES ASSUME NEW k \in Jobs, job'[k].kind = "hover"
               PROVE  /\ job'[k].play = "pending" => job'[k].phase = "on"
                      /\ job'[k].cancelled =>
                           ~job'[k].source /\ (k \in active' => job'[k].phase = "asked")
                      /\ ~job'[k].cancelled =>
                            /\ Hovering(tile'[job'[k].tile])
                            /\ job'[k].phase # "asked" => k \in active'
                            /\ job'[k].source <=> job'[k].phase = "on"
    BY DEF SessionsFit
  <2>1. k # j /\ job'[k] = job[k]
    BY <1>1
  <2>2. job[k].tile \in Tiles
    BY DEF TilesTypeOK, Job
  <2>3. k \in active' => k \in active \/ job[k].phase = "asked"
    BY <1>2 DEF Queue
  <2> QED
    BY <2>1, <2>2, <2>3, <1>2 DEF SessionsFit
<1>8. \A t \in Tiles : Under(t, "hover")' = Under(t, "hover")
  BY <1>1 DEF Under
<1>9. OneSession'
  BY <1>8 DEF OneSession
<1>10. CapturesFit'
  <2> SUFFICES ASSUME NEW k \in Jobs, job'[k].kind = "capture", ~job'[k].cancelled
               PROVE  Capturing(tile'[job'[k].tile])
    BY DEF CapturesFit
  <2>1. /\ job[k].kind = "capture" /\ ~job[k].cancelled
        /\ job'[k].tile = job[k].tile /\ job[k].tile \in Tiles
    BY <1>1 DEF TilesTypeOK, Job
  <2> QED
    BY <2>1 DEF CapturesFit
<1>11. LiveIsPlayed'
  <2> SUFFICES ASSUME NEW t \in Tiles, tile'[t].live
               PROVE  \E k \in Under(t, "hover")' : job'[k].source
    BY DEF LiveIsPlayed
  <2>1. PICK k \in Under(t, "hover") : job[k].source
    BY DEF LiveIsPlayed
  <2>2. k \in Jobs /\ k # j
    BY <2>1 DEF Under
  <2> QED
    BY <2>1, <2>2, <1>1, <1>8
<1> QED
  BY <1>2, <1>4, <1>5, <1>6, <1>7, <1>9, <1>10, <1>11

LEMMA GoOnStep ==
  ASSUME TilesInv, NEW j \in Jobs, GoOn(j)
  PROVE  TilesInv'
<1> USE DEF TilesInv
<1>1. /\ job[j] \in Job /\ job[j].phase = "asked" /\ j \in active
      /\ ~job[j].watched /\ ~job[j].source /\ job[j].play = "no" /\ job[j].frame = "no"
      /\ UNCHANGED <<tile, blobs, moves>>
  BY DEF GoOn, Granted, TilesTypeOK, AskedIsFresh
<1>2. job[j].kind \in {"capture", "hover"} /\ job[j].tile \in Tiles /\ j \notin Queued
  BY <1>1, QueuedIsAsked DEF Job
<1>3. PICK r \in Job :
        /\ job' = [job EXCEPT ![j] = r] /\ r.kind = job[j].kind /\ r.phase # "asked"
        /\ \/ /\ job[j].cancelled /\ r = Done(job[j].kind) /\ PoolMoves({j}, {})
           \/ /\ ~job[j].cancelled /\ ~r.cancelled /\ r.tile = job[j].tile /\ PoolMoves({}, {})
              /\ r.source <=> r.phase = "on"
              /\ r.play = "pending" => r.phase = "on"
  <2>1. CASE job[j].cancelled
    <3>1. HandsBack(j)
      BY <2>1 DEF GoOn
    <3>2. PoolMoves({j}, {})
      BY <3>1, <1>2, Releases DEF HandsBack
    <3> QED
      BY <2>1, <3>1, <3>2, <1>2, DoneIsDone DEF HandsBack
  <2>2. CASE ~job[j].cancelled
    <3> DEFINE r == [Started(j) EXCEPT !.watched = (job[j].kind = "capture")]
    <3>1. job' = [job EXCEPT ![j] = r] /\ PoolMoves({}, {})
      BY <2>2, PoolStays DEF GoOn
    <3>2. /\ r \in Job /\ r.kind = job[j].kind /\ r.phase # "asked" /\ ~r.cancelled
          /\ r.tile = job[j].tile
          /\ r.source <=> r.phase = "on"
          /\ r.play = "pending" => r.phase = "on"
      <4>1. CASE job[j].tile \in Hls
        <5>1. r = [job[j] EXCEPT !.phase = "import", !.watched = (job[j].kind = "capture")]
          BY <4>1 DEF Started
        <5> QED
          BY <5>1, <1>1, <2>2 DEF Job
      <4>2. CASE job[j].tile \notin Hls
        <5>1. r = [job[j] EXCEPT !.phase = "on", !.source = TRUE, !.play = "pending",
                                 !.watched = (job[j].kind = "capture")]
          BY <4>2 DEF Started
        <5> QED
          BY <5>1, <1>1, <2>2 DEF Job
      <4> QED
        BY <4>1, <4>2
    <3> HIDE DEF r
    <3> QED
      BY <3>1, <3>2, <2>2
  <2> QED
    BY <2>1, <2>2
<1>4. tile' \in [Tiles -> Tile] /\ blobs' \in [Tiles -> Nat] /\ StillsAreRevoked'
  BY <1>1 DEF TilesTypeOK, StillsAreRevoked
<1>5. CASE job[j].kind = "capture"
  <2>1. r.cancelled \/ (~job[j].cancelled /\ r.tile = job[j].tile)
    BY <1>3, <1>5, DoneIsDone
  <2> QED
    BY <1>1, <1>2, <1>3, <1>4, <1>5, <2>1, CaptureMoves
<1>6. CASE job[j].kind = "hover"
  <2>1. /\ job' \in [Jobs -> Job] /\ job'[j] = r /\ \A k \in Jobs \ {j} : job'[k] = job[k]
    BY <1>3 DEF TilesTypeOK
  <2>2. /\ active' \subseteq Jobs /\ waiting' \in Seq(Jobs)
        /\ active \ {j} \subseteq active' /\ active' \subseteq active \cup Queued
        /\ Queued' \subseteq Queued /\ Queued' \cap active' = {}
        /\ NoneTwice' /\ WaitsOnlyWhenFull'
    BY <1>3 DEF PoolMoves
  <2>3. Queued \subseteq Jobs
    BY DEF Queued, TilesTypeOK
  <2>4. TilesTypeOK' /\ AskedIsFresh' /\ Queue'
    <3>1. TilesTypeOK'
      BY <1>1, <2>1, <2>2 DEF TilesTypeOK
    <3>2. AskedIsFresh'
      BY <1>3, <2>1 DEF AskedIsFresh
    <3>3. \A k \in Queued' : k \in Queued /\ k # j /\ k \in Jobs
      BY <2>2, <2>3, <1>2
    <3>4. Queue'
      BY <3>3, <2>1, <2>2 DEF Queue
    <3> QED
      BY <3>1, <3>2, <3>4
  <2>5. SessionsFit'
    <3> SUFFICES ASSUME NEW k \in Jobs, job'[k].kind = "hover"
                 PROVE  /\ job'[k].play = "pending" => job'[k].phase = "on"
                        /\ job'[k].cancelled =>
                             ~job'[k].source /\ (k \in active' => job'[k].phase = "asked")
                        /\ ~job'[k].cancelled =>
                              /\ Hovering(tile'[job'[k].tile])
                              /\ job'[k].phase # "asked" => k \in active'
                              /\ job'[k].source <=> job'[k].phase = "on"
      BY DEF SessionsFit
    <3>1. CASE k # j
      <4>1. k \in active' => k \in active \/ job[k].phase = "asked"
        BY <2>2 DEF Queue
      <4> QED
        BY <3>1, <4>1, <1>1, <2>1, <2>2 DEF SessionsFit
    <3>2. CASE k = j /\ job[j].cancelled
      <4>1. r = Done("hover") /\ j \notin active'
        BY <3>2, <1>3, <1>6 DEF PoolMoves
      <4> QED
        BY <3>2, <4>1, <2>1, DoneIsDone
    <3>3. CASE k = j /\ ~job[j].cancelled
      <4>1. j \in active'
        BY <3>3, <1>1, <1>3 DEF PoolMoves
      <4> QED
        BY <3>3, <4>1, <1>1, <1>3, <1>6, <2>1 DEF SessionsFit
    <3> QED
      BY <3>1, <3>2, <3>3
  <2>6. /\ \A t \in Tiles : Under(t, "hover")' \subseteq Under(t, "hover")
        /\ \A t \in Tiles : \A k \in Under(t, "hover") :
              k \in Under(t, "hover")' \/ (k = j /\ job[j].cancelled)
    BY <1>3, <2>1, <1>6, DoneIsDone DEF Under
  <2>7. OneSession'
    BY <2>6 DEF OneSession
  <2>8. CapturesFit'
    BY <1>1, <1>3, <1>6, <2>1 DEF CapturesFit
  <2>9. LiveIsPlayed'
    <3> SUFFICES ASSUME NEW t \in Tiles, tile[t].live
                 PROVE  \E k \in Under(t, "hover")' : job'[k].source
      BY <1>1 DEF LiveIsPlayed
    <3>1. PICK k \in Under(t, "hover") : job[k].source
      BY DEF LiveIsPlayed
    <3>2. k \in Jobs /\ k # j
      BY <3>1, <1>1 DEF Under
    <3> QED
      BY <3>1, <3>2, <2>1, <2>6
  <2> QED
    BY <1>4, <2>2, <2>4, <2>5, <2>7, <2>8, <2>9
<1> QED
  BY <1>2, <1>5, <1>6

\* The tiles are left alone, or one of them gets its still.
TilesShow ==
    /\ tile' \in [Tiles -> Tile] /\ blobs' \in [Tiles -> Nat] /\ StillsAreRevoked'
    /\ \A t \in Tiles : /\ Capturing(tile[t]) => Capturing(tile'[t])
                        /\ Hovering(tile[t]) => Hovering(tile'[t])
                        /\ tile'[t].live => tile[t].live

LEMMA TilesRest ==
  ASSUME TilesInv, UNCHANGED <<tile, blobs>>
  PROVE  TilesShow
  BY DEF TilesInv, TilesTypeOK, StillsAreRevoked, TilesShow

LEMMA CaptureCleansUp ==
  ASSUME TilesInv, NEW j \in Jobs, job[j].kind = "capture", job[j].phase # "asked",
         NEW r \in Job, r.kind = "capture", r.phase # "asked",
         r.cancelled = job[j].cancelled, r.tile = job[j].tile,
         CleanUp(j, r), TilesShow, UNCHANGED moves
  PROVE  TilesInv'
<1> DEFINE r1 == [r EXCEPT !.source = FALSE]
           new == Rest(r1)
<1>1. /\ r1 \in Job /\ r1.kind = "capture" /\ r1.phase # "asked"
      /\ r1.cancelled = job[j].cancelled /\ r1.tile = job[j].tile
  BY DEF Job
<1> HIDE DEF r1
<1>2. /\ new \in Job /\ new.kind = "capture" /\ new.phase # "asked"
      /\ new.cancelled \/ (~job[j].cancelled /\ new.tile = job[j].tile)
  BY <1>1, RestFacts DEF Job
<1>3. job' = [job EXCEPT ![j] = new] /\ Release(j)
  BY DEF CleanUp, r1
<1> HIDE DEF new
<1>4. j \notin Queued
  BY QueuedIsAsked
<1>5. PoolMoves({j}, {})
  BY <1>3, <1>4, Releases DEF TilesInv
<1> QED
  BY <1>2, <1>3, <1>4, <1>5, CaptureMoves DEF TilesShow

LEMMA CaptureGoesOn ==
  ASSUME TilesInv, NEW j \in Jobs, job[j].kind = "capture", job[j].phase # "asked",
         NEW r \in Job, r.kind = "capture", r.phase # "asked",
         r.cancelled = job[j].cancelled, r.tile = job[j].tile,
         job' = [job EXCEPT ![j] = r] \/ job' = [job EXCEPT ![j] = Rest(r)],
         UNCHANGED <<pool, tile, blobs, moves>>
  PROVE  TilesInv'
<1>1. /\ Rest(r) \in Job /\ Rest(r).kind = "capture" /\ Rest(r).phase # "asked"
      /\ Rest(r).cancelled \/ (~job[j].cancelled /\ Rest(r).tile = job[j].tile)
  BY RestFacts DEF Job
<1>2. PICK new \in {r, Rest(r)} : job' = [job EXCEPT ![j] = new]
  OBVIOUS
<1>3. /\ new \in Job /\ new.kind = "capture" /\ new.phase # "asked"
      /\ new.cancelled \/ (~job[j].cancelled /\ new.tile = job[j].tile)
  <2>1. job[j].cancelled \in BOOLEAN
    BY DEF TilesInv, TilesTypeOK, Job
  <2> QED
    BY <1>1, <2>1
<1>4. j \notin Queued /\ PoolMoves({}, {}) /\ TilesShow
  BY QueuedIsAsked, PoolStays, TilesRest DEF TilesInv
<1> QED
  BY <1>2, <1>3, <1>4, CaptureMoves DEF TilesShow

\* A capture that does anything has been let in.
LEMMA CaptureIsOn ==
  ASSUME TilesInv, NEW j \in Jobs,
         \/ job[j].watched \/ job[j].source \/ job[j].phase = "import"
         \/ job[j].play # "no" \/ job[j].frame # "no"
  PROVE  job[j] \in Job /\ job[j].phase # "asked"
  BY DEF TilesInv, TilesTypeOK, AskedIsFresh

LEMMA WatchdogStep ==
  ASSUME TilesInv, NEW j \in Jobs, Watchdog(j)
  PROVE  TilesInv'
<1> DEFINE r == [job[j] EXCEPT !.watched = FALSE]
<1>1. job[j] \in Job /\ job[j].phase # "asked" /\ job[j].kind = "capture"
  BY CaptureIsOn DEF Watchdog, Capture
<1>2. /\ r \in Job /\ r.kind = "capture" /\ r.phase # "asked"
      /\ r.cancelled = job[j].cancelled /\ r.tile = job[j].tile
  BY <1>1 DEF Job
<1>3. UNCHANGED <<tile, blobs, moves>>
  BY DEF Watchdog, Capture
<1>4. CASE job[j].cancelled
  <2>1. job' = [job EXCEPT ![j] = Rest(r)] /\ UNCHANGED pool
    BY <1>4 DEF Watchdog
  <2> HIDE DEF r
  <2> QED
    BY <1>1, <1>2, <1>3, <2>1, CaptureGoesOn
<1>5. CASE ~job[j].cancelled
  <2>1. CleanUp(j, r)
    BY <1>5 DEF Watchdog
  <2> HIDE DEF r
  <2> QED
    BY <1>1, <1>2, <1>3, <2>1, TilesRest, CaptureCleansUp
<1> QED
  BY <1>4, <1>5

LEMMA ImportedStep ==
  ASSUME TilesInv, NEW j \in Jobs, Imported(j)
  PROVE  TilesInv'
<1>1. job[j] \in Job /\ job[j].phase # "asked" /\ job[j].kind = "capture"
  BY CaptureIsOn DEF Imported, Capture
<1>2. UNCHANGED <<tile, blobs, moves>>
  BY DEF Imported, Capture
<1>3. CASE job' = [job EXCEPT ![j] = Attached(j)] /\ UNCHANGED pool
  <2>1. /\ Attached(j) \in Job /\ Attached(j).kind = "capture" /\ Attached(j).phase # "asked"
        /\ Attached(j).cancelled = job[j].cancelled /\ Attached(j).tile = job[j].tile
    BY <1>1 DEF Attached, Job
  <2> QED
    BY <1>1, <1>2, <1>3, <2>1, CaptureGoesOn
<1>4. CASE CleanUp(j, Over(j))
  <2>1. /\ Over(j) \in Job /\ Over(j).kind = "capture" /\ Over(j).phase # "asked"
        /\ Over(j).cancelled = job[j].cancelled /\ Over(j).tile = job[j].tile
    BY <1>1 DEF Over, Job
  <2> QED
    BY <1>1, <1>2, <1>4, <2>1, TilesRest, CaptureCleansUp
<1> QED
  BY <1>3, <1>4 DEF Imported

LEMMA FrameSteps ==
  ASSUME TilesInv, NEW j \in Jobs, FirstFrame(j) \/ Draw(j)
  PROVE  TilesInv'
<1>1. job[j] \in Job /\ job[j].phase # "asked" /\ job[j].kind = "capture"
  BY CaptureIsOn DEF FirstFrame, Draw, Capture
<1>2. UNCHANGED <<tile, blobs, moves>>
  BY DEF FirstFrame, Draw, Capture
<1> DEFINE f(x) == [job[j] EXCEPT !.frame = x]
           over == [job[j] EXCEPT !.frame = "done", !.watched = FALSE]
<1>3. \A x \in {"seen", "drawn", "done"} :
         /\ f(x) \in Job /\ f(x).kind = "capture" /\ f(x).phase # "asked"
         /\ f(x).cancelled = job[j].cancelled /\ f(x).tile = job[j].tile
  BY <1>1 DEF Job
<1>4. /\ over \in Job /\ over.kind = "capture" /\ over.phase # "asked"
      /\ over.cancelled = job[j].cancelled /\ over.tile = job[j].tile
  BY <1>1 DEF Job
<1>5. \/ CleanUp(j, over)
      \/ UNCHANGED pool /\ \E x \in {"seen", "drawn", "done"} :
            job' = [job EXCEPT ![j] = f(x)] \/ job' = [job EXCEPT ![j] = Rest(f(x))]
  BY DEF FirstFrame, Draw
<1> HIDE DEF f, over
<1> QED
  BY <1>1, <1>2, <1>3, <1>4, <1>5, TilesRest, CaptureCleansUp, CaptureGoesOn

LEMMA StillStep ==
  ASSUME TilesInv, NEW j \in Jobs, Still(j)
  PROVE  TilesInv'
<1> DEFINE r == [job[j] EXCEPT !.frame = "done", !.watched = FALSE]
           t == job[j].tile
<1>1. job[j] \in Job /\ job[j].phase # "asked" /\ job[j].kind = "capture"
  BY CaptureIsOn DEF Still
<1>2. /\ r \in Job /\ r.kind = "capture" /\ r.phase # "asked"
      /\ r.cancelled = job[j].cancelled /\ r.tile = job[j].tile
  BY <1>1 DEF Job
<1>3. CleanUp(j, r) /\ UNCHANGED moves
  BY DEF Still
<1>4. TilesShow
  <2>1. CASE UNCHANGED <<tile, blobs>>
    BY <2>1, TilesRest
  <2>2. CASE /\ ~job[j].cancelled
             /\ tile' = [tile EXCEPT ![t].snapshot = TRUE]
             /\ blobs' = [blobs EXCEPT ![t] = IF tile[t].snapshot THEN @ ELSE @ + 1]
    <3>1. t \in Tiles /\ tile[t] \in Tile
      BY <1>1 DEF Job, TilesInv, TilesTypeOK
    <3>2. Capturing(tile[t])
      BY <1>1, <2>2 DEF TilesInv, CapturesFit
    <3> DEFINE s == [tile[t] EXCEPT !.snapshot = TRUE]
    <3>3. /\ s \in Tile /\ s.mounted = tile[t].mounted /\ s.visible = tile[t].visible
          /\ s.hovered = tile[t].hovered /\ s.failed = tile[t].failed
          /\ s.live = tile[t].live /\ s.snapshot
      BY <3>1 DEF Tile
    <3>4. tile' = [tile EXCEPT ![t] = s]
      BY <2>2
    <3>5. \A u \in Tiles : tile'[u] = IF u = t THEN s ELSE tile[u]
      BY <3>4 DEF TilesInv, TilesTypeOK
    <3>6. \A u \in Tiles : blobs'[u] = IF u = t /\ ~tile[t].snapshot THEN blobs[u] + 1 ELSE blobs[u]
      BY <2>2, <3>1 DEF TilesInv, TilesTypeOK
    <3>7. blobs' \in [Tiles -> Nat] /\ tile' \in [Tiles -> Tile]
      BY <2>2, <3>1, <3>3, <3>4 DEF TilesInv, TilesTypeOK
    <3> HIDE DEF s
    <3>8. StillsAreRevoked'
      <4>1. tile[t].mounted /\ blobs[t] = IF tile[t].snapshot THEN 1 ELSE 0
        BY <3>1, <3>2 DEF Capturing, TilesInv, StillsAreRevoked
      <4>2. blobs'[t] = 1
        BY <3>1, <3>6, <4>1
      <4>4. tile'[t].mounted /\ tile'[t].snapshot
        BY <3>1, <3>3, <3>5, <4>1, Zenon
      <4>3. \A u \in Tiles \ {t} : blobs'[u] = blobs[u] /\ tile'[u] = tile[u]
        BY <3>5, <3>6
      <4> QED
        BY <4>2, <4>3, <4>4 DEF TilesInv, StillsAreRevoked
    <3> QED
      BY <3>3, <3>5, <3>7, <3>8 DEF TilesShow, Capturing, Hovering
  <2> QED
    BY <2>1, <2>2 DEF Still, TooLate
<1> HIDE DEF r
<1> QED
  BY <1>1, <1>2, <1>3, <1>4, CaptureCleansUp

LEMMA PlayingSteps ==
  ASSUME TilesInv, NEW j \in Jobs, StreamError(j) \/ PlayRefused(j) \/ PlayStarts(j)
  PROVE  TilesInv'
<1>1. job[j] \in Job /\ job[j].phase # "asked" /\ job[j].kind = "capture"
  BY CaptureIsOn DEF StreamError, PlayRefused, PlayStarts, Capture
<1>2. UNCHANGED <<tile, blobs, moves>>
  BY DEF StreamError, PlayRefused, PlayStarts, Capture
<1> DEFINE a == [job[j] EXCEPT !.watched = FALSE]
           b == [job[j] EXCEPT !.play = "done", !.watched = FALSE]
           c == [job[j] EXCEPT !.play = "done"]
<1>3. \A r \in {a, b, c} :
         /\ r \in Job /\ r.kind = "capture" /\ r.phase # "asked"
         /\ r.cancelled = job[j].cancelled /\ r.tile = job[j].tile
  BY <1>1 DEF Job
<1>4. \/ CleanUp(j, a) \/ CleanUp(j, b)
      \/ UNCHANGED pool /\ job' = [job EXCEPT ![j] = c]
  BY DEF StreamError, PlayRefused, PlayStarts
<1> HIDE DEF a, b, c
<1> QED
  BY <1>1, <1>2, <1>3, <1>4, TilesRest, CaptureCleansUp, CaptureGoesOn

(***************************************************************************)
(* Sessions.                                                               *)
(***************************************************************************)
\* A callback of a session changes its job and at most shows that it plays.
LEMMA SessionMoves ==
  ASSUME TilesInv, NEW j \in Jobs, NEW r \in Job, job' = [job EXCEPT ![j] = r],
         job[j].kind = "hover", r.kind = "hover", job[j].phase # "asked", r.phase = "on",
         r.play # "pending" \/ ~job[j].cancelled,
         job[j].cancelled => r.cancelled /\ ~r.source,
         ~job[j].cancelled => ~r.cancelled /\ r.source /\ r.tile = job[j].tile,
         UNCHANGED <<pool, blobs, moves>>,
         \/ UNCHANGED tile
         \/ ~job[j].cancelled /\ tile' = [tile EXCEPT ![job[j].tile].live = TRUE]
  PROVE  TilesInv'
<1> USE DEF TilesInv
<1>1. job' \in [Jobs -> Job] /\ job'[j] = r /\ \A k \in Jobs \ {j} : job'[k] = job[k]
  BY DEF TilesTypeOK
<1>2. /\ tile' \in [Tiles -> Tile]
      /\ \A t \in Tiles : /\ Capturing(tile'[t]) = Capturing(tile[t])
                          /\ Hovering(tile'[t]) = Hovering(tile[t])
                          /\ tile'[t].mounted = tile[t].mounted
                          /\ tile'[t].snapshot = tile[t].snapshot
                          /\ tile'[t].live => tile[t].live \/ (t = job[j].tile /\ ~job[j].cancelled)
  <2>1. CASE UNCHANGED tile
    BY <2>1 DEF TilesTypeOK
  <2>2. CASE ~job[j].cancelled /\ tile' = [tile EXCEPT ![job[j].tile].live = TRUE]
    <3> DEFINE u == job[j].tile
               s == [tile[u] EXCEPT !.live = TRUE]
    <3>1. u \in Tiles /\ tile[u] \in Tile
      BY DEF TilesTypeOK, Job
    <3>2. /\ s \in Tile /\ s.mounted = tile[u].mounted /\ s.visible = tile[u].visible
          /\ s.hovered = tile[u].hovered /\ s.failed = tile[u].failed
          /\ s.snapshot = tile[u].snapshot
      BY <3>1 DEF Tile
    <3>3. tile' = [tile EXCEPT ![u] = s]
      BY <2>2
    <3> HIDE DEF s
    <3> QED
      BY <2>2, <3>1, <3>2, <3>3 DEF TilesTypeOK, Capturing, Hovering
  <2> QED
    BY <2>1, <2>2
<1>3. UNCHANGED <<active, waiting>> /\ Queued' = Queued /\ NoneTwice' /\ j \notin Queued
  BY QueuedIsAsked DEF pool, Queued, NoneTwice, Queue
<1>4. Queued \subseteq Jobs
  BY DEF Queued, TilesTypeOK
<1>5. TilesTypeOK' /\ AskedIsFresh' /\ Queue' /\ WaitsOnlyWhenFull'
  <2>1. TilesTypeOK'
    BY <1>1, <1>2, <1>3 DEF TilesTypeOK
  <2>2. AskedIsFresh'
    BY <1>1 DEF AskedIsFresh
  <2>3. Queue'
    BY <1>1, <1>3, <1>4 DEF Queue
  <2> QED
    BY <2>1, <2>2, <2>3, <1>3 DEF WaitsOnlyWhenFull
<1>6. SessionsFit'
  <2> SUFFICES ASSUME NEW k \in Jobs, job'[k].kind = "hover"
               PROVE  /\ job'[k].play = "pending" => job'[k].phase = "on"
                      /\ job'[k].cancelled =>
                           ~job'[k].source /\ (k \in active' => job'[k].phase = "asked")
                      /\ ~job'[k].cancelled =>
                            /\ Hovering(tile'[job'[k].tile])
                            /\ job'[k].phase # "asked" => k \in active'
                            /\ job'[k].source <=> job'[k].phase = "on"
    BY DEF SessionsFit
  <2>1. job[k].tile \in Tiles /\ job[j].tile \in Tiles
    BY DEF TilesTypeOK, Job
  <2>2. CASE k # j
    BY <2>1, <2>2, <1>1, <1>2, <1>3 DEF SessionsFit
  <2>3. CASE k = j
    BY <2>1, <2>3, <1>1, <1>2, <1>3 DEF SessionsFit
  <2> QED
    BY <2>2, <2>3
<1>7. \A t \in Tiles : Under(t, "hover")' = Under(t, "hover")
  <2>1. j \in Jobs /\ job'[j].kind = job[j].kind /\ (job'[j].cancelled <=> job[j].cancelled)
        /\ (~job[j].cancelled => job'[j].tile = job[j].tile)
    BY <1>1
  <2>2. \A t \in Tiles : \A k \in Jobs :
           /\ job'[k].kind = "hover" /\ job'[k].tile = t /\ ~job'[k].cancelled
           <=> job[k].kind = "hover" /\ job[k].tile = t /\ ~job[k].cancelled
    BY <1>1, <2>1
  <2> QED
    BY <2>2 DEF Under
<1>8. OneSession'
  BY <1>7 DEF OneSession
<1>9. CapturesFit'
  <2> SUFFICES ASSUME NEW k \in Jobs, job'[k].kind = "capture", ~job'[k].cancelled
               PROVE  Capturing(tile'[job'[k].tile])
    BY DEF CapturesFit
  <2>1. k # j /\ job'[k] = job[k] /\ job[k].tile \in Tiles
    BY <1>1 DEF TilesTypeOK, Job
  <2> QED
    BY <2>1, <1>2 DEF CapturesFit
<1>10. LiveIsPlayed'
  <2> SUFFICES ASSUME NEW t \in Tiles, tile'[t].live
               PROVE  \E k \in Under(t, "hover")' : job'[k].source
    BY DEF LiveIsPlayed
  <2>1. CASE tile[t].live
    <3>1. PICK k \in Under(t, "hover") : job[k].source
      BY <2>1 DEF LiveIsPlayed
    <3>2. k \in Jobs /\ ~job[k].cancelled
      BY <3>1 DEF Under
    <3>3. job'[k].source
      BY <3>1, <3>2, <1>1
    <3> QED
      BY <3>1, <3>3, <1>7
  <2>2. CASE t = job[j].tile /\ ~job[j].cancelled
    BY <2>2, <1>1, <1>7 DEF Under
  <2> QED
    BY <2>1, <2>2, <1>2
<1>11. StillsAreRevoked'
  BY <1>2 DEF StillsAreRevoked
<1> QED
  BY <1>5, <1>6, <1>8, <1>9, <1>10, <1>11

LEMMA SessionSteps ==
  ASSUME TilesInv, NEW j \in Jobs, SessionImported(j) \/ SessionSettles(j)
  PROVE  TilesInv'
<1> USE DEF TilesInv
<1>1. job[j] \in Job /\ job[j].kind = "hover" /\ UNCHANGED <<blobs, moves>>
  BY DEF SessionImported, SessionSettles, Session, TilesTypeOK
<1>2. CASE SessionImported(j) /\ job[j].cancelled
  <2> DEFINE r == [job[j] EXCEPT !.phase = "on"]
  <2>1. /\ r \in Job /\ r.kind = "hover" /\ r.phase = "on" /\ r.cancelled
        /\ ~r.source /\ r.play = job[j].play
    BY <1>1, <1>2 DEF Job, SessionsFit
  <2>2. r.play # "pending"
    BY <2>1, <1>1, <1>2 DEF SessionImported, SessionsFit
  <2>3. job' = [job EXCEPT ![j] = Rest(r)] /\ UNCHANGED <<pool, tile>>
    BY <1>2 DEF SessionImported
  <2> HIDE DEF r
  <2>4. /\ Rest(r) \in Job /\ Rest(r).kind = "hover" /\ Rest(r).phase = "on"
        /\ Rest(r).cancelled /\ ~Rest(r).source /\ Rest(r).play # "pending"
    BY <2>1, <2>2, RestFacts
  <2> QED
    BY <1>1, <1>2, <2>3, <2>4, SessionMoves DEF SessionImported
<1>3. CASE SessionImported(j) /\ ~job[j].cancelled
  <2>1. /\ Attached(j) \in Job /\ Attached(j).kind = "hover" /\ Attached(j).phase = "on"
        /\ ~Attached(j).cancelled /\ Attached(j).source /\ Attached(j).tile = job[j].tile
    BY <1>1, <1>3 DEF Attached, Job
  <2>2. job' = [job EXCEPT ![j] = Attached(j)] /\ UNCHANGED <<pool, tile>>
    BY <1>3 DEF SessionImported
  <2> QED
    BY <1>1, <1>3, <2>1, <2>2, SessionMoves DEF SessionImported
<1>4. CASE SessionSettles(j)
  <2> DEFINE r == [job[j] EXCEPT !.play = "done"]
  <2>1. job[j].phase = "on" /\ job[j].play = "pending"
    BY <1>1, <1>4 DEF SessionSettles, SessionsFit
  <2>2. /\ r \in Job /\ r.kind = "hover" /\ r.phase = "on" /\ r.cancelled = job[j].cancelled
        /\ r.source = job[j].source /\ r.play = "done" /\ r.tile = job[j].tile
    BY <1>1, <2>1 DEF Job
  <2>3. job' = [job EXCEPT ![j] = Rest(r)] /\ UNCHANGED pool
    BY <1>4 DEF SessionSettles
  <2> HIDE DEF r
  <2>4. /\ Rest(r) \in Job /\ Rest(r).kind = "hover" /\ Rest(r).phase = "on"
        /\ Rest(r).play # "pending"
    BY <2>2, RestFacts
  <2>5. CASE job[j].cancelled
    <3>1. Rest(r).cancelled /\ ~Rest(r).source /\ UNCHANGED tile
      BY <1>1, <1>4, <2>2, <2>5, RestFacts DEF SessionSettles, SessionsFit
    <3> QED
      BY <1>1, <2>1, <2>3, <2>4, <2>5, <3>1, SessionMoves
  <2>6. CASE ~job[j].cancelled
    <3>1. Rest(r) = r /\ r.source
      BY <1>1, <2>1, <2>2, <2>6, RestFacts DEF SessionsFit
    <3>2. tile' = [tile EXCEPT ![job[j].tile].live = TRUE]
      BY <1>4, <2>6 DEF SessionSettles
    <3> QED
      BY <1>1, <2>1, <2>2, <2>3, <2>4, <2>6, <3>1, <3>2, SessionMoves
  <2> QED
    BY <2>5, <2>6
<1> QED
  BY <1>2, <1>3, <1>4

(***************************************************************************)
(* Commits.                                                                *)
(***************************************************************************)
\* A job that is stopped is cancelled, and a session without its source; jobs
\* that stay are of a tile that still wants them.
LEMMA StoppedFacts ==
  ASSUME TilesInv, NEW t \in Tiles, NEW s \in Tile, NEW k \in Jobs
  PROVE  LET r == Stopped(t, s)[k] IN
         /\ r \in Job /\ r.kind = job[k].kind /\ r.phase = job[k].phase
         /\ r.play = "pending" => job[k].play = "pending"
         /\ ~r.cancelled => r = job[k] /\ ~job[k].cancelled
         /\ r.kind = "hover" /\ r.cancelled => ~r.source
         /\ r.phase = "asked" => ~r.watched /\ ~r.source /\ r.play = "no" /\ r.frame = "no"
         /\ k \notin Stop(t, s) => r = job[k]
         /\ k \in Stop(t, s) => r.cancelled
<1> DEFINE r == Stopped(t, s)[k]
           c == [job[k] EXCEPT !.cancelled = TRUE]
           h == [job[k] EXCEPT !.cancelled = TRUE, !.source = FALSE]
<1>1. job[k] \in Job
  BY DEF TilesInv, TilesTypeOK
<1>2. job[k].phase = "asked" =>
        ~job[k].watched /\ ~job[k].source /\ job[k].play = "no" /\ job[k].frame = "no"
  BY DEF TilesInv, AskedIsFresh
<1>3. r = IF k \notin Stop(t, s) THEN job[k] ELSE IF job[k].kind = "capture" THEN c ELSE Rest(h)
  BY DEF Stopped
<1>4. /\ c \in Job /\ c.kind = job[k].kind /\ c.phase = job[k].phase /\ c.cancelled
      /\ c.watched = job[k].watched /\ c.source = job[k].source
      /\ c.play = job[k].play /\ c.frame = job[k].frame
  BY <1>1 DEF Job
<1>5. /\ h \in Job /\ h.kind = job[k].kind /\ h.phase = job[k].phase /\ h.cancelled
      /\ h.watched = job[k].watched /\ ~h.source
      /\ h.play = job[k].play /\ h.frame = job[k].frame
  BY <1>1 DEF Job
<1> HIDE DEF r, c, h
<1>6. CASE k \notin Stop(t, s)
  <2>1. r = job[k]
    BY <1>3, <1>6
  <2>2. job[k].kind = "hover" /\ job[k].cancelled => ~job[k].source
    BY DEF TilesInv, SessionsFit
  <2> QED
    BY <2>1, <2>2, <1>1, <1>2, <1>6 DEF r
<1>7. CASE k \in Stop(t, s) /\ job[k].kind = "capture"
  <2>1. r = c
    BY <1>3, <1>7
  <2> QED
    BY <2>1, <1>2, <1>4, <1>7 DEF r
<1>8. CASE k \in Stop(t, s) /\ job[k].kind # "capture"
  <2>1. r = Rest(h)
    BY <1>3, <1>8
  <2>2. /\ Rest(h) \in Job /\ Rest(h).kind = h.kind /\ Rest(h).phase = h.phase
        /\ Rest(h) = h \/ (Rest(h) = Done(h.kind) /\ Rest(h).cancelled)
        /\ ~Rest(h).source /\ Rest(h).cancelled
        /\ Rest(h).play = "pending" => h.play = "pending"
    BY <1>5, RestFacts
  <2>3. h.kind \in {"capture", "hover"}
    BY <1>5 DEF Job
  <2>4. h.phase = "asked" => ~Rest(h).watched /\ Rest(h).play = "no" /\ Rest(h).frame = "no"
    BY <2>2, <2>3, <1>2, <1>5, DoneIsDone
  <2> QED
    BY <2>1, <2>2, <2>4, <1>5, <1>8 DEF r
<1> QED
  BY <1>6, <1>7, <1>8

LEMMA AskedFacts ==
  ASSUME NEW kind \in {"capture", "hover"}, NEW t \in Tiles
  PROVE  /\ Asked(kind, t) \in Job /\ Asked(kind, t).kind = kind /\ Asked(kind, t).tile = t
         /\ Asked(kind, t).phase = "asked" /\ ~Asked(kind, t).cancelled
         /\ ~Asked(kind, t).watched /\ ~Asked(kind, t).source
         /\ Asked(kind, t).play = "no" /\ Asked(kind, t).frame = "no"
  BY DoneIsDone DEF Asked, Job

LEMMA FreeFacts ==
  ASSUME TilesInv, NEW n \in Jobs, Free(n)
  PROVE  /\ n \notin active /\ n \notin Queued /\ job[n].phase = "on"
         /\ \A t \in Tiles : n \notin Under(t, "hover")
<1>1. ~Pending(job[n]) /\ n \notin active /\ job[n].phase = "on"
  BY DEF Free, Pending
<1> QED
  BY <1>1, QueuedIsAsked DEF Pending, Under

LEMMA CommitMoves ==
  ASSUME TilesInv, NEW t \in Tiles, NEW s \in Tile, s.live => tile[t].live,
         tile' = [tile EXCEPT ![t] = IF Hovering(s) THEN s ELSE [s EXCEPT !.live = FALSE]],
         NEW out \in SUBSET Jobs, out = HeldSlots(t, s),
         NEW new \in SUBSET Jobs, \A n, m \in new : n = m,
         PoolMoves(out, new), job' \in [Jobs -> Job],
         \A k \in Jobs \ new : job'[k] = Stopped(t, s)[k],
         \A n \in new : /\ Free(n)
                        /\ \/ Capturing(s) /\ job'[n] = Asked("capture", t)
                           \/ Hovering(s) /\ ~Hovering(tile[t]) /\ job'[n] = Asked("hover", t),
         blobs' \in [Tiles -> Nat], moves' \in 0 .. MaxMoves, StillsAreRevoked'
  PROVE  TilesInv'
<1> USE DEF TilesInv
<1> DEFINE s1 == IF Hovering(s) THEN s ELSE [s EXCEPT !.live = FALSE]
<1>1. /\ s1 \in Tile /\ Hovering(s1) = Hovering(s) /\ Capturing(s1) = Capturing(s)
      /\ s1.live => s.live /\ Hovering(s)
  BY DEF Tile, Hovering, Capturing
<1> HIDE DEF s1
<1>2. /\ tile' \in [Tiles -> Tile]
      /\ \A u \in Tiles : tile'[u] = IF u = t THEN s1 ELSE tile[u]
  BY <1>1 DEF TilesTypeOK, s1
<1>3. /\ active' \subseteq Jobs /\ waiting' \in Seq(Jobs)
      /\ active \ out \subseteq active' /\ out \cap active' = {}
      /\ active' \subseteq active \cup new \cup Queued
      /\ Queued' \subseteq Queued \cup new /\ Queued' \cap active' = {}
      /\ NoneTwice' /\ WaitsOnlyWhenFull'
  BY DEF PoolMoves
<1>4. Queued \subseteq Jobs
  BY DEF Queued, TilesTypeOK
<1>5. ASSUME NEW k \in Jobs \ new
      PROVE  /\ job'[k] \in Job /\ job'[k].kind = job[k].kind /\ job'[k].phase = job[k].phase
             /\ job'[k].play = "pending" => job[k].play = "pending"
             /\ ~job'[k].cancelled => job'[k] = job[k] /\ ~job[k].cancelled
             /\ job'[k].kind = "hover" /\ job'[k].cancelled => ~job'[k].source
             /\ job'[k].phase = "asked" => /\ ~job'[k].watched /\ ~job'[k].source
                                           /\ job'[k].play = "no" /\ job'[k].frame = "no"
             /\ k \notin Stop(t, s) => job'[k] = job[k]
             /\ k \in Stop(t, s) => job'[k].cancelled
  BY StoppedFacts
<1>6. ASSUME NEW n \in new
      PROVE  /\ n \in Jobs /\ n \notin active /\ n \notin Queued
             /\ job'[n].tile = t /\ job'[n].phase = "asked" /\ ~job'[n].cancelled
             /\ ~job'[n].watched /\ ~job'[n].source
             /\ job'[n].play = "no" /\ job'[n].frame = "no"
             /\ \/ Capturing(s) /\ job'[n].kind = "capture"
                \/ Hovering(s) /\ ~Hovering(tile[t]) /\ job'[n].kind = "hover"
             /\ \A u \in Tiles : n \notin Under(u, "hover")
  BY FreeFacts, AskedFacts
<1>7. TilesTypeOK'
  BY <1>2, <1>3 DEF TilesTypeOK
<1>8. AskedIsFresh'
  BY <1>5, <1>6 DEF AskedIsFresh
<1>9. Queue'
  <2> SUFFICES ASSUME NEW k \in Queued' PROVE job'[k].phase = "asked" /\ k \notin active'
    BY <1>3 DEF Queue
  <2>1. CASE k \in new
    BY <2>1, <1>3, <1>6
  <2>2. CASE k \notin new
    BY <2>2, <1>3, <1>4, <1>5 DEF Queue
  <2> QED
    BY <2>1, <2>2
<1>10. SessionsFit'
  <2> SUFFICES ASSUME NEW k \in Jobs, job'[k].kind = "hover"
               PROVE  /\ job'[k].play = "pending" => job'[k].phase = "on"
                      /\ job'[k].cancelled =>
                           ~job'[k].source /\ (k \in active' => job'[k].phase = "asked")
                      /\ ~job'[k].cancelled =>
                            /\ Hovering(tile'[job'[k].tile])
                            /\ job'[k].phase # "asked" => k \in active'
                            /\ job'[k].source <=> job'[k].phase = "on"
    BY DEF SessionsFit
  <2>1. CASE k \in new
    BY <2>1, <1>1, <1>2, <1>6
  <2>2. CASE k \notin new
    <3>1. job[k].kind = "hover" /\ job[k].tile \in Tiles
      BY <2>2, <1>5 DEF TilesTypeOK, Job
    <3>2. job'[k].play = "pending" => job'[k].phase = "on"
      BY <2>2, <3>1, <1>5 DEF SessionsFit
    <3>3. ASSUME job'[k].cancelled, k \in active' PROVE job'[k].phase = "asked"
      <4>1. CASE k \in Queued
        BY <2>2, <4>1, <1>5 DEF Queue
      <4>2. CASE k \in active /\ job[k].cancelled
        BY <2>2, <3>1, <4>2, <1>5 DEF SessionsFit
      <4>3. CASE k \in active /\ ~job[k].cancelled
        <5>1. k \in Stop(t, s)
          BY <2>2, <3>3, <4>3, <1>5
        <5>2. k \notin HeldSlots(t, s)
          BY <3>3, <1>3
        <5> QED
          BY <5>1, <5>2, <2>2, <3>1, <1>5 DEF HeldSlots
      <4> QED
        BY <2>2, <3>3, <4>1, <4>2, <4>3, <1>3
    <3>4. ASSUME ~job'[k].cancelled
          PROVE  /\ Hovering(tile'[job'[k].tile])
                 /\ job'[k].phase # "asked" => k \in active'
                 /\ job'[k].source <=> job'[k].phase = "on"
      <4>1. job'[k] = job[k] /\ ~job[k].cancelled /\ k \notin Stop(t, s)
        BY <2>2, <3>4, <1>5
      <4>2. job[k].tile = t => Hovering(s)
        BY <3>1, <4>1 DEF Stop, Under, SessionsFit
      <4>3. Hovering(tile'[job'[k].tile])
        BY <3>1, <4>1, <4>2, <1>1, <1>2 DEF SessionsFit
      <4>4. k \notin out
        BY <4>1 DEF HeldSlots
      <4> QED
        BY <3>1, <4>1, <4>3, <4>4, <1>3 DEF SessionsFit
    <3> QED
      BY <2>2, <3>2, <3>3, <3>4, <1>5
  <2> QED
    BY <2>1, <2>2
<1>11. ASSUME NEW u \in Tiles, NEW k \in Under(u, "hover")'
       PROVE  k \in Under(u, "hover") \/ (k \in new /\ u = t /\ Under(u, "hover") = {})
  <2>1. k \in Jobs /\ job'[k].kind = "hover" /\ job'[k].tile = u /\ ~job'[k].cancelled
    BY <1>11 DEF Under
  <2>2. CASE k \notin new
    BY <2>1, <2>2, <1>5 DEF Under
  <2>3. CASE k \in new
    <3>1. u = t /\ ~Hovering(tile[t])
      BY <2>1, <2>3, <1>6
    <3>2. Under(t, "hover") = {}
      BY <3>1 DEF Under, SessionsFit
    <3> QED
      BY <2>3, <3>1, <3>2
  <2> QED
    BY <2>2, <2>3
<1>12. OneSession'
  BY <1>11 DEF OneSession
<1>13. CapturesFit'
  <2> SUFFICES ASSUME NEW k \in Jobs, job'[k].kind = "capture", ~job'[k].cancelled
               PROVE  Capturing(tile'[job'[k].tile])
    BY DEF CapturesFit
  <2>1. CASE k \in new
    BY <2>1, <1>1, <1>2, <1>6
  <2>2. CASE k \notin new
    <3>1. /\ job'[k] = job[k] /\ job[k].kind = "capture" /\ ~job[k].cancelled
          /\ k \notin Stop(t, s) /\ job[k].tile \in Tiles
      BY <2>2, <1>5 DEF TilesTypeOK, Job
    <3>2. job[k].tile = t => Capturing(s)
      BY <3>1 DEF Stop, Under, CapturesFit
    <3> QED
      BY <3>1, <3>2, <1>1, <1>2 DEF CapturesFit
  <2> QED
    BY <2>1, <2>2
<1>14. LiveIsPlayed'
  <2> SUFFICES ASSUME NEW u \in Tiles, tile'[u].live
               PROVE  \E k \in Under(u, "hover")' : job'[k].source
    BY DEF LiveIsPlayed
  <2>1. tile[u].live /\ (u = t => Hovering(s))
    BY <1>1, <1>2
  <2>2. PICK k \in Under(u, "hover") : job[k].source
    BY <2>1 DEF LiveIsPlayed
  <2>3. k \in Jobs /\ k \notin new /\ job[k].kind = "hover" /\ job[k].tile = u /\ ~job[k].cancelled
    BY <2>2, <1>6 DEF Under
  <2>4. k \notin Stop(t, s)
    BY <2>1, <2>3 DEF Stop, Under
  <2> QED
    BY <2>2, <2>3, <2>4, <1>5 DEF Under
<1> QED
  BY <1>3, <1>7, <1>8, <1>9, <1>10, <1>12, <1>13, <1>14

LEMMA CommitStep ==
  ASSUME TilesInv, NEW t \in Tiles, NEW s \in Tile, s.live => tile[t].live, Commit(t, s),
         blobs' \in [Tiles -> Nat], moves' \in 0 .. MaxMoves, StillsAreRevoked'
  PROVE  TilesInv'
<1>1. tile' = [tile EXCEPT ![t] = IF Hovering(s) THEN s ELSE [s EXCEPT !.live = FALSE]]
  BY DEF Commit
<1>2. DOMAIN Stopped(t, s) = Jobs /\ \A k \in Jobs : Stopped(t, s)[k] \in Job
  BY StoppedFacts DEF Stopped
<1>3. Stopped(t, s) \in [Jobs -> Job]
  BY <1>2 DEF Stopped
<1>4. CASE ~Hovering(tile[t]) /\ Hovering(s)
  <2>1. SomeFree /\ job' = [Stopped(t, s) EXCEPT ![NewJob] = Asked("hover", t)] /\ Acquire(NewJob)
    BY <1>4 DEF Commit
  <2>2. NewJob \in Jobs /\ Free(NewJob)
    BY <2>1 DEF SomeFree, NewJob
  <2>3. HeldSlots(t, s) = {}
    BY <1>4 DEF HeldSlots, Stop, Under
  <2>4. PoolMoves({}, {NewJob})
    BY <2>1, <2>2, FreeFacts, Acquires DEF TilesInv
  <2>5. job' \in [Jobs -> Job]
    BY <1>3, <2>1, <2>2, AskedFacts
  <2>6. /\ job'[NewJob] = Asked("hover", t)
        /\ \A k \in Jobs \ {NewJob} : job'[k] = Stopped(t, s)[k]
    BY <1>3, <2>1, <2>2
  <2> DEFINE new == {NewJob}
             out == HeldSlots(t, s)
  <2>7. /\ out \in SUBSET Jobs /\ new \in SUBSET Jobs /\ PoolMoves(out, new)
        /\ \A n, m \in new : n = m
    BY <2>2, <2>3, <2>4
  <2>8. \A k \in Jobs \ new : job'[k] = Stopped(t, s)[k]
    BY <2>6
  <2>9. \A n \in new : /\ Free(n)
                       /\ Hovering(s) /\ ~Hovering(tile[t]) /\ job'[n] = Asked("hover", t)
    BY <1>4, <2>2, <2>6
  <2> HIDE DEF new
  <2> QED
    BY <1>1, <2>5, <2>7, <2>8, <2>9, CommitMoves
<1>5. CASE ~(~Hovering(tile[t]) /\ Hovering(s))
  <2>1. /\ job' = Stopped(t, s)
        /\ IF HeldSlots(t, s) = {} THEN UNCHANGED pool ELSE \E j \in HeldSlots(t, s) : Release(j)
    BY <1>5 DEF Commit
  <2>2. PoolMoves(HeldSlots(t, s), {})
    <3>1. CASE HeldSlots(t, s) = {}
      BY <2>1, <3>1, PoolStays DEF TilesInv
    <3>2. CASE HeldSlots(t, s) # {}
      <4>1. PICK j \in HeldSlots(t, s) : Release(j)
        BY <2>1, <3>2
      <4>2. \A k \in HeldSlots(t, s) : k \in Jobs /\ k \in Under(t, "hover")
              /\ job[k].phase # "asked"
        BY DEF HeldSlots, Stop, Under
      <4>3. HeldSlots(t, s) = {j}
        BY <4>1, <4>2 DEF TilesInv, OneSession
      <4> QED
        BY <4>1, <4>2, <4>3, QueuedIsAsked, Releases DEF TilesInv
    <3> QED
      BY <3>1, <3>2
  <2>3. HeldSlots(t, s) \in SUBSET Jobs
    BY DEF HeldSlots, Stop, Under
  <2> DEFINE new == {}
  <2>4. /\ new \in SUBSET Jobs /\ PoolMoves(HeldSlots(t, s), new) /\ job' \in [Jobs -> Job]
        /\ \A k \in Jobs \ new : job'[k] = Stopped(t, s)[k]
    BY <1>3, <2>1, <2>2
  <2>5. \A n \in new : FALSE
    OBVIOUS
  <2> HIDE DEF new
  <2> QED
    BY <1>1, <2>3, <2>4, <2>5, CommitMoves
<1> QED
  BY <1>4, <1>5

\* A commit that neither unmounts the tile nor touches its still.
LEMMA SameStills ==
  ASSUME TilesInv, NEW t \in Tiles, NEW s \in Tile, Commit(t, s), UNCHANGED blobs,
         s.mounted = tile[t].mounted, s.snapshot = tile[t].snapshot
  PROVE  StillsAreRevoked'
<1>1. tile' = [tile EXCEPT ![t] = IF Hovering(s) THEN s ELSE [s EXCEPT !.live = FALSE]]
  BY DEF Commit
<1>2. \A u \in Tiles : tile'[u].mounted = tile[u].mounted /\ tile'[u].snapshot = tile[u].snapshot
  BY <1>1 DEF TilesInv, TilesTypeOK, Tile
<1> QED
  BY <1>2 DEF TilesInv, StillsAreRevoked

LEMMA ViewerSteps ==
  ASSUME TilesInv, NEW t \in Tiles,
         Scroll(t) \/ Point(t) \/ Unmount(t) \/ LogoError(t)
  PROVE  TilesInv'
<1> USE DEF TilesInv
<1>1. tile[t] \in Tile /\ Gone \in Tile /\ ~Gone.live /\ ~Gone.snapshot
  BY DEF TilesTypeOK, Tile, Gone
<1>2. /\ moves' \in 0 .. MaxMoves /\ tile[t].mounted
      /\ blobs \in [Tiles -> Nat] /\ tile \in [Tiles -> Tile]
  BY TilesAssumption DEF TilesAssumption, TilesTypeOK, Scroll, Point, Unmount, LogoError, Moves
<1>3. CASE Unmount(t)
  <2>1. /\ Commit(t, Gone) /\ blobs' = [blobs EXCEPT ![t] = IF tile[t].snapshot THEN @ - 1 ELSE @]
    BY <1>3 DEF Unmount
  <2>2. tile' = [tile EXCEPT ![t] = IF Hovering(Gone) THEN Gone ELSE [Gone EXCEPT !.live = FALSE]]
    BY <2>1 DEF Commit
  <2>3. tile'[t].mounted = FALSE /\ \A u \in Tiles \ {t} : tile'[u] = tile[u]
    BY <1>2, <2>2 DEF Gone, Hovering
  <2>4. blobs' \in [Tiles -> Nat] /\ blobs'[t] = 0 /\ \A u \in Tiles \ {t} : blobs'[u] = blobs[u]
    BY <1>2, <2>1 DEF StillsAreRevoked
  <2>5. StillsAreRevoked'
    BY <2>3, <2>4 DEF StillsAreRevoked
  <2> QED
    BY <1>1, <1>2, <2>1, <2>4, <2>5, CommitStep
<1>4. CASE ~Unmount(t)
  <2>1. PICK s \in Tile :
          /\ Commit(t, s) /\ s.live = tile[t].live
          /\ s.mounted = tile[t].mounted /\ s.snapshot = tile[t].snapshot
    <3>1. CASE Scroll(t)
      <4>1. [tile[t] EXCEPT !.visible = ~@] \in Tile
        BY <1>1 DEF Tile
      <4> QED
        BY <1>1, <3>1, <4>1 DEF Scroll, Tile
    <3>2. CASE Point(t)
      <4>1. [tile[t] EXCEPT !.hovered = ~@] \in Tile
        BY <1>1 DEF Tile
      <4> QED
        BY <1>1, <3>2, <4>1 DEF Point, Tile
    <3>3. CASE LogoError(t)
      <4>1. [tile[t] EXCEPT !.failed = TRUE] \in Tile
        BY <1>1 DEF Tile
      <4> QED
        BY <1>1, <3>3, <4>1 DEF LogoError, Tile
    <3> QED
      BY <1>4, <3>1, <3>2, <3>3
  <2>2. blobs' = blobs
    BY <1>4 DEF Scroll, Point, LogoError
  <2>3. StillsAreRevoked'
    BY <2>1, <2>2, SameStills
  <2> QED
    BY <1>2, <2>1, <2>2, <2>3, CommitStep
<1> QED
  BY <1>3, <1>4

LEMMA TimerSteps ==
  ASSUME TilesInv, NEW t \in Tiles, Due(t) \/ Mount(t)
  PROVE  TilesInv'
<1>1. /\ tile \in [Tiles -> Tile] /\ blobs \in [Tiles -> Nat] /\ moves \in 0 .. MaxMoves
      /\ job \in [Jobs -> Job] /\ tile[t] \in Tile /\ StillsAreRevoked
  BY DEF TilesInv, TilesTypeOK
<1>2. CASE Due(t)
  <2> DEFINE new == {NewJob}
             s == tile[t]
  <2>1. Capturing(s) /\ ~Hovering(s) /\ SomeFree /\ UNCHANGED <<tile, blobs, moves>>
    BY <1>1, <1>2 DEF Due, Capturing, Hovering, Tile
  <2>2. job' = [job EXCEPT ![NewJob] = Asked("capture", t)] /\ Acquire(NewJob)
    BY <1>2 DEF Due
  <2>3. NewJob \in Jobs /\ Free(NewJob)
    BY <2>1 DEF SomeFree, NewJob
  <2>4. HeldSlots(t, s) = {} /\ Stop(t, s) = {}
    BY DEF HeldSlots, Stop
  <2>5. ~s.live
    BY <2>1 DEF TilesInv, LiveIsPlayed, SessionsFit, Under
  <2>6. s = [s EXCEPT !.live = FALSE]
    BY <1>1, <2>5 DEF Tile
  <2>7. tile' = [tile EXCEPT ![t] = IF Hovering(s) THEN s ELSE [s EXCEPT !.live = FALSE]]
    BY <1>1, <2>1, <2>6
  <2>8. /\ {} \in SUBSET Jobs /\ new \in SUBSET Jobs /\ PoolMoves({}, new)
        /\ \A n, m \in new : n = m
    BY <2>2, <2>3, FreeFacts, Acquires DEF TilesInv
  <2>9. job' \in [Jobs -> Job]
    BY <1>1, <2>2, <2>3, AskedFacts
  <2>10. \A k \in Jobs \ new : job'[k] = Stopped(t, s)[k]
    BY <1>1, <2>2, <2>4 DEF Stopped
  <2>11. \A n \in new : Free(n) /\ Capturing(s) /\ job'[n] = Asked("capture", t)
    BY <1>1, <2>1, <2>2, <2>3
  <2>12. StillsAreRevoked' /\ blobs' \in [Tiles -> Nat] /\ moves' \in 0 .. MaxMoves
    BY <1>1, <2>1 DEF StillsAreRevoked
  <2> HIDE DEF new
  <2> QED
    BY <1>1, <2>4, <2>7, <2>8, <2>9, <2>10, <2>11, <2>12, CommitMoves
<1>3. CASE Mount(t)
  <2> DEFINE new == {}
             s == [Gone EXCEPT !.mounted = TRUE]
  <2>1. /\ s \in Tile /\ ~s.live /\ ~Hovering(s) /\ ~Capturing(s) /\ s.mounted /\ ~s.snapshot
        /\ [s EXCEPT !.live = FALSE] = s
    <3>1. s \in Tile /\ ~s.live /\ s.mounted /\ ~s.snapshot /\ ~s.visible /\ ~s.hovered
      BY DEF Gone, Tile
    <3> HIDE DEF s
    <3> QED
      BY <3>1 DEF Tile, Hovering, Capturing
  <2>2. /\ ~tile[t].mounted /\ tile' = [tile EXCEPT ![t] = s]
        /\ UNCHANGED <<pool, job, blobs, moves>>
    BY <1>3 DEF Mount
  <2> HIDE DEF s, new
  <2>3. tile' = [tile EXCEPT ![t] = IF Hovering(s) THEN s ELSE [s EXCEPT !.live = FALSE]]
    BY <2>1, <2>2
  <2>4. HeldSlots(t, s) = {} /\ Stop(t, s) = {}
    BY <2>2 DEF HeldSlots, Stop, Capturing, Hovering
  <2>5. /\ new \in SUBSET Jobs /\ HeldSlots(t, s) \in SUBSET Jobs
        /\ PoolMoves(HeldSlots(t, s), new) /\ \A n \in new : FALSE
    BY <2>2, <2>4, PoolStays DEF TilesInv, new
  <2>6. job' \in [Jobs -> Job] /\ \A k \in Jobs \ new : job'[k] = Stopped(t, s)[k]
    BY <1>1, <2>2, <2>4 DEF Stopped
  <2>7. StillsAreRevoked' /\ blobs' \in [Tiles -> Nat] /\ moves' \in 0 .. MaxMoves
    <3>1. \A u \in Tiles : tile'[u] = IF u = t THEN s ELSE tile[u]
      BY <1>1, <2>2
    <3> QED
      BY <1>1, <2>1, <2>2, <3>1 DEF StillsAreRevoked
  <2> QED
    BY <2>1, <2>3, <2>5, <2>6, <2>7, CommitMoves
<1> QED
  BY <1>2, <1>3

LEMMA SessionFailsStep ==
  ASSUME TilesInv, NEW j \in Jobs, SessionFails(j)
  PROVE  TilesInv'
<1> DEFINE t == job[j].tile
           s == [tile[t] EXCEPT !.failed = TRUE]
<1>1. t \in Tiles /\ tile[t] \in Tile
  BY DEF TilesInv, TilesTypeOK, Job
<1>2. /\ s \in Tile /\ s.live = tile[t].live
      /\ s.mounted = tile[t].mounted /\ s.snapshot = tile[t].snapshot
  BY <1>1 DEF Tile
<1>3. Commit(t, s) /\ UNCHANGED <<blobs, moves>>
  BY DEF SessionFails, Session
<1> HIDE DEF t, s
<1>4. StillsAreRevoked' /\ blobs' \in [Tiles -> Nat] /\ moves' \in 0 .. MaxMoves
  BY <1>1, <1>2, <1>3, SameStills DEF TilesInv, TilesTypeOK
<1> QED
  BY <1>1, <1>2, <1>3, <1>4, CommitStep

LEMMA InitTiles == TilesInit => TilesInv
<1> SUFFICES ASSUME TilesInit PROVE TilesInv
  OBVIOUS
<1>1. \A j \in Jobs : job[j] = Done("capture")
  BY DEF TilesInit
<1>2. /\ Done("capture") \in Job /\ Done("capture").kind = "capture"
      /\ Done("capture").phase = "on" /\ Done("capture").cancelled
  BY DoneIsDone
<1>3. /\ [Gone EXCEPT !.mounted = TRUE] \in Tile
      /\ ~[Gone EXCEPT !.mounted = TRUE].live /\ ~[Gone EXCEPT !.mounted = TRUE].snapshot
  BY DEF Gone, Tile
<1>4. Queued = {} /\ waiting = << >> /\ active = {} /\ Len(waiting) = 0
  BY DEF TilesInit, Queued
<1>5. TilesTypeOK
  BY <1>2, <1>3, TilesAssumption DEF TilesInit, TilesTypeOK, TilesAssumption
<1>6. AskedIsFresh /\ SessionsFit /\ CapturesFit /\ OneSession
  BY <1>1, <1>2 DEF AskedIsFresh, SessionsFit, CapturesFit, OneSession, Under
<1>7. Queue /\ WaitsOnlyWhenFull
  BY <1>4 DEF Queue, NoneTwice, WaitsOnlyWhenFull
<1>8. LiveIsPlayed /\ StillsAreRevoked
  BY <1>3 DEF TilesInit, LiveIsPlayed, StillsAreRevoked
<1> QED
  BY <1>5, <1>6, <1>7, <1>8 DEF TilesInv

LEMMA StepTiles ==
  TilesInv /\ [TilesNext]_tilesVars => TilesInv'
<1> SUFFICES ASSUME TilesInv, [TilesNext]_tilesVars PROVE TilesInv'
  OBVIOUS
<1>1. ASSUME NEW t \in Tiles,
             Scroll(t) \/ Point(t) \/ Unmount(t) \/ Mount(t) \/ LogoError(t) \/ Due(t)
      PROVE  TilesInv'
  BY <1>1, ViewerSteps, TimerSteps
<1>2. ASSUME NEW j \in Jobs, TileCallbacks(j) PROVE TilesInv'
  BY <1>2, GoOnStep, WatchdogStep, ImportedStep, FrameSteps, StillStep, PlayingSteps,
     SessionSteps, SessionFailsStep DEF TileCallbacks
<1>3. CASE UNCHANGED tilesVars
  BY <1>3 DEF tilesVars, pool, TilesInv, TilesTypeOK, AskedIsFresh, Queue, Queued, NoneTwice,
     WaitsOnlyWhenFull, SessionsFit, OneSession, Under, CapturesFit, LiveIsPlayed,
     StillsAreRevoked, Capturing, Hovering
<1> QED
  BY <1>1, <1>2, <1>3 DEF TilesNext

LEMMA TilesAlways == TilesSpec => []TilesInv
  BY InitTiles, StepTiles, PTL DEF TilesSpec

\* Type correctness of the tiles.
THEOREM TilesTypes == TilesSpec => []TilesTypeOK
<1>1. TilesInv => TilesTypeOK
  BY DEF TilesInv
<1> QED
  BY <1>1, TilesAlways, PTL

\* Nobody waits for a decoder slot while one is free.
THEOREM NobodyWaitsForNothing == TilesSpec => []WaitsOnlyWhenFull
<1>1. TilesInv => WaitsOnlyWhenFull
  BY DEF TilesInv
<1> QED
  BY <1>1, TilesAlways, PTL

\* A session the pointer has left keeps no slot but one granted afterwards.
THEOREM LeftSessionsLetGo == TilesSpec => []SessionsLetGo
<1>1. TilesInv => SessionsLetGo
  BY DEF TilesInv, SessionsFit, SessionsLetGo, Granted
<1> QED
  BY <1>1, TilesAlways, PTL

\* What plays under the pointer has a decoder slot.
THEOREM SessionsHoldSlots == TilesSpec => []SessionHoldsSlot
<1>1. TilesInv => SessionHoldsSlot
  <2> SUFFICES ASSUME TilesInv PROVE SessionHoldsSlot
    OBVIOUS
  <2>1. ASSUME NEW j \in Jobs, job[j].kind = "hover", job[j].source PROVE j \in active
    BY <2>1 DEF TilesInv, SessionsFit
  <2> QED
    BY <2>1 DEF TilesInv, LiveIsPlayed, SessionHoldsSlot
<1> QED
  BY <1>1, TilesAlways, PTL

\* A tile owns the object URL of the still it shows, and no other.
THEOREM StillsRevoked == TilesSpec => []StillsAreRevoked
<1>1. TilesInv => StillsAreRevoked
  BY DEF TilesInv
<1> QED
  BY <1>1, TilesAlways, PTL
=============================================================================
