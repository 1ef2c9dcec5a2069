------------------------------- MODULE LivePage -------------------------------
(***************************************************************************)
(* The live page: which channel is selected, from which moment it plays,   *)
(* and whether it fills the screen.  Handlers and timers set page state;   *)
(* after a render the effects whose dependencies changed run in order and  *)
(* may set it again; no user event comes in between.  The player is given  *)
(* what each render derives.                                               *)
(*                                                                         *)
(* apps/web/src/app/tv/live/page.tsx, and the parts of                     *)
(* components/tv/live/{LiveScrubber,NumberZap,InfoBar}.tsx that act on it. *)
(***************************************************************************)
EXTENDS PlayerSurface, Sequences

CONSTANTS
    Playlist,       \* the channels in order
    MaxProbes,      \* bound: channels a probe hides or brings back
    MaxScrubs       \* bound: bursts of the scrubber

ASSUME LiveAssumption ==
    /\ Playlist \in Seq(Channels) /\ Len(Playlist) > 0
    /\ \A i, j \in 1 .. Len(Playlist) : Playlist[i] = Playlist[j] => i = j
    /\ MaxProbes \in Nat /\ MaxScrubs \in Nat

VARIABLES
    page,       \* React state: see PageOK
    done,       \* what the effects saw when they last ran
    link,       \* ?ch=, ?start= and ?preview= of the URL
    autoHide,   \* prefs.autoHideDead
    scrub,      \* where the scrubber's commit timer will seek, or NoScrub
    probes, scrubs

vars == <<playerVars, page, done, link, autoHide, scrub, probes, scrubs>>

NoScrub == -1
NoIndex == -1
Indices == 0 .. Len(Playlist) - 1

PageOK ==
    /\ page.all \in BOOLEAN             \* allChannels: the playlist, or empty
    /\ page.load \in {"hydrated", "loading", "ready", "error"}
    /\ page.idx \in Indices             \* activeIdx
    /\ page.watching \in BOOLEAN
    /\ page.catchup \in Starts          \* catchupMs
    /\ page.error \in BOOLEAN           \* catchupError
    /\ page.anyway \in BOOLEAN          \* hideAnyway

TypeOK ==
    /\ PlayerTypeOK /\ PageOK
    /\ link.ch \in Channels \cup {NoChannel} /\ link.start \in Starts /\ link.preview \in BOOLEAN
    /\ autoHide \in BOOLEAN
    /\ scrub \in Starts \cup {NoScrub}
    /\ probes \in 0 .. MaxProbes /\ scrubs \in 0 .. MaxScrubs

----------------------------------------------------------------------------
(* What a render derives.                                                  *)

HiddenIds == failed \cup probed
(* The playlist as far as it is not hidden, in its order.                  *)
Without(hidden) ==
    LET kept[n \in 0 .. Len(Playlist)] ==
          IF n = 0 THEN << >>
          ELSE IF Playlist[n] \in hidden THEN kept[n - 1] ELSE Append(kept[n - 1], Playlist[n])
    IN  kept[Len(Playlist)]

(* The circuit breaker: hiding more than 70% of the playlist is refused.   *)
Broken == 10 * Cardinality(HiddenIds) > 7 * Len(Playlist)
Shown ==
    IF ~page.all THEN << >>
    ELSE IF ~autoHide \/ (Broken /\ ~page.anyway) THEN Playlist
    ELSE Without(HiddenIds)

Selected(list) == IF page.idx < Len(list) THEN list[page.idx + 1] ELSE NoChannel
Active == Selected(Shown)

Deps ==
    LET list == Shown
    IN  [idx |-> page.idx, len |-> Len(list), active |-> Selected(list),
         catchup |-> page.catchup, watching |-> page.watching]
Settled == done = Deps

(* An archive URL could be built: catchupAttempt.                          *)
Archived(d) == d.active # NoChannel /\ d.catchup > 0 /\ Candidates[d.active] > 0
Playable(d) == [ch |-> d.active, start |-> IF Archived(d) THEN d.catchup ELSE 0]
(* A catch-up attempt says nothing of the live stream.                     *)
HealthOfAny(d) == d.active
HealthOf(d) == IF d.catchup > 0 THEN NoChannel ELSE d.active

(* The scrubber is on screen.                                              *)
Scrubbing == page.watching /\ Active # NoChannel /\ ~page.error

----------------------------------------------------------------------------
(* Loading.                                                                *)

(* The deep link is looked up among the channels nothing was recorded      *)
(* against, whether or not hiding is on.                                   *)
Resolved ==
    LET list == Without(HiddenIds)
        at == {i \in 1 .. Len(list) : list[i] = link.ch}
    IN  IF at = {} THEN NoIndex ELSE (CHOOSE i \in at : TRUE) - 1

Linked(p) ==
    IF Resolved = NoIndex THEN p
    ELSE [p EXCEPT !.idx = Resolved,
                   !.catchup = IF link.start > 0 THEN link.start ELSE @,
                   !.watching = @ \/ ~link.preview]

Blank == [all |-> FALSE, load |-> "loading", idx |-> 0, watching |-> FALSE,
          catchup |-> 0, error |-> FALSE, anyway |-> FALSE]

(* The effects of the first, empty, render have run; the layout effect has *)
(* read the URL and the cache.                                             *)
Init ==
    /\ PlayerInit
    /\ autoHide \in BOOLEAN
    /\ link \in [ch : Channels \cup {NoChannel}, start : Starts, preview : BOOLEAN]
    /\ link.ch = NoChannel => link.start = 0 /\ ~link.preview
    /\ done = [idx |-> 0, len |-> 0, active |-> NoChannel, catchup |-> 0, watching |-> FALSE]
    /\ LET started == [Blank EXCEPT !.catchup = link.start]
       IN  page \in {started, Linked([started EXCEPT !.all = TRUE, !.load = "hydrated"])}
    /\ scrub = NoScrub
    /\ probes = 0 /\ scrubs = 0

rest == <<done, link, autoHide, scrub, probes, scrubs>>
NoLink == [ch |-> NoChannel, start |-> 0, preview |-> FALSE]
(* The URL is not read again once the playlist is here.                    *)
LinkRead == link' = NoLink /\ UNCHANGED <<playerVars, done, autoHide, scrub, probes, scrubs>>

(* run: the playlist is here, at once if it was cached; the deep link is   *)
(* applied again.                                                          *)
LoadArrives ==
    /\ Settled /\ page.load \in {"hydrated", "loading"}
    /\ page' = Linked([page EXCEPT !.all = TRUE, !.load = "ready"])
    /\ LinkRead

LoadFails ==
    /\ Settled /\ page.load = "loading"
    /\ page' = [page EXCEPT !.load = "error"]
    /\ LinkRead

(* "Try again": the deep link is not looked at.                            *)
RetryArrives ==
    /\ Settled /\ page.load = "error"
    /\ page' = [page EXCEPT !.all = TRUE, !.load = "ready"]
    /\ UNCHANGED <<playerVars, rest>>

----------------------------------------------------------------------------
(* The effects of a render, in the order the page declares them, the       *)
(* player's before the page's own.                                         *)

KeepsIndex(idx) == idx
PullsBack(idx) == IF Deps.len > 0 /\ idx >= Deps.len THEN Deps.len - 1 ELSE idx

DropsNothing(catchup) == catchup
Drops(catchup) == IF Active # NoChannel /\ ~Archived(Deps) THEN 0 ELSE catchup

(* The reason is kept when the moment is dropped, and cleared by a channel *)
(* change.                                                                 *)
Notice ==
    LET asked == /\ Active # NoChannel /\ page.catchup > 0
                 /\ done.active # Deps.active \/ done.catchup # Deps.catchup
    IN  IF done.idx # Deps.idx THEN FALSE
        ELSE IF asked THEN ~Archived(Deps) ELSE page.error

PlayerIsGiven ==
    IF /\ done.active # NoChannel /\ Active # NoChannel
       /\ done.watching = page.watching
       /\ Playable(done) = Playable(Deps) /\ HealthOf(done) = HealthOf(Deps)
    THEN UNCHANGED playerVars
    ELSE /\ IF Active = NoChannel THEN Detach ELSE Attach(Playable(Deps), HealthOf(Deps))

Effects ==
    /\ ~Settled
    /\ PlayerIsGiven
    /\ page' = [page EXCEPT !.idx = PullsBack(@), !.catchup = Drops(@), !.error = Notice]
    /\ scrub' = IF Scrubbing THEN scrub ELSE NoScrub
    /\ done' = Deps
    /\ UNCHANGED <<link, autoHide, probes, scrubs>>

----------------------------------------------------------------------------
(* The viewer.  Nothing can be pressed before hydration is through.        *)

Ready == Settled /\ page.load # "hydrated"

(* By the rail, the keys, the number pad or the info bar.                  *)
Tune(i, enter) ==
    /\ Ready
    /\ i < Len(Shown)
    /\ page' = [page EXCEPT !.idx = i, !.catchup = 0, !.watching = @ \/ enter]
    /\ UNCHANGED <<playerVars, rest>>

Opens ==
    /\ Ready /\ ~page.watching /\ Active # NoChannel
    /\ page' = [page EXCEPT !.watching = TRUE]
    /\ UNCHANGED <<playerVars, rest>>
Closes ==
    /\ Ready /\ page.watching
    /\ page' = [page EXCEPT !.watching = FALSE]
    /\ UNCHANGED <<playerVars, rest>>

RestartsProgramme(start) ==
    /\ Ready /\ page.watching /\ Active # NoChannel
    /\ start > 0
    /\ page' = [page EXCEPT !.catchup = start]
    /\ UNCHANGED <<playerVars, rest>>

(* The banner's button clears the notice too.                              *)
ReturnsLive(banner) ==
    /\ Ready
    /\ IF banner THEN page.catchup > 0 \/ page.error ELSE page.watching
    /\ page' = [page EXCEPT !.catchup = 0, !.error = ~banner /\ @]
    /\ UNCHANGED <<playerVars, rest>>

(* An arrow key moves the target and arms the timer anew; near the live    *)
(* edge the target is the edge.                                            *)
Skips(target) ==
    /\ Ready /\ Scrubbing
    /\ scrubs < MaxScrubs /\ scrubs' = scrubs + 1
    /\ scrub' = target
    /\ UNCHANGED <<playerVars, page, done, link, autoHide, probes>>

(* The timer, or Enter, commits: whatever is selected by then.             *)
SeekCommits ==
    /\ Ready /\ scrub # NoScrub
    /\ page' = [page EXCEPT !.catchup = scrub]
    /\ scrub' = NoScrub
    /\ UNCHANGED <<playerVars, done, link, autoHide, probes, scrubs>>

(* Direct streaming is toggled: the player attaches anew.                  *)
ModeChanges ==
    /\ Ready /\ attempt.on
    /\ Attach(attempt.stream, attempt.health)
    /\ UNCHANGED <<page, rest>>

----------------------------------------------------------------------------
(* The detector, of which the player is one half.                          *)

ProbeHides(c) ==
    /\ Ready /\ autoHide
    /\ probes < MaxProbes /\ probes' = probes + 1
    /\ probed' = probed \cup {c}
    /\ UNCHANGED <<fetching, attempt, attached, failed, page, done, link, autoHide, scrub, scrubs>>
ProbeRestores(c) ==
    /\ Ready /\ autoHide
    /\ probes < MaxProbes /\ probes' = probes + 1
    /\ c \in HiddenIds
    /\ failed' = failed \ {c} /\ probed' = probed \ {c}
    /\ UNCHANGED <<fetching, attempt, attached, page, done, link, autoHide, scrub, scrubs>>
ShowsAll ==
    /\ Ready /\ autoHide /\ HiddenIds # {}
    /\ failed' = {} /\ probed' = {}
    /\ UNCHANGED <<fetching, attempt, attached, page, rest>>
HidesAnyway(on) ==
    /\ Ready /\ autoHide
    /\ IF on THEN Broken /\ ~page.anyway ELSE page.anyway
    /\ page' = [page EXCEPT !.anyway = on]
    /\ UNCHANGED <<playerVars, rest>>

Plays == Settled /\ PlayerNext /\ UNCHANGED <<page, rest>>

Next ==
    \/ LoadArrives \/ LoadFails \/ RetryArrives
    \/ Effects
    \/ \E i \in Indices, enter \in BOOLEAN : Tune(i, enter)
    \/ Opens \/ Closes
    \/ \E start \in Starts : RestartsProgramme(start) \/ Skips(start)
    \/ \E banner \in BOOLEAN : ReturnsLive(banner)
    \/ SeekCommits
    \/ ModeChanges
    \/ \E c \in Channels : ProbeHides(c) \/ ProbeRestores(c)
    \/ ShowsAll
    \/ \E on \in BOOLEAN : HidesAnyway(on)
    \/ Plays

Spec == Init /\ [][Next]_vars

(* Effects follow a render, and the stall timer fires unless it is cleared.*)
FairSpec ==
    /\ Spec
    /\ WF_vars(Effects)
    /\ WF_vars(StallFires /\ Settled /\ UNCHANGED <<page, rest>>)

----------------------------------------------------------------------------
(* What is on the video element is what was asked for last, whatever was   *)
(* still being fetched when the viewer zapped on (PlayerSurface.tsx:345).  *)
NoStaleStream == \A a \in attached : attempt.on /\ a.stream = attempt.stream

(* Once the effects are through, a channel of the list is selected if      *)
(* there is one, and it is what the player was given: hiding channels      *)
(* under a playing session leaves neither undefined (page.tsx:214).        *)
SelectionIsGiven ==
    Settled /\ Active # NoChannel => attempt.on /\ attempt.stream.ch = Active
SelectionPlays ==
    /\ Settled /\ Len(Shown) > 0 => Active # NoChannel
    /\ SelectionIsGiven

(* The page never claims to replay while the live edge plays: a moment it  *)
(* keeps is one the player was given an archive URL for (page.tsx:366).    *)
ReplayIsOfTheArchive ==
    Settled /\ Active # NoChannel /\ page.catchup > 0 =>
        Candidates[Active] > 0 /\ attempt.stream.start = page.catchup

(* "a catch-up attempt failing says nothing about whether the channel's    *)
(* live stream works" (PlayerSurface.tsx:44): a failure is only counted    *)
(* against the channel whose live URL is under way, and never after it was *)
(* left.                                                                   *)
OnlyLiveIsBlamed ==
    [][\A c \in failed' \ failed :
         attempt.on /\ attempt.stream = [ch |-> c, start |-> 0]]_vars

(* An archive URL that answers with a manifest and no segments does not    *)
(* hold up the others: if nothing plays the next one is tried, unless the  *)
(* viewer asks for something else meanwhile (PlayerSurface.tsx:192).       *)
Held(s, i) == attempt.on /\ attempt.stream = s /\ attempt.cand = i /\ ~attempt.started
AlternativesAreTried ==
    \A s \in Stream : \A i \in 1 .. Urls(s) - 1 : Held(s, i) ~> ~Held(s, i) \/ ~Settled

(* A deep link opens the channel it names (page.tsx:289), unless it is one *)
(* the list does not show.                                                 *)
LinkOpensItsChannel ==
    [][LoadArrives /\ link.ch \in {Playlist[i] : i \in 1 .. Len(Playlist)} \ HiddenIds
         => Active' = link.ch]_vars
=============================================================================
