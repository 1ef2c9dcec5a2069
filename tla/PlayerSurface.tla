---------------------------- MODULE PlayerSurface -----------------------------
(***************************************************************************)
(* The player of the live page.  It is given one stream, or for catch-up   *)
(* several URLs that may be the right one, and tries them in turn: a fatal *)
(* error, or a timer that nothing came before, moves on to the next, and   *)
(* after the last it gives up and counts a failure against the channel.    *)
(* hls.js is fetched the first time it is needed; zapping replaces the     *)
(* stream at any moment, also while that fetch is under way.               *)
(*                                                                         *)
(* apps/web/src/components/tv/live/PlayerSurface.tsx.  What it is given,   *)
(* and when, is LivePage's.                                                *)
(***************************************************************************)
EXTENDS Integers, FiniteSets

CONSTANTS
    Channels,       \* ids of the playlist's channels
    NoChannel,      \* no channel to blame
    Starts,         \* the moments catch-up may start from; 0 is the live edge
    Candidates,     \* [Channels -> Nat]: URLs to try for its archive; 0: none
    Retries         \* length of RECONNECT_DELAYS_MS

ASSUME PlayerAssumption ==
    /\ NoChannel \notin Channels
    /\ Starts \subseteq Nat /\ 0 \in Starts
    /\ Candidates \in [Channels -> Nat]
    /\ Retries \in Nat

VARIABLES
    native,     \* the browser plays HLS itself: hls.js is not used
    loaded,     \* hls.js has been fetched
    attempt,    \* what the player was given, and how far it has come
    attached,   \* URLs with an hls.js instance, or a src, on the video element
    late,       \* URLs of attempts that ended while their import was pending
    failed,     \* channels hidden for what the player reported
    probed      \* channels hidden for what probes reported

playerVars == <<native, loaded, attempt, attached, late, failed, probed>>
fetching == <<native, loaded, late>>
verdicts == <<failed, probed>>

Stream == [ch : Channels, start : Starts]
(* For the archive every candidate, for the live edge one URL.             *)
Urls(stream) == IF stream.start = 0 THEN 1 ELSE Candidates[stream.ch]

NoAttempt == [on |-> FALSE]

AttemptOK ==
    \/ attempt = NoAttempt
    \/ /\ attempt.on
       /\ attempt.stream \in Stream
       /\ attempt.health \in Channels \cup {NoChannel}
       /\ attempt.cand \in 1 .. Urls(attempt.stream)
       /\ attempt.retries \in 0 .. Retries
       /\ attempt.hls \in 0 .. attempt.cand
       /\ attempt.imports \subseteq 1 .. attempt.cand
       /\ {attempt.stall, attempt.err, attempt.data, attempt.started,
           attempt.paused, attempt.permanent} \subseteq BOOLEAN

PlayerTypeOK ==
    /\ native \in BOOLEAN /\ loaded \in BOOLEAN
    /\ AttemptOK
    /\ \A a \in attached : a.stream \in Stream /\ a.cand \in 1 .. Urls(a.stream)
    /\ late \subseteq Stream
    /\ failed \subseteq Channels /\ probed \subseteq Channels

PlayerInit ==
    /\ native \in BOOLEAN
    /\ loaded = FALSE
    /\ attempt = NoAttempt
    /\ attached = {}
    /\ late = {}
    /\ failed \in SUBSET Channels
    /\ probed = {}

----------------------------------------------------------------------------
(* Giving up and moving on.                                                *)

(* One more failure may be the one that hides the channel, and a permanent *)
(* one is.                                                                 *)
FailAll(a) ==
    /\ attempt' = [a EXCEPT !.err = TRUE]
    /\ failed' \in IF a.health = NoChannel THEN {failed}
                   ELSE {failed \cup {a.health}} \cup (IF a.permanent THEN {} ELSE {failed})

(* Arms the stall timer, then waits for hls.js or attaches.                *)
Attaching(a, i) ==
    LET asks == [a EXCEPT !.cand = i, !.retries = 0, !.stall = TRUE, !.data = FALSE,
                          !.started = FALSE, !.paused = TRUE, !.hls = 0]
    IN  IF native THEN asks
        ELSE IF loaded THEN [asks EXCEPT !.hls = i]
        ELSE [asks EXCEPT !.imports = @ \cup {i}]
(* destroyHls forgets one instance: the one of attempt.hls.                *)
Destroyed(a) == attached \ (IF native THEN attached ELSE {[stream |-> a.stream, cand |-> a.hls]})

PastLast(a, i) == i > Urls(a.stream)

(* tryCandidate.                                                           *)
TryCandidate(a, i) ==
    IF PastLast(a, i)
    THEN FailAll(a) /\ UNCHANGED attached
    ELSE /\ attempt' = Attaching(a, i)
         /\ attached' = Destroyed(a) \cup
              (IF native \/ loaded THEN {[stream |-> a.stream, cand |-> i]} ELSE {})
         /\ UNCHANGED failed

(* The effect's cleanup, and the next run of it, if there is a stream.     *)
Leaves ==
    late' = IF attempt.on /\ attempt.imports # {} THEN late \cup {attempt.stream} ELSE late
Attach(stream, health) ==
    LET a == [on |-> TRUE, stream |-> stream, health |-> health, cand |-> 1, retries |-> 0,
              hls |-> 0, imports |-> {}, stall |-> FALSE, err |-> FALSE,
              data |-> FALSE, started |-> FALSE, paused |-> TRUE, permanent |-> FALSE]
    IN  /\ Leaves
        /\ attempt' = Attaching(a, 1)
        /\ attached' = IF native \/ loaded THEN {[stream |-> stream, cand |-> 1]} ELSE {}
        /\ UNCHANGED <<native, loaded, verdicts>>
Detach ==
    /\ Leaves
    /\ attempt' = NoAttempt
    /\ attached' = {}
    /\ UNCHANGED <<native, loaded, verdicts>>

----------------------------------------------------------------------------
(* hls.js arrives: each attempt that waits for it resumes, in the order    *)
(* they asked.  One that was left returns; of the current one's, each      *)
(* makes an instance, and only the last is kept in attempt.hls.            *)
ResumesAnyway(cancelled) == TRUE
Resumes(cancelled) == ~cancelled

ImportArrives ==
    /\ ~native /\ ~loaded
    /\ loaded' = TRUE
    /\ LET mine == IF attempt.on THEN attempt.imports ELSE {}
           left == IF Resumes(TRUE) THEN late ELSE {}
       IN  /\ late # {} \/ mine # {}
           /\ attached' = attached \cup {[stream |-> attempt.stream, cand |-> i] : i \in mine}
                                   \cup {[stream |-> s, cand |-> 1] : s \in left}
           /\ attempt' = IF mine = {} THEN attempt
                         ELSE [attempt EXCEPT !.imports = {},
                                 !.hls = CHOOSE i \in mine : \A j \in mine : j <= i]
    /\ late' = {}
    /\ UNCHANGED <<native, verdicts>>

(* It cannot be fetched, or it does not support this browser: the card     *)
(* says so, and no failure is counted.                                     *)
ImportFails ==
    /\ ~native /\ ~loaded
    /\ attempt.on /\ attempt.imports # {}
    /\ attempt' = [attempt EXCEPT !.imports = {}, !.err = TRUE]
    /\ late' = {}
    /\ UNCHANGED <<native, loaded, attached, verdicts>>

(* The manifest parsed and play() was granted, or the user tapped.         *)
PlayGranted ==
    /\ attempt.on /\ attached # {}
    /\ attempt.paused
    /\ attempt' = [attempt EXCEPT !.paused = FALSE]
    /\ UNCHANGED <<fetching, attached, verdicts>>
Pauses ==
    /\ attempt.on /\ attempt.started /\ ~attempt.paused
    /\ attempt' = [attempt EXCEPT !.paused = TRUE]
    /\ UNCHANGED <<fetching, attached, verdicts>>

(* Enough is buffered to go on, or no longer.                              *)
DataArrives ==
    /\ attempt.on /\ attached # {}
    /\ ~attempt.data
    /\ attempt' = [attempt EXCEPT !.data = TRUE]
    /\ UNCHANGED <<fetching, attached, verdicts>>
Starves ==
    /\ attempt.on /\ attempt.started /\ attempt.data
    /\ attempt' = [attempt EXCEPT !.data = FALSE]
    /\ UNCHANGED <<fetching, attached, verdicts>>

(* Frames are on screen, which clears every failure of the channel.        *)
VideoPlaying ==
    /\ attempt.on /\ attempt.data /\ ~attempt.paused
    /\ attempt' = [attempt EXCEPT !.started = TRUE, !.stall = FALSE]
    /\ failed' = failed \ {attempt.health}
    /\ probed' = probed \ {attempt.health}
    /\ UNCHANGED <<fetching, attached>>

(* An error of an instance on the video element, of a kind the source      *)
(* tells apart: fatal or not, the manifest's own, the codec's.             *)
HlsError(fatal, manifest, codec) ==
    /\ attempt.on /\ ~native /\ attached # {}
    /\ LET a == [attempt EXCEPT !.permanent = codec]
           more == attempt.cand < Urls(attempt.stream)
       IN  CASE ~fatal -> attempt' = a /\ UNCHANGED <<attached, failed>>
             [] fatal /\ ((manifest /\ more) \/ attempt.retries = Retries) ->
                  TryCandidate([a EXCEPT !.data = FALSE], attempt.cand + 1)
             [] OTHER ->
                  /\ attempt' = [a EXCEPT !.retries = @ + 1, !.data = FALSE]
                  /\ UNCHANGED <<attached, failed>>
    /\ UNCHANGED <<fetching, probed>>

(* The element's own error, where there is no hls.js to report it.         *)
VideoError(codec) ==
    /\ attempt.on /\ attempt.hls = 0 /\ attached # {}
    /\ TryCandidate([attempt EXCEPT !.permanent = codec, !.stall = FALSE, !.data = FALSE],
                    attempt.cand + 1)
    /\ UNCHANGED <<fetching, probed>>

(* Nothing played in time.  The last URL is given up only if nothing came  *)
(* and no gesture is waited for; the ones before it in any case.           *)
HoldsOnAny(a) == a.paused \/ a.data
HoldsOn(a) == a.cand = Urls(a.stream) /\ (a.paused \/ a.data)

StallFires ==
    /\ attempt.on /\ attempt.stall
    /\ LET a == [attempt EXCEPT !.stall = FALSE]
       IN  IF HoldsOn(a) THEN attempt' = a /\ UNCHANGED <<attached, failed>>
           ELSE IF a.cand < Urls(a.stream) THEN TryCandidate(a, a.cand + 1)
           ELSE FailAll([a EXCEPT !.permanent = FALSE]) /\ UNCHANGED attached
    /\ UNCHANGED <<fetching, probed>>

PlayerNext ==
    \/ ImportArrives \/ ImportFails
    \/ PlayGranted \/ Pauses \/ DataArrives \/ Starves \/ VideoPlaying
    \/ \E fatal, manifest, codec \in BOOLEAN :
         ~(manifest /\ codec) /\ HlsError(fatal, manifest, codec)
    \/ \E codec \in BOOLEAN : VideoError(codec)
    \/ StallFires
=============================================================================
