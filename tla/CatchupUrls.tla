----------------------------- MODULE CatchupUrls ------------------------------
(***************************************************************************)
(* The URLs at which the archive of a channel might be found, likeliest    *)
(* first.  A URL is the directory it is in, the spelling of its last part, *)
(* and how it says from when: in seconds, in a minute written out, or as   *)
(* an offset from now.                                                     *)
(*                                                                         *)
(* apps/web/src/lib/catchup.ts.                                            *)
(***************************************************************************)
EXTENDS Integers, Sequences, SequencesExt

(* What is recognised in a live URL: its path segments, whether the last   *)
(* is a number, its extension and the name before that, and whether the    *)
(* segment above is a name; it may begin with /live/ or a signed /s/token/. *)
Live == [http : BOOLEAN, segments : 1 .. 5, numeric : BOOLEAN, ext : {"m3u8", "ts", ""},
         name : {"index", "archive", "dvr", "other"}, slug : BOOLEAN, under : {"", "live", "s"}]

Kinds == {"", "vod", "append", "xc", "default", "shift", "flussonic", "other"}
(* catchup-source, with placeholders in its path or in its query only.     *)
Channel == [kind : Kinds, source : {"", "path", "query"}, live : Live]

Url(dir, form, by) == [dir |-> dir, form |-> form, by |-> by]

(* expandTemplate: whatever the template says.                             *)
ExpandTemplate(ch) == Url("source", ch.source, "utc")

(* These may be answered with the live stream.                             *)
ServedLive(u) == u.form \in {"?utc&lutc", "?from&to", "?utc", "?t&tend", "query"}

(* app/api/stream/route.ts: the proxy refuses a manifest without an end    *)
(* for a URL like these.  Any other name may have a spelling it does not   *)
(* know.                                                                   *)
LooksLikeArchiveRequest(u) ==
    u.form \in {"index", "archive", "dvr", "timeshift_abs", "timeshift_rel", "archive?from&to",
                "date:time", "date-time", "?utc&lutc", "?utc"}

----------------------------------------------------------------------------
ParseXtreamLiveUrl(l) == l.http /\ l.segments >= 3 /\ l.numeric
ParseFlussonicLiveUrl(l) == l.http /\ l.segments >= 2 /\ l.ext # "" /\ l.slug

BuildXtreamCandidates ==
    <<Url("/timeshift", "date:time", "minute"), Url("/timeshift", "date-time", "minute"),
      Url("/live/user/pass", "?utc&lutc", "utc"), Url("/user/pass", "?utc&lutc", "utc"),
      Url("/live/user/pass", "?from&to", "utc"), Url("/streaming", "timeshift.php", "minute")>>

(* The playlist's name without .m3u8.                                      *)
Stem(l) == IF l.ext = "m3u8" /\ ~l.numeric THEN l.name ELSE "other"
Unsigned(l) == IF l.under = "s" THEN "unsigned" ELSE "stream"

(* The live URL itself is one of the Xtream guesses if it is of that shape. *)
FromPlaylist(l) ==
    IF l.numeric /\ l.ext = "m3u8" /\ l.segments = 4 /\ l.under = "live" THEN "/live/user/pass"
    ELSE IF l.numeric /\ l.ext = "m3u8" /\ l.segments = 3 /\ l.under = "" THEN "/user/pass"
    ELSE "stream"

BuildFlussonicCandidates(l) ==
    <<Url("stream", "index", "utc"), Url("stream", Stem(l), "utc"),
      Url("stream", "archive", "utc"), Url("stream", "dvr", "utc"),
      Url("stream/dvr", "index", "utc"), Url("dvr/stream", "index", "utc"),
      Url("stream", "timeshift_abs", "utc"), Url("stream", "timeshift_rel", "offset"),
      Url("stream", "archive?from&to", "utc"),
      Url(Unsigned(l), "index", "utc"), Url(Unsigned(l), "archive", "utc"),
      Url(FromPlaylist(l), "?utc&lutc", "utc")>>

If(cond, urls) == IF cond THEN urls ELSE << >>

(* Everything known, each once.                                            *)
Push(urls, u) == IF u \in ToSet(urls) THEN urls ELSE Append(urls, u)
CollectAllCandidates(ch) ==
    FoldLeft(Push, << >>,
        If(ch.source = "path", <<ExpandTemplate(ch)>>)
        \o If(ParseXtreamLiveUrl(ch.live), BuildXtreamCandidates)
        \o If(ParseFlussonicLiveUrl(ch.live), BuildFlussonicCandidates(ch.live))
        \o If(ch.source # "", <<ExpandTemplate(ch)>>))

(* The URL and its fallbacks; none if the channel has no archive.          *)
BuildCatchupUrl(ch) ==
    LET all == CollectAllCandidates(ch)
    IN  CASE ch.kind = "vod" -> If(ch.source # "", <<ExpandTemplate(ch)>>)
          [] ch.kind # "vod" /\ all # << >> -> all
          [] OTHER -> If(ch.kind \in {"append", "xc", "default"}, <<Url("live", "?utc", "utc")>>)
                      \o If(ch.kind \in {"shift", "flussonic"}, <<Url("live", "?t&tend", "utc")>>)

----------------------------------------------------------------------------
(* What a request spells out.  Times are in ms, the duration and the       *)
(* playlist's correction in minutes, what is asked for in seconds.         *)

UrlRequest == [start : Int, dur : Nat, corr : Int, now : Int]

CorrectedStartMs(q) == q.start + 60000 * q.corr
Utc(q) == CorrectedStartMs(q) \div 1000
UtcEnd(q) == (CorrectedStartMs(q) + 60000 * q.dur) \div 1000
DurSec(q) == 60 * q.dur
Minute(q) == 60 * (CorrectedStartMs(q) \div 60000)
Offset(q) ==
    LET passed == (q.now - q.start) \div 1000 IN IF passed > 0 THEN passed ELSE 0

(* The second a URL asks for.  An offset is not corrected: the correction  *)
(* shifts now and the start alike.                                         *)
AsksFor(u, q) ==
    CASE u.by = "utc" -> Utc(q)
      [] u.by = "minute" -> Minute(q)
      [] u.by = "offset" -> (q.now \div 1000) - Offset(q)

----------------------------------------------------------------------------
(* The walk tries no URL twice, however the shapes overlap.                *)
NoUrlTwice(ch) ==
    LET urls == BuildCatchupUrl(ch)
    IN  \A i, j \in DOMAIN urls : urls[i] = urls[j] => i = j

(* The playlist's own template is always tried: first if it names a path   *)
(* of the archive, and after every other if it may be the live URL with    *)
(* parameters (catchup.ts:361, 389).                                            *)
TemplateInItsPlace(ch) ==
    LET urls == BuildCatchupUrl(ch)
    IN  /\ ch.source = "path" => Head(urls) = ExpandTemplate(ch)
        /\ ch.source = "query" => Last(urls) = ExpandTemplate(ch)

(* "Last because it's the only candidate that CAN succeed on the live      *)
(* endpoint" (catchup.ts:266): after a URL that may be answered with the   *)
(* live stream comes none that would have been refused outright.           *)
LiveComesLast(ch) ==
    LET urls == BuildCatchupUrl(ch)
    IN  \A i, j \in DOMAIN urls : i < j /\ ServedLive(urls[i]) => ServedLive(urls[j])

(* True of a channel that is not of the Xtream shape.                      *)
FlussonicLiveComesLast(ch) == ~ParseXtreamLiveUrl(ch.live) => LiveComesLast(ch)

(* "The silent-live guard in /api/stream catches that" (catchup.ts:391):   *)
(* whatever may be answered with the live stream is refused then, so that  *)
(* a replay never shows the live stream.  The guard knows a URL only by    *)
(* its spelling, and the two files spell it each on its own.               *)
SilentLiveIsNoticed(ch) ==
    \A u \in ToSet(BuildCatchupUrl(ch)) : ServedLive(u) => LooksLikeArchiveRequest(u)

(* True of a channel of the Flussonic shape only that has no template.     *)
FlussonicSilentLiveIsNoticed(ch) ==
    ParseFlussonicLiveUrl(ch.live) /\ ~ParseXtreamLiveUrl(ch.live) /\ ch.source = "" =>
        SilentLiveIsNoticed(ch)
=============================================================================
