------------------------------- MODULE TvGuide --------------------------------
(***************************************************************************)
(* The two pages that show the programme guide: the grid, one page per     *)
(* day, and the catch-up page with the last seven days of one channel.     *)
(*                                                                         *)
(* Times are in hours.  A calendar is a function from days to the hour at  *)
(* which they begin, so that a day may have 23, 24 or 25 hours.  A channel *)
(* carries the programmes the guide has for it; text that is searched is   *)
(* found by whoever has it.                                                *)
(*                                                                         *)
(* apps/web/src/app/tv/guide/page.tsx, app/tv/catchup/page.tsx             *)
(***************************************************************************)
EXTENDS Integers, Sequences, SequencesExt, FiniteSetsExt, TLC

CONSTANTS None

Day == 24

DayOf(calendar, t) == Max({d \in DOMAIN calendar : calendar[d] <= t})
StartOfDay(calendar, t) == calendar[DayOf(calendar, t)]

Found(q, texts) == q = None \/ q \in texts

----------------------------------------------------------------------------
(* guide/page.tsx.  g is the page: what it has loaded, the day it is on,   *)
(* when that day was chosen and what time it is.                           *)

(* In pixels.                                                              *)
Layout(width) ==
    IF width < 720 THEN [pxPerHour |-> 150, railWidth |-> 116]
    ELSE [pxPerHour |-> 240, railWidth |-> 200]

(* Channels of the digest that have no programmes are left out.            *)
DigestToRowData(digest) == SelectSeq(digest, LAMBDA ch : ch.programmes # << >>)

(* The digest if it has channels, else the playlist and the guide itself.  *)
GuideLoads(cached, digest, list, feed, index) ==
    IF digest \notin {None, << >>}
    THEN LET rows == DigestToRowData(digest)
         IN  [channels |-> digest, digestRows |-> rows, epgIndex |-> FALSE,
              epgState |-> IF rows # << >> THEN "ready" ELSE "none"]
    ELSE [channels |-> IF list # << >> THEN list ELSE cached,
          digestRows |-> None, epgIndex |-> feed /\ index,
          epgState |-> IF feed /\ index THEN "ready" ELSE "none"]

DayStart(calendar, g) == StartOfDay(calendar, g.opened) + g.dayOffset * Day
DayEnd(calendar, g) == DayStart(calendar, g) + Day

(* What the buttons of the days and the header call a page.                *)
LabelledDay(calendar, now, off) == calendar[DayOf(calendar, now) + off]

DayFilter(progs, from, to) == SelectSeq(progs, LAMBDA p : p.stop > from /\ p.start < to)

Rows(calendar, g, q) ==
    LET from == DayStart(calendar, g)
        to == DayEnd(calendar, g)
        source == IF g.digestRows # None THEN g.digestRows
                  ELSE IF g.epgIndex THEN g.channels ELSE << >>
        found == SelectSeq(source, LAMBDA ch : Found(q, {ch.name}))
        day == [i \in DOMAIN found |->
                  [found[i] EXCEPT !.programmes = DayFilter(@, from, to)]]
    IN  SelectSeq(day, LAMBDA row : row.programmes # << >>)

NowLineLeft(calendar, g, layout) ==
    IF DayStart(calendar, g) = StartOfDay(calendar, g.now)
    THEN (g.now - DayStart(calendar, g)) * layout.pxPerHour
    ELSE -1

(* What is rendered: the days to choose from, the line and the rows, or    *)
(* how to go on without any.                                               *)
GuideView(calendar, g, q, layout) ==
    IF g.epgState # "ready" THEN [shows |-> IF g.epgState = "none" THEN "needEpg" ELSE "loading"]
    ELSE LET rows == Rows(calendar, g, q)
         IN  [shows |-> "grid", rows |-> rows, line |-> NowLineLeft(calendar, g, layout),
              days |-> [off \in -7 .. 7 |-> LabelledDay(calendar, g.now, off)],
              clear |-> rows = << >> /\ q # None]

(* A programme of a row.                                                   *)
Bar(p, from, to, layout) ==
    LET clippedStart == Max({p.start, from})
        clippedStop == Min({p.stop, to})
    IN  [left |-> (clippedStart - from) * layout.pxPerHour,
         width |-> Max({2, (clippedStop - clippedStart) * layout.pxPerHour})]

InPast(p, now) == p.stop <= now
IsCurrent(p, now) == p.start <= now /\ p.stop > now
Reachable(ch, p, now) == p.start >= now - ch.catchupDays * Day
CanPlay(ch, p, now) == IsCurrent(p, now) \/ (InPast(p, now) /\ Reachable(ch, p, now))

GuideHref(ch, p, now) ==
    IF ~CanPlay(ch, p, now) THEN None
    ELSE IF InPast(p, now)
         THEN [ch |-> ch.number, start |-> p.start, dur |-> Max({1, 60 * (p.stop - p.start)})]
         ELSE [ch |-> ch.number]

----------------------------------------------------------------------------
(* catchup/page.tsx.                                                       *)

Matched(list) == Len(SelectSeq(list, LAMBDA ch : ch.programmes # << >>))

(* cached is what the page starts with, list what loadChannels brings, and *)
(* epg how many ids the guide has, or None if it cannot be fetched.        *)
CatchupLoads(cached, list, feed, epg) ==
    [channels |-> IF list # << >> THEN list ELSE cached,
     epgState |-> IF feed /\ epg \notin {None, 0} THEN "ready" ELSE "none",
     diag |-> IF ~feed THEN [fetchStatus |-> "idle"]
              ELSE IF epg = None THEN [fetchStatus |-> "fail"]
              ELSE [fetchStatus |-> "ok", epgChannels |-> epg, matched |-> Matched(list)]]

EpgStatusBanner(diag, channelCount) ==
    IF diag.fetchStatus # "ok" THEN diag.fetchStatus
    ELSE IF diag.epgChannels = 0 THEN "zero channels"
    ELSE IF diag.matched = 0 THEN "none match"
    ELSE IF channelCount = 0 THEN None
    ELSE IF 100 * diag.matched < 60 * channelCount THEN "many without" ELSE "ready"

VisibleChannels(channels, q, cap) ==
    LET found == SelectSeq(channels, LAMBDA c : Found(q, {c.name, c.category, c.number}))
    IN  SubSeq(found, 1, Min({cap, Len(found)}))

Channel(channels, number) ==
    LET at == {i \in DOMAIN channels : channels[i].number = number}
    IN  IF at = {} THEN None ELSE channels[Min(at)]

CatchupView(page) ==
    IF page.showRecordings THEN "recordings"
    ELSE IF page.selectedNum = None THEN "grid"
    ELSE IF Channel(page.channels, page.selectedNum) = None THEN "not found" ELSE "detail"

RemoveRecording(recs, id) == SelectSeq(recs, LAMBDA r : r # id)

(* ChannelDetail: the seven days up to the one the page was opened on.     *)
Days(calendar, today) == [i \in 0 .. 6 |-> calendar[DayOf(calendar, today) - i]]

DayProgs(calendar, progs, today, selectedDay, now) ==
    LET dayStart == Days(calendar, today)[selectedDay]
    IN  SelectSeq(progs, LAMBDA p : /\ p.start >= dayStart /\ p.start < dayStart + Day
                                    /\ p.start <= now)

DetailView(page, progs, dayProgs) ==
    IF page.epgState = "loading" THEN "loading"
    ELSE IF progs = << >> THEN IF page.epgState = "none" THEN "add a guide" ELSE "not covered"
    ELSE IF dayProgs = << >> THEN "nothing that day" ELSE "programmes"

CatchupHref(ch, p) == [ch |-> ch.number, start |-> p.start, dur |-> 60 * (p.stop - p.start)]

----------------------------------------------------------------------------
Of(list) == {list[i] : i \in DOMAIN list}

(* Leafing through the grid's fifteen pages one sees every hour of a       *)
(* programme that falls on them once, and each hour where it was, although *)
(* its bar is cut at midnight and pages step over changes of the clock.    *)
Pages(g) == {[g EXCEPT !.dayOffset = off] : off \in -7 .. 7}
HoursShown(calendar, h, p, layout) ==
    LET from == DayStart(calendar, h)
        bar == Bar(p, from, from + Day, layout)
    IN  IF p \notin Of(DayFilter(<<p>>, from, from + Day)) THEN {}
        ELSE {from + x : x \in bar.left \div layout.pxPerHour
                                  .. (bar.left + bar.width) \div layout.pxPerHour - 1}
EveryHourIsShownOnce(calendar, g, p, layout) ==
    \A hour \in p.start .. p.stop - 1 :
        LET first == DayStart(calendar, [g EXCEPT !.dayOffset = -7])
        IN  hour \in first .. first + 15 * Day - 1 =>
              Cardinality({h \in Pages(g) : hour \in HoursShown(calendar, h, p, layout)}) = 1

(* The line that marks the time runs through the bar of what is on and     *)
(* through no other, on desktops and on phones, until the grid's last hour.*)
LineIsOnTheCurrent(calendar, g, p, layout) ==
    LET line == NowLineLeft(calendar, g, layout)
        bar == Bar(p, DayStart(calendar, g), DayEnd(calendar, g), layout)
        shown == p \in Of(DayFilter(<<p>>, DayStart(calendar, g), DayEnd(calendar, g)))
    IN  shown /\ line >= 0 /\ g.now < DayEnd(calendar, g) =>
          (IsCurrent(p, g.now) <=> bar.left <= line /\ line < bar.left + bar.width)

(* The page shows the same whether programmes came with the digest or were *)
(* looked up here, as long as some channel has one.                        *)
RowsAgree(calendar, g, list, q) ==
    LET digest == g @@ GuideLoads(<< >>, list, << >>, TRUE, TRUE)
        index == g @@ GuideLoads(list, None, << >>, TRUE, TRUE)
        layout == Layout(0)
    IN  Matched(list) > 0 =>
          GuideView(calendar, digest, q, layout) = GuideView(calendar, index, q, layout)

(* What the grid links as a replay is on one of the seven days of the      *)
(* catch-up page, which links the same moment: if the archive is shorter   *)
(* than the days shown, and none of them has an hour more.                 *)
LinkedIsListed(calendar, ch, p, now) ==
    LET href == GuideHref(ch, p, now) IN
    ch.catchupDays <= 6 /\ InPast(p, now) /\ href # None =>
        \E i \in 0 .. 6 : /\ p \in Of(DayProgs(calendar, <<p>>, now, i, now))
                          /\ CatchupHref(ch, p) = href

(* The banner names what went wrong: nothing configured, nothing fetched,  *)
(* an empty guide, or a guide of other channels than the page shows.       *)
BannerIsHonest(cached, list, feed, epg) ==
    LET page == CatchupLoads(cached, list, feed, epg)
        banner == EpgStatusBanner(page.diag, Len(page.channels))
    IN  /\ (banner = "idle") = ~feed
        /\ (banner = "fail") = (feed /\ epg = None)
        /\ (banner = "zero channels") = (feed /\ epg = 0)
        /\ banner = "none match" <=> /\ feed /\ epg \notin {None, 0}
                                    /\ Matched(page.channels) = 0
        /\ banner # None

(* It does if the playlist could be loaded, or none was cached.            *)
BannerIsHonestIfLoaded(cached, list, feed, epg) ==
    list # << >> \/ cached = << >> => BannerIsHonest(cached, list, feed, epg)

(* "so the now-line tracks live time even when the user leaves the tab     *)
(* open" (guide/page.tsx:141): the day is only taken anew when another one *)
(* is chosen, so that after midnight "Today" is yesterday, without a line. *)
TodayIsToday(calendar, g) ==
    g.dayOffset = 0 => DayStart(calendar, g) = LabelledDay(calendar, g.now, 0)

(* "the programmes that aired during the selected day" (catchup/           *)
(* page.tsx:387): a day of 25 hours lacks its last hour on every page, one *)
(* of 23 shows the first hour of the next.                                 *)
AiredThatDay(calendar, p, now, i) ==
    LET d == DayOf(calendar, now) - i
    IN  p.start <= now =>
          (p \in Of(DayProgs(calendar, <<p>>, now, i, now))
             <=> calendar[d] <= p.start /\ p.start < calendar[d + 1])
=============================================================================
