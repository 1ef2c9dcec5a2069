---------------------------- MODULE MCSourceCaches -----------------------------
(* Two accounts of one browser, two playlists and one programme guide; and *)
(* what is in the files: playlists of up to four lines or four entries,    *)
(* guides of up to three programmes or three channels.  And the pages that *)
(* show the guide: plain calendars, and such that have a day of 23 hours   *)
(* or of 25 before, on or after the day the page was opened.               *)
EXTENDS SourceCaches, TLC

File == INSTANCE PlaylistFile WITH TvgIds <- {"a", "b"}

Entries == [tvgId : {"", "a", "b"}, chno : 0 .. 2, catchup : {0}, agent : {0}]
Lines == {File!Header(1), File!Option(1), File!UrlLine, File!Other} \cup {File!ExtInf(e) : e \in Entries}
Files ==
    UNION {[1 .. n -> Lines] : n \in 0 .. 4}
    \cup {FlattenSeq([i \in 1 .. 4 |-> <<File!ExtInf(es[i]), File!UrlLine>>]) : es \in [1 .. 4 -> Entries]}

ASSUME FilesAreRead ==
    \A lines \in Files :
        File!NoRowIsLost(lines) /\ File!IdsDiffer(lines) /\ File!NumbersAscend(lines)

Guide == INSTANCE ProgrammeGuide WITH XmltvIds <- {"x", "y"}, Names <- {"n"}

UpTo(S, n) == UNION {[1 .. k -> S] : k \in 0 .. n}
Programmes(ids, starts, stops) ==
    [channel : ids, start : starts, stop : stops, zone : {0, 1}, title : {TRUE}]
Schedules == UpTo(Programmes({"x"}, {60, 80}, {None, 60, 100}), 3)
Named == [tvgId |-> "x", name |-> [of |-> "n", tagged |-> FALSE]]

ASSUME ScheduleIsRead ==
    \A elements \in Schedules, now \in {0, 20, 70, 80} :
        /\ Guide!BannerIsRight(elements, "x", now)
        /\ Guide!WindowIsWhole(elements, [name \in Guide!Name |-> None], Named, now, 80)

ASSUME ChannelsAreMatched ==
    \A elements \in UpTo(Programmes({"x", "y"}, {0}, {None}), 1),
       names \in UpTo([id : {"x", "y"}, displayNames : UpTo(Guide!Name, 1)], 3),
       ch \in Guide!M3UChannel :
        Guide!DigestAgreesIfListed(elements, names, ch)

Screens == INSTANCE TvGuide

CalendarWith(short, long) ==
    [d \in -9 .. 9 |-> 24 * d - (IF d > short THEN 1 ELSE 0) + (IF d > long THEN 1 ELSE 0)]
Plain == CalendarWith(9, 9)
Calendars == {Plain, CalendarWith(-2, 9), CalendarWith(9, -2), CalendarWith(9, 0),
              CalendarWith(0, 9)}
Lasting(starts, hours) == {[start |-> s, stop |-> s + n] : s \in starts, n \in hours}
Opened(at, offs, now) == [opened : at, dayOffset : offs, now : now]
Widths == {Screens!Layout(300), Screens!Layout(1000)}

ASSUME GridShowsEveryHour ==
    \A c \in Calendars, p \in Lasting({-170, -168, -145, -49, -1, 0, 190}, {1, 5, 30}),
       now \in {0, 22} :
        Screens!EveryHourIsShownOnce(c, [opened |-> now, now |-> now, dayOffset |-> 0],
                                     p, Screens!Layout(300))

ASSUME LineIsRight ==
    \A c \in Calendars, p \in [start : {-3, 0, 22}, stop : {23, 24, 26}],
       g \in Opened({0, 3, 22}, -7 .. 7, {0, 3, 22, 23, 24, 26}), layout \in Widths :
        Screens!LineIsOnTheCurrent(c, g, p, layout)

Station(n, programmes) ==
    [number |-> n, name |-> IF n = 1 THEN "a" ELSE "b", category |-> "k", catchupDays |-> 7,
     programmes |-> programmes]
Days3 == {<< >>, <<[start |-> 0, stop |-> 2]>>, <<[start |-> -25, stop |-> -20]>>,
          <<[start |-> -1, stop |-> 1], [start |-> 1, stop |-> 3]>>}
Stations == {<< >>} \cup {<<Station(1, a)>> : a \in Days3}
            \cup {<<Station(1, a), Station(2, b)>> : a, b \in Days3}

ASSUME GuideIsLoaded ==
    \A list \in Stations :
       /\ \A g \in Opened({3}, -1 .. 0, {3}), q \in {None, "a"} : Screens!RowsAgree(Plain, g, list, q)
       /\ \A before \in Stations, feed \in BOOLEAN, ids \in {None, 0, 3} :
            Screens!BannerIsHonestIfLoaded(before, list, feed, ids)

ASSUME ReplaysAreListed ==
    \A p \in Lasting({-170, -169, -168, -146, -145, -144, -50, -48, -47, -25, -24, -23, -1, 0}, {1, 2, 30}),
       days \in 0 .. 6, now \in {0, 3, 22} :
        Screens!LinkedIsListed(Plain, [Station(1, << >>) EXCEPT !.catchupDays = days], p, now)
=============================================================================
