---------------------------- MODULE ProgrammeGuide -----------------------------
(***************************************************************************)
(* The programme guide: what is read from an XMLTV file, which of it is    *)
(* taken for a channel of the playlist, in the browser and in the digest   *)
(* the server builds, and what is on now and next.                         *)
(*                                                                         *)
(* A name is what is left of it when case and punctuation are dropped; it  *)
(* may end in a quality or a country.  Times are in minutes.               *)
(*                                                                         *)
(* apps/web/src/lib/{epg,epgCache,digest}.ts.                              *)
(***************************************************************************)
EXTENDS Integers, Sequences, SequencesExt, TLC

CONSTANTS
    XmltvIds,
    Names,     \* without a quality
    None

Name == [of : Names, tagged : BOOLEAN]
StripQualityTags(name) == [name EXCEPT !.tagged = FALSE]

(* <channel> and <programme>; the zone is in hours, stop may be missing.   *)
ChannelElement == [id : XmltvIds, displayNames : Seq(Name)]
ProgrammeElement == [channel : XmltvIds, start : Int, stop : Int \cup {None}, zone : Int,
                     title : BOOLEAN]
M3UChannel == [tvgId : XmltvIds \cup {None}, name : Name]

----------------------------------------------------------------------------
ParseXmltvDate(stamp, zone) == stamp - 60 * zone

(* Programmes without a title are left out, and half an hour is assumed.   *)
ReadProgramme(p) ==
    LET start == ParseXmltvDate(p.start, p.zone)
    IN  [channelId |-> p.channel, start |-> start,
         stop |-> IF p.stop = None THEN start + 30 ELSE ParseXmltvDate(p.stop, p.zone)]

(* By channel, in order of their start.                                    *)
IndexProgrammes(elements) ==
    LET titled == SelectSeq(elements, LAMBDA p : p.title)
        progs == [i \in DOMAIN titled |-> ReadProgramme(titled[i])]
    IN  [id \in XmltvIds |-> SortSeq(SelectSeq(progs, LAMBDA p : p.channelId = id),
                                     LAMBDA p, q : p.start < q.start)]

(* The first to claim a name keeps it; a tagged one claims the bare too.   *)
Claims(index, name, id) == [index EXCEPT ![name] = IF @ = None THEN id ELSE @]
IndexChannelNames(elements) ==
    LET ReadName(index, claim) ==
            Claims(Claims(index, claim.name, claim.id), StripQualityTags(claim.name), claim.id)
        claims == FlattenSeq([i \in DOMAIN elements |->
                    [j \in DOMAIN elements[i].displayNames |->
                       [id |-> elements[i].id, name |-> elements[i].displayNames[j]]]])
    IN  FoldLeft(ReadName, [name \in Name |-> None], claims)

ById(byId, id) == IF id = None THEN << >> ELSE byId[id]
OrElse(list, other) == IF list # << >> THEN list ELSE other

(* The browser: the tvg-id, the name, the name without its tag.            *)
ProgrammesFor(byId, byName, ch) ==
    OrElse(ById(byId, ch.tvgId),
           OrElse(ById(byId, byName[ch.name]), ById(byId, byName[StripQualityTags(ch.name)])))

(* The digest: the name without its tag only if nobody claims the other.   *)
MatchOf(byId, byName, ch) ==
    OrElse(ById(byId, ch.tvgId),
           ById(byId, IF byName[ch.name] # None THEN byName[ch.name]
                      ELSE byName[StripQualityTags(ch.name)]))

(* The walk ends at the first programme past the window.                   *)
PickProgrammes(byId, byName, ch, from, to) ==
    LET progs == MatchOf(byId, byName, ch)
        past == {i \in DOMAIN progs : progs[i].stop > from /\ progs[i].start >= to}
        walked == IF past = {} THEN progs
                  ELSE SubSeq(progs, 1, (CHOOSE i \in past : \A j \in past : i <= j) - 1)
    IN  SelectSeq(walked, LAMBDA p : p.stop > from /\ p.start < to)

(* The last that is on, and the two after now.                             *)
PickNowNext(progs, now) ==
    LET on == SelectSeq(progs, LAMBDA p : p.start <= now /\ p.stop > now)
        upcoming == SelectSeq(progs, LAMBDA p : p.start > now)
        Nth(list, n) == IF n \in DOMAIN list THEN list[n] ELSE None
    IN  [now |-> Nth(on, Len(on)), next1 |-> Nth(upcoming, 1), next2 |-> Nth(upcoming, 2)]

----------------------------------------------------------------------------
Of(list) == {list[i] : i \in DOMAIN list}

(* "drop anything outside the time window" (digest.ts:74): though the walk *)
(* breaks off, it misses nothing of the window, wherever programmes of     *)
(* the file overlap or have no stop.                                       *)
WindowIsWhole(elements, byName, ch, from, to) ==
    LET byId == IndexProgrammes(elements)
    IN  Of(PickProgrammes(byId, byName, ch, from, to))
          = {p \in Of(MatchOf(byId, byName, ch)) : p.stop > from /\ p.start < to}

(* What the banner calls now is on, and began last of what is; next is the *)
(* first to begin after it.                                                *)
BannerIsRight(elements, id, now) ==
    LET progs == IndexProgrammes(elements)[id]
        banner == PickNowNext(progs, now)
        on == {p \in Of(progs) : p.start <= now /\ p.stop > now}
        later == {p \in Of(progs) : p.start > now}
    IN  /\ (banner.now = None) = (on = {})
        /\ on # {} => banner.now \in on /\ \A p \in on : p.start <= banner.now.start
        /\ (banner.next1 = None) = (later = {})
        /\ later # {} => banner.next1 \in later /\ \A p \in later : banner.next1.start <= p.start

(* "same algorithm as client-side programmesFor" (digest.ts:73): a channel *)
(* shows the same programmes whether they come with the digest or not.     *)
DigestAgrees(elements, names, ch) ==
    LET byId == IndexProgrammes(elements)
        byName == IndexChannelNames(names)
    IN  MatchOf(byId, byName, ch) = ProgrammesFor(byId, byName, ch)

(* It does if whoever claims the channel's name has programmes.            *)
DigestAgreesIfListed(elements, names, ch) ==
    LET claimed == IndexChannelNames(names)[ch.name]
    IN  (claimed # None => IndexProgrammes(elements)[claimed] # << >>)
           => DigestAgrees(elements, names, ch)
=============================================================================
