----------------------------- MODULE StreamsProofs -----------------------------
(***************************************************************************)
(* Theorems about how streams are found, asked for and changed: the        *)
(* refreshes of a playlist source by the playlist service; the playback    *)
(* service and the AI playback supervisor, for every catalogue, however    *)
(* its streams share channels and hosts; and, in the web application, the  *)
(* channels of a playlist file, the guide and the catch-up URLs.           *)
(***************************************************************************)
EXTENDS PlaylistIngest, FailoverSupervisor, PlaylistFile, CatchupUrls, ProgrammeGuide, TLAPS

(***************************************************************************)
(* PlaylistFile, for any tvg-ids: no line makes two channels share an id,  *)
(* or loses one already read.  That what holds of the empty playlist and   *)
(* survives every line holds of every playlist is the induction over the   *)
(* fold that the provers cannot do.                                        *)
(***************************************************************************)
FileLine == [tag : {"EXTM3U"}, catchup : Nat] \cup [tag : {"EXTINF"}, entry : Entry]
        \cup [tag : {"EXTVLCOPT"}, agent : Nat] \cup [tag : {"url"}] \cup [tag : {"other"}]

ListedChannel == [id : Id, row : Nat, number : Nat, catchup : Nat, agent : Nat]
State == [pending : Entry \cup {NoEntry}, positional : Nat, default : Nat, used : SUBSET Id,
          explicit : BOOLEAN, extinf : Nat, orphans : Nat, out : Seq(ListedChannel)]

(* Every id given out is recorded, and of a row no later than this one.    *)
Recorded(s) == \A i \in 1 .. Len(s.out) : s.out[i].id \in s.used
OfEarlierRows(s) == \A id \in s.used : id.again <= s.positional
Different(s) ==
    \A i, j \in 1 .. Len(s.out) : s.out[i].id = s.out[j].id => i = j

IdsOK(s) == s \in State /\ Recorded(s) /\ OfEarlierRows(s) /\ Different(s)

(* The id of the next row is none of those before: if the bare one is      *)
(* taken, no id ends in this row yet.                                      *)
LEMMA FreshId ==
  ASSUME NEW s \in State, OfEarlierRows(s), NEW e \in Entry
  PROVE  LET id == IdOf(e, s.positional + 1, s.used)
         IN  id \in Id /\ id \notin s.used /\ id.again <= s.positional + 1
<1> DEFINE row == s.positional + 1
<1> DEFINE bare == Bare(e, row)
<1>1. row \in Nat /\ s.positional \in Nat /\ e.tvgId \in TvgIds \cup {NoId}
  BY DEF State, Entry
<1>2. bare \in Id /\ bare.again = 0
  BY <1>1 DEF Bare, Id
<1>3. CASE bare \notin s.used
  BY <1>1, <1>2, <1>3 DEF IdOf
<1>4. CASE bare \in s.used
  <2> DEFINE id == [bare EXCEPT !.again = row]
  <2>1. id \in Id /\ id.again = row
    BY <1>1, <1>2 DEF Id
  <2>2. id \notin s.used
    <3> SUFFICES ASSUME id \in s.used PROVE FALSE
      OBVIOUS
    <3>1. id.again <= s.positional
      BY DEF OfEarlierRows
    <3> QED  BY <1>1, <2>1, <3>1
  <2> QED  BY <1>1, <1>4, <2>1, <2>2 DEF IdOf
<1> QED  BY <1>3, <1>4

(* What an entry becomes when its URL is read.                             *)
LEMMA EmitsKeepsIds ==
  ASSUME NEW s, IdsOK(s), Waiting(s)
  PROVE  /\ IdsOK(Emits(s))
         /\ Len(Emits(s).out) = Len(s.out) + 1
         /\ \A i \in 1 .. Len(s.out) : Emits(s).out[i] = s.out[i]
<1> DEFINE row == s.positional + 1
<1> DEFINE e == s.pending
<1> DEFINE id == IdOf(e, row, s.used)
<1> DEFINE ch == [id |-> id, row |-> row, number |-> Declared(e.chno, row),
                  catchup |-> Declared(e.catchup, s.default), agent |-> e.agent]
<1> DEFINE t == Emits(s)
<1>1. /\ s \in State /\ e \in Entry /\ row \in Nat
      /\ s.out \in Seq(ListedChannel) /\ s.used \subseteq Id /\ s.default \in Nat
      /\ OfEarlierRows(s)
  BY DEF IdsOK, Waiting, State
<1>2. id \in Id /\ id \notin s.used /\ id.again <= row
  BY <1>1, FreshId
<1>3. ch \in ListedChannel
  <2>1. e.chno \in Nat /\ e.catchup \in Nat /\ e.agent \in Nat
    BY <1>1 DEF Entry
  <2> QED  BY <1>1, <1>2, <2>1 DEF ListedChannel, Declared
<1>4. /\ t = [s EXCEPT !.pending = NoEntry, !.positional = row,
                       !.explicit = @ \/ e.chno # 0,
                       !.used = @ \cup {id}, !.out = Append(@, ch)]
  BY DEF Emits
<1> HIDE DEF ch, id, row, t
<1>5. t.out = Append(s.out, ch) /\ t.used = s.used \cup {id} /\ t.positional = row
  BY <1>1, <1>4 DEF State
<1>6. t \in State
  <2>1. s.used \cup {id} \in SUBSET Id /\ Append(s.out, ch) \in Seq(ListedChannel)
    BY <1>1, <1>2, <1>3
  <2>2. (s.explicit \/ e.chno # 0) \in BOOLEAN
    OBVIOUS
  <2> HIDE DEF e
  <2> QED  BY <1>1, <1>4, <2>1, <2>2 DEF State
<1>7. /\ Len(t.out) = Len(s.out) + 1 /\ t.out[Len(s.out) + 1] = ch
      /\ \A i \in 1 .. Len(s.out) : t.out[i] = s.out[i]
  BY <1>1, <1>3, <1>5
<1>8. ch.id = id
  BY DEF ch
<1>9. Len(s.out) \in Nat
  BY <1>1
<1>10. Recorded(t)
  BY <1>5, <1>7, <1>8, <1>9 DEF Recorded, IdsOK
<1>11. OfEarlierRows(t)
  <2> SUFFICES ASSUME NEW x \in t.used PROVE x.again <= row
    BY <1>5 DEF OfEarlierRows
  <2>1. CASE x = id
    BY <1>2, <2>1
  <2>2. CASE x \in s.used
    <3>1. x.again \in Nat /\ s.positional \in Nat /\ x.again <= s.positional
      BY <1>1, <2>2 DEF OfEarlierRows, State, Id
    <3> QED  BY <3>1 DEF row
  <2> QED  BY <1>5, <2>1, <2>2
<1>12. Different(t)
  <2> SUFFICES ASSUME NEW i \in 1 .. Len(t.out), NEW j \in 1 .. Len(t.out),
                      t.out[i].id = t.out[j].id
               PROVE  i = j
    BY DEF Different
  <2>1. CASE i \in 1 .. Len(s.out) /\ j \in 1 .. Len(s.out)
    BY <1>7, <2>1 DEF Different, IdsOK
  <2>2. CASE i = Len(s.out) + 1 /\ j \in 1 .. Len(s.out)
    BY <1>2, <1>7, <1>8, <2>2 DEF Recorded, IdsOK
  <2>3. CASE j = Len(s.out) + 1 /\ i \in 1 .. Len(s.out)
    BY <1>2, <1>7, <1>8, <2>3 DEF Recorded, IdsOK
  <2> QED  BY <1>7, <1>9, <2>1, <2>2, <2>3
<1> QED  BY <1>6, <1>7, <1>10, <1>11, <1>12 DEF IdsOK, t

(* An empty playlist.                                                      *)
THEOREM NoIdsYet == IdsOK(Start)
<1>1. Start \in State
  BY DEF Start, State
<1>2. Start.out = << >> /\ Start.used = {}
  BY DEF Start
<1> QED  BY <1>1, <1>2 DEF IdsOK, Recorded, OfEarlierRows, Different

(* "The first occurrence keeps the bare value ... later ones get a         *)
(* positional suffix" (m3u.ts:198): whatever the line, the channels read   *)
(* so far stay as they are and their ids stay different.                   *)
THEOREM LineKeepsIds ==
  ASSUME NEW s, IdsOK(s), NEW line \in FileLine
  PROVE  /\ IdsOK(ReadLine(s, line))
         /\ Len(ReadLine(s, line).out) \in {Len(s.out), Len(s.out) + 1}
         /\ \A i \in 1 .. Len(s.out) : ReadLine(s, line).out[i] = s.out[i]
<1> DEFINE t == ReadLine(s, line)
<1>1. s \in State
  BY DEF IdsOK
<1>2. CASE line.tag = "url" /\ Waiting(s)
  <2>1. t = Emits(s)
    BY <1>2 DEF ReadLine
  <2> QED  BY <2>1, <1>2, EmitsKeepsIds
<1>3. CASE ~(line.tag = "url" /\ Waiting(s))
  <2>1. /\ t \in State /\ t.out = s.out /\ t.used = s.used /\ t.positional = s.positional
    <3>1. CASE line.tag = "EXTM3U"
      <4>1. line.catchup \in Nat /\ s.default \in Nat
        BY <1>1, <3>1 DEF FileLine, State
      <4>2. Declared(line.catchup, s.default) \in Nat
        BY <4>1 DEF Declared
      <4>3. t = [s EXCEPT !.default = Declared(line.catchup, @)]
        BY <3>1 DEF ReadLine
      <4> QED  BY <1>1, <4>2, <4>3 DEF State
    <3>2. CASE line.tag = "EXTINF"
      <4>1. line.entry \in Entry
        BY <3>2 DEF FileLine
      <4>2. t = [s EXCEPT !.extinf = @ + 1, !.pending = line.entry]
        BY <3>2 DEF ReadLine
      <4>3. s.extinf + 1 \in Nat /\ line.entry \in Entry \cup {NoEntry}
        BY <1>1, <4>1 DEF State
      <4> HIDE DEF t
      <4> QED  BY <1>1, <4>2, <4>3 DEF State
    <3>3. CASE line.tag = "EXTVLCOPT" /\ Waiting(s)
      <4>1. line.agent \in Nat /\ s.pending \in Entry
        BY <1>1, <3>3 DEF FileLine, State, Waiting
      <4>2. [s.pending EXCEPT !.agent = line.agent] \in Entry
        BY <4>1 DEF Entry
      <4>3. t = [s EXCEPT !.pending = [s.pending EXCEPT !.agent = line.agent]]
        BY <3>3 DEF ReadLine
      <4> QED  BY <1>1, <4>2, <4>3 DEF State
    <3>4. CASE line.tag = "url" /\ ~Waiting(s)
      <4>1. t = [s EXCEPT !.orphans = @ + 1]
        BY <3>4 DEF ReadLine
      <4> QED  BY <1>1, <4>1 DEF State
    <3>5. CASE line.tag = "other" \/ (line.tag = "EXTVLCOPT" /\ ~Waiting(s))
      <4>1. t = s
        BY <3>5 DEF ReadLine
      <4> QED  BY <1>1, <4>1
    <3>6. line.tag \in {"EXTM3U", "EXTINF", "EXTVLCOPT", "url", "other"}
      BY DEF FileLine
    <3> QED  BY <1>3, <3>1, <3>2, <3>3, <3>4, <3>5, <3>6
  <2>2. IdsOK(t)
    BY <2>1 DEF IdsOK, Recorded, OfEarlierRows, Different
  <2> QED  BY <2>1, <2>2
<1> QED  BY <1>2, <1>3

(***************************************************************************)
(* CatchupUrls, for any times in milliseconds: however a URL spells the    *)
(* programme, it asks for the same one.                                    *)
(***************************************************************************)
(* What division rounds away.                                              *)
LEMMA Thousand ==
  ASSUME NEW x \in Int
  PROVE  /\ x \div 1000 \in Int
         /\ 1000 * (x \div 1000) <= x /\ x < 1000 * (x \div 1000) + 1000
  OBVIOUS

LEMMA SixtyThousand ==
  ASSUME NEW x \in Int
  PROVE  /\ x \div 60000 \in Int
         /\ 60000 * (x \div 60000) <= x /\ x < 60000 * (x \div 60000) + 60000
  OBVIOUS

LEMMA RequestFacts ==
  ASSUME NEW q \in UrlRequest
  PROVE  /\ q.start \in Int /\ q.dur \in Nat /\ q.corr \in Int /\ q.now \in Int
         /\ CorrectedStartMs(q) \in Int
  BY DEF UrlRequest, CorrectedStartMs

(* The template and the Xtream guesses round the end down, the Flussonic   *)
(* guesses add the duration to a start already rounded (catchup.ts:78, 308, *)
(* 211): the windows are the same.                                         *)
THEOREM AsksForWholeWindow ==
  ASSUME NEW q \in UrlRequest
  PROVE  UtcEnd(q) = Utc(q) + DurSec(q)
<1>1. CorrectedStartMs(q) \in Int /\ q.dur \in Nat
  BY RequestFacts
<1>2. (CorrectedStartMs(q) + 60000 * q.dur) \div 1000
        = CorrectedStartMs(q) \div 1000 + 60 * q.dur
  BY <1>1
<1> QED  BY <1>2 DEF UtcEnd, Utc, DurSec

(* How much later than what the URL asks for the moment ms is.             *)
Late(ms, u, q, low, high) ==
    LET late == ms - 1000 * AsksFor(u, q) IN low <= late /\ late < high

(* A programme that has begun is asked for from the corrected start, or a  *)
(* second to a minute before it; an offset is from the start as it was     *)
(* given, "so applying it to offset double-counts the shift"               *)
(* (catchup.ts:73).                                                        *)
THEOREM AsksForTheProgramme ==
  ASSUME NEW q \in UrlRequest, q.start <= q.now, NEW u
  PROVE  /\ u.by = "utc" => Late(CorrectedStartMs(q), u, q, 0, 1000)
         /\ u.by = "minute" => Late(CorrectedStartMs(q), u, q, 0, 60000)
         /\ u.by = "offset" => Late(q.start, u, q, -1000, 1000)
<1>1. /\ q.start \in Int /\ q.now \in Int /\ CorrectedStartMs(q) \in Int
  BY RequestFacts
<1>2. CASE u.by = "utc"
  <2>1. AsksFor(u, q) = CorrectedStartMs(q) \div 1000
    BY <1>2 DEF AsksFor, Utc
  <2>2. Late(CorrectedStartMs(q), u, q, 0, 1000)
    BY <1>1, <2>1, Thousand DEF Late
  <2> QED  BY <1>2, <2>2
<1>3. CASE u.by = "minute"
  <2> DEFINE minute == CorrectedStartMs(q) \div 60000
  <2>1. /\ minute \in Int /\ 60000 * minute <= CorrectedStartMs(q)
        /\ CorrectedStartMs(q) < 60000 * minute + 60000
    BY <1>1, SixtyThousand
  <2>2. AsksFor(u, q) = 60 * minute
    BY <1>3 DEF AsksFor, Minute
  <2> HIDE DEF minute
  <2>3. Late(CorrectedStartMs(q), u, q, 0, 60000)
    BY <1>1, <2>1, <2>2 DEF Late
  <2> QED  BY <1>3, <2>3
<1>4. CASE u.by = "offset"
  <2> DEFINE passed == (q.now - q.start) \div 1000
  <2> DEFINE second == q.now \div 1000
  <2>1. q.now - q.start \in Int
    BY <1>1
  <2>2. /\ passed \in Int /\ 1000 * passed <= q.now - q.start
        /\ q.now - q.start < 1000 * passed + 1000
    BY <2>1, Thousand
  <2>3. second \in Int /\ 1000 * second <= q.now /\ q.now < 1000 * second + 1000
    BY <1>1, Thousand
  <2>4. AsksFor(u, q) = second - Offset(q)
    BY <1>4 DEF AsksFor
  <2>5. Offset(q) = IF passed > 0 THEN passed ELSE 0
    BY DEF Offset
  <2> HIDE DEF passed, second
  <2>6. passed >= 0
    BY <1>1, <2>2
  <2>7. AsksFor(u, q) = second - passed
    BY <2>2, <2>4, <2>5, <2>6
  <2>8. Late(q.start, u, q, -1000, 1000)
    BY <1>1, <2>2, <2>3, <2>7 DEF Late
  <2> QED  BY <1>4, <2>8
<1> QED  BY <1>2, <1>3, <1>4

(***************************************************************************)
(* ProgrammeGuide, for any guide.                                          *)
(***************************************************************************)
(* Of any file and any channel: the two matches part only where the name   *)
(* belongs to a channel of the guide that has no programmes.               *)
THEOREM DigestMatches ==
  ASSUME NEW elements, NEW names, NEW ch
  PROVE  DigestAgreesIfListed(elements, names, ch)
<1> DEFINE byId == IndexProgrammes(elements)
<1> DEFINE byName == IndexChannelNames(names)
<1> DEFINE claimed == byName[ch.name]
<1> SUFFICES ASSUME claimed # None => byId[claimed] # << >>
             PROVE  MatchOf(byId, byName, ch) = ProgrammesFor(byId, byName, ch)
  BY DEF DigestAgreesIfListed, DigestAgrees
<1> HIDE DEF byId, byName
<1>1. CASE claimed = None
  BY <1>1 DEF MatchOf, ProgrammesFor, OrElse, ById
<1>2. CASE claimed # None
  BY <1>2 DEF MatchOf, ProgrammesFor, OrElse, ById
<1> QED  BY <1>1, <1>2

(***************************************************************************)
(* PlaylistIngest: a refresh loses no entry on the way from the playlist   *)
(* to the catalogue.                                                       *)
(***************************************************************************)

\* The parts of the state that a refresh of its own has.
IngestTyped ==
    /\ phase \in [Jobs -> {"none", "fetch", "run", "mark"} \cup Ended]
    /\ playlist \in [Jobs -> Seq(Stream)]
    /\ unread \in [Jobs -> Seq(Stream)]
    /\ entries \in [Jobs -> Seq(Stream)]
    /\ buf \in [Jobs -> Seq(Stream)]
    /\ seen \in [Jobs -> SUBSET URLs]
    /\ parser \in [Jobs -> {"line", "send"} \cup Ended]
    /\ consumer \in [Jobs -> {"select", "flush", "last"} \cup Ended]
    /\ catalogue \in [Stream -> Health]
    /\ probes \in [Jobs -> SUBSET Stream]

\* Which goroutine can be where, and what is left for it then.
Stages(j) ==
    /\ phase[j] \in {"none", "fetch"} =>
          /\ parser[j] = "line" /\ consumer[j] = "select" /\ seen[j] = {}
          /\ playlist[j] = <<>> /\ unread[j] = <<>> /\ entries[j] = <<>> /\ buf[j] = <<>>
    /\ parser[j] = "send" => unread[j] # <<>>
    /\ parser[j] = "done" => unread[j] = <<>>
    /\ consumer[j] \in {"last", "done"} => parser[j] \in Ended /\ entries[j] = <<>>
    /\ consumer[j] = "done" => buf[j] = <<>>
    /\ phase[j] \in {"mark", "done"} => parser[j] = "done" /\ consumer[j] = "done"

\* How many entries the consumer has had; the channel holds the ones after them,
\* and the parser has the rest to send.
Had(j) == Len(playlist[j]) - Len(unread[j]) - Len(entries[j])

InTurn(j) ==
    /\ Had(j) >= 0
    /\ \A i \in 1 .. Len(entries[j]) : entries[j][i] = playlist[j][Had(j) + i]
    /\ \A i \in 1 .. Len(unread[j]) :
          unread[j][i] = playlist[j][Had(j) + Len(entries[j]) + i]

IsFirst(p, i) == \A k \in 1 .. i - 1 : p[k].url # p[i].url

\* What the consumer has seen is what it has had, and of each URL the first entry
\* is in its batch or in the catalogue.
Deduplicated(j) ==
    /\ \A i \in 1 .. Had(j) : playlist[j][i].url \in seen[j]
    /\ \A u \in seen[j] : \E i \in 1 .. Had(j) : playlist[j][i].url = u
    /\ \A s \in Rows(j) : s.url \in seen[j] /\ s \in ToSet(playlist[j])
    /\ j \notin foreign =>
          \A i \in 1 .. Had(j) :
             IsFirst(playlist[j], i) => playlist[j][i] \in Known \cup Rows(j)

\* A refresh that met no stream but its own finds none of its batch there.
AllItsOwn(j) ==
    j \notin foreign =>
       /\ Rows(j) \cap Known = {}
       /\ \A s \in Known : s \in ToSet(playlist[j]) => s.url \in seen[j]

IngestInv ==
    /\ IngestTyped
    /\ \A j \in Jobs : /\ Stages(j) /\ InTurn(j) /\ Deduplicated(j) /\ AllItsOwn(j)
                       /\ probes[j] \subseteq Known

---------------------------------------------------------------------------
LEMMA Sequences ==
    ASSUME NEW S, NEW s \in Seq(S)
    PROVE  /\ Len(s) \in Nat
           /\ \A i \in 1 .. Len(s) : s[i] \in S
           /\ \A e : e \in ToSet(s) <=> \E i \in 1 .. Len(s) : s[i] = e
           /\ s = <<>> <=> Len(s) = 0
           /\ s # <<>> => /\ Head(s) \in S /\ Head(s) = s[1]
                          /\ Tail(s) \in Seq(S) /\ Len(Tail(s)) = Len(s) - 1
                          /\ \A i \in 1 .. Len(s) - 1 : Tail(s)[i] = s[i + 1]
           /\ \A e \in S : /\ Append(s, e) \in Seq(S) /\ Len(Append(s, e)) = Len(s) + 1
                           /\ \A i \in 1 .. Len(s) : Append(s, e)[i] = s[i]
                           /\ Append(s, e)[Len(s) + 1] = e
                           /\ ToSet(Append(s, e)) = ToSet(s) \cup {e}
           /\ <<>> \in Seq(S) /\ ToSet(<<>>) = {}
<1>1. /\ Len(s) \in Nat
      /\ \A i \in 1 .. Len(s) : s[i] \in S
      /\ s = <<>> <=> Len(s) = 0
  OBVIOUS
<1>2. \A e : e \in ToSet(s) <=> \E i \in 1 .. Len(s) : s[i] = e
  BY DEF ToSet
<1>3. s # <<>> => /\ Head(s) \in S /\ Head(s) = s[1]
                  /\ Tail(s) \in Seq(S) /\ Len(Tail(s)) = Len(s) - 1
                  /\ \A i \in 1 .. Len(s) - 1 : Tail(s)[i] = s[i + 1]
  OBVIOUS
<1>4. ASSUME NEW e \in S
      PROVE  /\ Append(s, e) \in Seq(S) /\ Len(Append(s, e)) = Len(s) + 1
             /\ \A i \in 1 .. Len(s) : Append(s, e)[i] = s[i]
             /\ Append(s, e)[Len(s) + 1] = e
  OBVIOUS
<1>5. ASSUME NEW e \in S PROVE ToSet(Append(s, e)) = ToSet(s) \cup {e}
  <2>1. ToSet(Append(s, e)) = {Append(s, e)[i] : i \in 1 .. Len(s) + 1}
    BY <1>4 DEF ToSet
  <2>2. ToSet(s) = {s[i] : i \in 1 .. Len(s)}
    BY DEF ToSet
  <2>3. \A i \in 1 .. Len(s) + 1 : i \in 1 .. Len(s) \/ i = Len(s) + 1
    BY <1>1
  <2>4. 1 .. Len(s) \subseteq 1 .. Len(s) + 1 /\ Len(s) + 1 \in 1 .. Len(s) + 1
    BY <1>1
  <2> QED
    BY <1>4, <2>1, <2>2, <2>3, <2>4
<1>6. <<>> \in Seq(S) /\ ToSet(<<>>) = {}
  BY DEF ToSet
<1> QED
  BY <1>1, <1>2, <1>3, <1>4, <1>5, <1>6

\* Other refreshes only add to the catalogue, and what they add that is in the
\* playlist of this one they mark as foreign to it.
LEMMA DataKept ==
    ASSUME IngestInv, NEW k \in Jobs,
           playlist'[k] = playlist[k], unread'[k] = unread[k], entries'[k] = entries[k],
           buf'[k] = buf[k], seen'[k] = seen[k],
           Known \subseteq Known', foreign \subseteq foreign',
           k \notin foreign' => \A s \in Known' : s \in ToSet(playlist[k]) => s \in Known
    PROVE  InTurn(k)' /\ Deduplicated(k)' /\ AllItsOwn(k)'
<1>1. Had(k)' = Had(k) /\ Rows(k)' = Rows(k)
  BY DEF Had, Rows
<1>2. InTurn(k)'
  BY <1>1 DEF IngestInv, InTurn
<1>3. Deduplicated(k)'
  BY <1>1 DEF IngestInv, Deduplicated, IsFirst
<1>4. AllItsOwn(k)'
  BY <1>1 DEF IngestInv, Deduplicated, AllItsOwn
<1> QED
  BY <1>2, <1>3, <1>4

\* Steps of one goroutine that move no entry and write no row.
LEMMA ControlOnly ==
    ASSUME IngestInv, UNCHANGED <<playlist, unread, entries, buf, seen, catalogue>>,
           foreign \subseteq foreign', IngestTyped', \A k \in Jobs : Stages(k)',
           \A k \in Jobs : probes'[k] \subseteq Known
    PROVE  IngestInv'
<1>1. Known' = Known
  BY DEF Known
<1>2. \A k \in Jobs : InTurn(k)' /\ Deduplicated(k)' /\ AllItsOwn(k)'
  BY <1>1, DataKept
<1> QED
  BY <1>1, <1>2 DEF IngestInv

LEMMA ControlSteps ==
    ASSUME IngestInv, NEW j \in Jobs,
           \/ Refresh(j) \/ Deadline(j) \/ FetchFails(j) \/ ParseEntry(j) \/ ParserEnds(j)
           \/ ReceiveEnd(j) \/ ConsumerStops(j) \/ FlushFails(j) \/ Wait(j) \/ MarkFails(j)
    PROVE  IngestInv'
<1>1. /\ UNCHANGED <<playlist, unread, entries, buf, seen, catalogue>>
      /\ foreign' = foreign /\ probes' = probes
  BY DEF Refresh, Deadline, FetchFails, ParseEntry, ParserEnds, ReceiveEnd, ConsumerStops,
         FlushFails, Wait, MarkFails, parseVars, consumeVars, storeVars
<1>2. IngestTyped /\ \A k \in Jobs : Stages(k) /\ probes[k] \subseteq Known
  BY DEF IngestInv
<1>3. IngestTyped' /\ \A k \in Jobs : Stages(k)'
  <2>1. CASE Refresh(j)
    BY <1>1, <1>2, <2>1 DEF Refresh, IngestTyped, Stages, Ended, parseVars, consumeVars
  <2>2. CASE Deadline(j)
    BY <1>1, <1>2, <2>2 DEF Deadline, IngestTyped, Stages, Ended, parseVars, consumeVars
  <2>3. CASE FetchFails(j)
    BY <1>1, <1>2, <2>3 DEF FetchFails, IngestTyped, Stages, Ended, parseVars, consumeVars
  <2>4. CASE ParseEntry(j)
    BY <1>1, <1>2, <2>4 DEF ParseEntry, Line, IngestTyped, Stages, Ended, jobVars, consumeVars
  <2>5. CASE ParserEnds(j)
    BY <1>1, <1>2, <2>5 DEF ParserEnds, Line, IngestTyped, Stages, Ended, jobVars, consumeVars
  <2>6. CASE ReceiveEnd(j)
    BY <1>1, <1>2, <2>6 DEF ReceiveEnd, Selecting, IngestTyped, Stages, Ended, jobVars, parseVars
  <2>7. CASE ConsumerStops(j)
    BY <1>1, <1>2, <2>7 DEF ConsumerStops, Selecting, IngestTyped, Stages, Ended, jobVars, parseVars
  <2>8. CASE FlushFails(j)
    BY <1>1, <1>2, <2>8 DEF FlushFails, Flushing, IngestTyped, Stages, Ended, jobVars, parseVars
  <2>9. CASE Wait(j)
    BY <1>1, <1>2, <2>9 DEF Wait, IngestTyped, Stages, Ended, parseVars, consumeVars
  <2>10. CASE MarkFails(j)
    BY <1>1, <1>2, <2>10 DEF MarkFails, IngestTyped, Stages, Ended, parseVars, consumeVars
  <2> QED
    BY <2>1, <2>2, <2>3, <2>4, <2>5, <2>6, <2>7, <2>8, <2>9, <2>10
<1> QED
  BY <1>1, <1>2, <1>3, ControlOnly

LEMMA MarkInv == ASSUME IngestInv, NEW j \in Jobs, Mark(j) PROVE IngestInv'
<1>1. /\ UNCHANGED <<playlist, unread, entries, buf, seen, catalogue, parser, consumer>>
      /\ foreign' = foreign /\ phase' = [phase EXCEPT ![j] = "done"] /\ phase[j] = "mark"
  BY DEF Mark, parseVars, consumeVars
<1>2. PICK listed \in {Known, {s \in Known : catalogue[s] = "unknown"}} :
         probes' = [probes EXCEPT ![j] = listed]
  BY DEF Mark
<1>3. IngestTyped /\ \A k \in Jobs : Stages(k) /\ probes[k] \subseteq Known
  BY DEF IngestInv
<1>4. listed \subseteq Known /\ listed \subseteq Stream
  BY DEF Known
<1>5. probes' \in [Jobs -> SUBSET Stream] /\ \A k \in Jobs : probes'[k] \subseteq Known
  BY <1>2, <1>3, <1>4 DEF IngestTyped
<1>6. IngestTyped' /\ \A k \in Jobs : Stages(k)'
  BY <1>1, <1>3, <1>5 DEF IngestTyped, Stages, Ended
<1> QED
  BY <1>1, <1>5, <1>6, ControlOnly

LEMMA ProbeInv ==
    ASSUME IngestInv, NEW j \in Jobs, NEW s \in probes[j], Probe(j, s)
    PROVE  IngestInv'
<1>1. /\ UNCHANGED <<playlist, unread, entries, buf, seen, parser, consumer, phase, foreign>>
      /\ probes' = [probes EXCEPT ![j] = @ \ {s}]
      /\ catalogue' = [catalogue EXCEPT ![s] = "probed"] \/ catalogue' = catalogue
  BY DEF Probe, parseVars, consumeVars, jobVars
<1>2. IngestTyped /\ \A k \in Jobs : Stages(k) /\ probes[k] \subseteq Known
  BY DEF IngestInv
<1>3. s \in Stream /\ catalogue[s] # "absent"
  BY <1>2 DEF Known
<1>4. catalogue' \in [Stream -> Health] /\ Known' = Known
  BY <1>1, <1>2, <1>3 DEF IngestTyped, Known, Health
<1>5. probes' \in [Jobs -> SUBSET Stream] /\ \A k \in Jobs : probes'[k] \subseteq Known
  BY <1>1, <1>2 DEF IngestTyped
<1>6. IngestTyped' /\ \A k \in Jobs : Stages(k)'
  BY <1>1, <1>2, <1>4, <1>5 DEF IngestTyped, Stages
<1>7. \A k \in Jobs : InTurn(k)' /\ Deduplicated(k)' /\ AllItsOwn(k)'
  BY <1>1, <1>4, DataKept
<1> QED
  BY <1>4, <1>5, <1>6, <1>7 DEF IngestInv

LEMMA FetchInv == ASSUME IngestInv, NEW j \in Jobs, Fetch(j) PROVE IngestInv'
<1>1. PICK p \in Playlists :
         /\ playlist' = [playlist EXCEPT ![j] = p]
         /\ unread' = [unread EXCEPT ![j] = p]
         /\ foreign' = IF Known \cap ToSet(p) # {} THEN foreign \cup {j} ELSE foreign
  BY DEF Fetch
<1>2. /\ phase[j] = "fetch" /\ phase' = [phase EXCEPT ![j] = "run"]
      /\ UNCHANGED <<parser, entries, consumer, seen, buf, catalogue, probes>>
  BY DEF Fetch, consumeVars
<1>3. p \in Seq(Stream)
  BY IngestAssumption
<1>4. IngestTyped /\ \A k \in Jobs : Stages(k) /\ probes[k] \subseteq Known
  BY DEF IngestInv
<1>5. Known' = Known
  BY <1>2 DEF Known
<1>6. /\ parser[j] = "line" /\ consumer[j] = "select" /\ seen[j] = {}
      /\ entries[j] = <<>> /\ buf[j] = <<>>
  BY <1>2, <1>4 DEF Stages
<1>7. playlist'[j] = p /\ unread'[j] = p
  BY <1>1, <1>4 DEF IngestTyped
<1>8. IngestTyped'
  BY <1>1, <1>2, <1>3, <1>4 DEF IngestTyped
<1>9. ASSUME NEW k \in Jobs PROVE Stages(k)'
  BY <1>1, <1>2, <1>4, <1>6, <1>7 DEF IngestTyped, Stages, Ended
<1>10. Len(p) \in Nat /\ Len(entries[j]) = 0
  BY <1>3, <1>6
<1>11. Had(j)' = 0
  BY <1>2, <1>7, <1>10 DEF Had
<1>12. ToSet(buf[j]) = {}
  BY <1>6 DEF ToSet
<1>13. InTurn(j)'
  BY <1>2, <1>7, <1>10, <1>11 DEF InTurn
<1>14. Rows(j)' = {} /\ seen'[j] = {}
  BY <1>2, <1>6, <1>12 DEF Rows
<1>15. Deduplicated(j)'
  BY <1>11, <1>14 DEF Deduplicated
<1>16. j \notin foreign' => Known \cap ToSet(p) = {}
  BY <1>1
<1>17. AllItsOwn(j)'
  BY <1>5, <1>7, <1>14, <1>16 DEF AllItsOwn
<1>18. ASSUME NEW k \in Jobs, k # j PROVE InTurn(k)' /\ Deduplicated(k)' /\ AllItsOwn(k)'
  <2>1. /\ playlist'[k] = playlist[k] /\ unread'[k] = unread[k] /\ entries'[k] = entries[k]
        /\ buf'[k] = buf[k] /\ seen'[k] = seen[k]
    BY <1>1, <1>2, <1>4, <1>18 DEF IngestTyped
  <2>2. foreign \subseteq foreign'
    BY <1>1
  <2> QED
    BY <1>5, <2>1, <2>2, DataKept
<1>19. \A k \in Jobs : probes'[k] \subseteq Known'
  BY <1>2, <1>4, <1>5
<1> QED
  BY <1>8, <1>9, <1>13, <1>15, <1>17, <1>18, <1>19 DEF IngestInv

LEMMA SendInv == ASSUME IngestInv, NEW j \in Jobs, Send(j) PROVE IngestInv'
<1>1. IngestTyped /\ \A k \in Jobs : Stages(k) /\ probes[k] \subseteq Known
  BY DEF IngestInv
<1>2. /\ parser[j] = "send" /\ unread[j] # <<>>
      /\ UNCHANGED <<phase, playlist, consumer, seen, buf, catalogue, probes, foreign>>
  BY <1>1 DEF Send, Stages, jobVars, consumeVars, storeVars
<1>3. /\ entries' = [entries EXCEPT ![j] = Append(entries[j], Head(unread[j]))]
      /\ unread' = [unread EXCEPT ![j] = Tail(unread[j])]
      /\ parser' = [parser EXCEPT ![j] = "line"]
  BY DEF Send
<1>4. unread[j] \in Seq(Stream) /\ entries[j] \in Seq(Stream) /\ playlist[j] \in Seq(Stream)
  BY <1>1 DEF IngestTyped
<1>5. PICK e \in Stream : e = Head(unread[j])
  BY <1>2, <1>4
<1>6. PICK es : es = Append(entries[j], e)
  OBVIOUS
<1>7. PICK us : us = Tail(unread[j])
  OBVIOUS
<1>8. /\ es \in Seq(Stream)
      /\ Len(es) = Len(entries[j]) + 1 /\ es[Len(entries[j]) + 1] = e
      /\ \A i \in 1 .. Len(entries[j]) : es[i] = entries[j][i]
  BY <1>4, <1>5, <1>6, Sequences
<1>9. /\ us \in Seq(Stream)
      /\ Len(us) = Len(unread[j]) - 1 /\ e = unread[j][1]
      /\ \A i \in 1 .. Len(us) : us[i] = unread[j][i + 1]
  BY <1>2, <1>4, <1>5, <1>7, Sequences
<1>10. /\ entries' = [entries EXCEPT ![j] = es] /\ unread' = [unread EXCEPT ![j] = us]
  BY <1>3, <1>5, <1>6, <1>7
<1>11. entries'[j] = es /\ unread'[j] = us
  BY <1>1, <1>10 DEF IngestTyped
<1>12. IngestTyped'
  BY <1>1, <1>2, <1>3, <1>8, <1>9, <1>10 DEF IngestTyped
<1>13. ASSUME NEW k \in Jobs PROVE Stages(k)'
  BY <1>1, <1>2, <1>3, <1>10 DEF IngestTyped, Stages, Ended
<1>14. Known' = Known
  BY <1>2 DEF Known
<1>15. ASSUME NEW k \in Jobs, k # j PROVE InTurn(k)' /\ Deduplicated(k)' /\ AllItsOwn(k)'
  <2>1. unread'[k] = unread[k] /\ entries'[k] = entries[k]
    BY <1>1, <1>10, <1>15 DEF IngestTyped
  <2> QED
    BY <1>2, <1>14, <2>1, DataKept
<1>16. Len(entries[j]) \in Nat /\ Len(unread[j]) \in Nat /\ Len(playlist[j]) \in Nat
  BY <1>4
<1>17. Had(j) \in Int /\ Had(j)' = Had(j)
  <2>1. Had(j) = Len(playlist[j]) - Len(unread[j]) - Len(entries[j])
    BY DEF Had
  <2>2. Had(j)' = Len(playlist[j]) - Len(us) - Len(es)
    BY <1>2, <1>11 DEF Had
  <2> QED
    BY <1>8, <1>9, <1>16, <2>1, <2>2
<1>18. InTurn(j) /\ Deduplicated(j) /\ AllItsOwn(j)
  BY DEF IngestInv
<1>19. Len(unread[j]) >= 1
  BY <1>2, <1>4
<1>20. PICK n \in Nat : n = Len(entries[j])
  BY <1>16
<1>21. \A i \in 1 .. Len(es) : es[i] = playlist[j][Had(j) + i]
  <2>1. e = playlist[j][Had(j) + n + 1]
    BY <1>9, <1>16, <1>18, <1>19, <1>20 DEF InTurn
  <2>2. \A i \in 1 .. n : es[i] = playlist[j][Had(j) + i]
    BY <1>8, <1>18, <1>20 DEF InTurn
  <2>3. Had(j) + n + 1 = Had(j) + (n + 1)
    BY <1>17
  <2>4. \A i \in 1 .. n + 1 : i \in 1 .. n \/ i = n + 1
    OBVIOUS
  <2> QED
    BY <1>8, <1>20, <2>1, <2>2, <2>3, <2>4
<1>22. \A i \in 1 .. Len(us) : us[i] = playlist[j][Had(j) + Len(es) + i]
  <2> SUFFICES ASSUME NEW i \in 1 .. Len(us)
               PROVE  us[i] = playlist[j][Had(j) + Len(es) + i]
    OBVIOUS
  <2>1. i + 1 \in 1 .. Len(unread[j]) /\ us[i] = unread[j][i + 1]
    BY <1>9, <1>16
  <2>2. unread[j][i + 1] = playlist[j][Had(j) + n + (i + 1)]
    BY <1>18, <1>20, <2>1 DEF InTurn
  <2>3. Had(j) + n + (i + 1) = Had(j) + Len(es) + i
    <3>1. PICK h \in Int : h = Had(j)
      BY <1>17
    <3>2. Len(es) = n + 1 /\ i \in Int
      BY <1>8, <1>20
    <3> QED
      BY <3>1, <3>2
  <2> QED
    BY <2>1, <2>2, <2>3
<1>23. InTurn(j)'
  BY <1>2, <1>11, <1>17, <1>18, <1>21, <1>22 DEF InTurn
<1>24. Rows(j)' = Rows(j)
  BY <1>2 DEF Rows
<1>25. Deduplicated(j)' /\ AllItsOwn(j)'
  BY <1>2, <1>14, <1>17, <1>18, <1>24 DEF Deduplicated, AllItsOwn, IsFirst
<1> QED
  BY <1>1, <1>2, <1>12, <1>13, <1>14, <1>15, <1>23, <1>25 DEF IngestInv

LEMMA ReceiveInv == ASSUME IngestInv, NEW j \in Jobs, Receive(j) PROVE IngestInv'
<1>1. IngestTyped /\ \A k \in Jobs : Stages(k) /\ probes[k] \subseteq Known
  BY DEF IngestInv
<1>2. /\ phase[j] = "run" /\ consumer[j] = "select" /\ entries[j] # <<>>
      /\ UNCHANGED <<phase, playlist, parser, unread, catalogue, probes, foreign>>
  BY DEF Receive, Selecting, jobVars, parseVars, storeVars
<1>3. unread[j] \in Seq(Stream) /\ entries[j] \in Seq(Stream) /\ playlist[j] \in Seq(Stream)
      /\ buf[j] \in Seq(Stream) /\ seen[j] \in SUBSET URLs
  BY <1>1 DEF IngestTyped
<1>4. PICK e \in Stream : e = Head(entries[j])
  BY <1>2, <1>3
<1>5. PICK es : es = Tail(entries[j])
  OBVIOUS
<1>6. /\ es \in Seq(Stream)
      /\ Len(es) = Len(entries[j]) - 1 /\ e = entries[j][1]
      /\ \A i \in 1 .. Len(es) : es[i] = entries[j][i + 1]
  BY <1>2, <1>3, <1>4, <1>5, Sequences
<1>7. PICK rows : rows = IF e.url \notin seen[j] THEN Append(buf[j], e) ELSE buf[j]
  OBVIOUS
<1>8. /\ buf' = [buf EXCEPT ![j] = rows]
      /\ seen' = [seen EXCEPT ![j] = seen[j] \cup {e.url}]
      /\ entries' = [entries EXCEPT ![j] = es]
      /\ \E c \in {"flush", "select"} : consumer' = [consumer EXCEPT ![j] = c]
  BY <1>4, <1>5, <1>7 DEF Receive, Accepted
<1>9. e.url \in URLs
  BY DEF Stream
<1>10. buf'[j] = rows /\ seen'[j] = seen[j] \cup {e.url} /\ entries'[j] = es
  BY <1>1, <1>8 DEF IngestTyped
<1>11. IngestTyped'
  <2>1. seen' \in [Jobs -> SUBSET URLs]
    BY <1>1, <1>3, <1>8, <1>9 DEF IngestTyped
  <2>2. rows \in Seq(Stream)
    BY <1>3, <1>7, Sequences
  <2> QED
    BY <1>1, <1>2, <1>6, <1>8, <2>1, <2>2 DEF IngestTyped
<1>12. ASSUME NEW k \in Jobs PROVE Stages(k)'
  BY <1>1, <1>2, <1>8 DEF IngestTyped, Stages, Ended
<1>13. Known' = Known
  BY <1>2 DEF Known
<1>14. ASSUME NEW k \in Jobs, k # j PROVE InTurn(k)' /\ Deduplicated(k)' /\ AllItsOwn(k)'
  <2>1. seen'[k] = seen[k] /\ buf'[k] = buf[k] /\ entries'[k] = entries[k]
    BY <1>1, <1>8, <1>14 DEF IngestTyped
  <2> QED
    BY <1>2, <1>13, <2>1, DataKept
<1>15. PICK n : n = Len(entries[j])
  OBVIOUS
<1>16. n \in Nat /\ Len(unread[j]) \in Nat /\ Len(playlist[j]) \in Nat /\ n >= 1
  BY <1>2, <1>3, <1>15, Sequences
<1>17. PICK h : h = Len(playlist[j]) - Len(unread[j]) - n
  OBVIOUS
<1>18. h \in Int /\ h = Had(j) /\ Had(j)' = h + 1 /\ Len(es) = n - 1
  <2>1. h \in Int /\ h = Had(j) /\ Len(es) = n - 1
    BY <1>6, <1>15, <1>16, <1>17 DEF Had
  <2>2. Had(j)' = Len(playlist[j]) - Len(unread[j]) - Len(es)
    BY <1>2, <1>10 DEF Had
  <2>3. Len(playlist[j]) - Len(unread[j]) - (n - 1) = (Len(playlist[j]) - Len(unread[j]) - n) + 1
    BY <1>16
  <2> QED
    BY <1>16, <1>17, <2>1, <2>2, <2>3
<1>19. /\ h >= 0 /\ h + n + Len(unread[j]) = Len(playlist[j])
       /\ \A i \in 1 .. n : entries[j][i] = playlist[j][h + i]
       /\ \A i \in 1 .. Len(unread[j]) : unread[j][i] = playlist[j][h + n + i]
  <2>1. InTurn(j)
    BY DEF IngestInv
  <2>2. h + n + Len(unread[j]) = Len(playlist[j])
    BY <1>16, <1>17
  <2> QED
    BY <1>15, <1>18, <2>1, <2>2 DEF InTurn
<1>20. e = playlist[j][h + 1] /\ h + 1 \in 1 .. Len(playlist[j])
  <2>1. 1 \in 1 .. n
    BY <1>16
  <2>2. h + 1 \in 1 .. Len(playlist[j])
    <3>1. h >= 0 /\ h + n + Len(unread[j]) = Len(playlist[j])
      BY <1>19
    <3>2. h \in Int
      BY <1>18
    <3>3. ASSUME NEW k \in Nat, NEW u \in Nat, h + n + u = k PROVE h + 1 \in 1 .. k
      BY <1>16, <3>1, <3>2, <3>3
    <3> QED
      BY <1>16, <3>1, <3>3
  <2> QED
    BY <1>6, <1>19, <2>1, <2>2
<1>21. \A i \in 1 .. Len(es) : es[i] = playlist[j][h + 1 + i]
  <2> SUFFICES ASSUME NEW i \in 1 .. Len(es) PROVE es[i] = playlist[j][h + 1 + i]
    OBVIOUS
  <2>1. i + 1 \in 1 .. n /\ es[i] = entries[j][i + 1]
    BY <1>6, <1>16, <1>18
  <2>2. h + (i + 1) = h + 1 + i
    BY <1>18
  <2> QED
    BY <1>19, <2>1, <2>2
<1>22. \A i \in 1 .. Len(unread[j]) : unread[j][i] = playlist[j][h + 1 + Len(es) + i]
  <2>1. h + 1 + Len(es) = h + n
    BY <1>16, <1>18
  <2> QED
    BY <1>19, <2>1
<1>23. InTurn(j)'
  <2>1. h + 1 >= 0
    BY <1>18, <1>19
  <2> QED
    BY <1>2, <1>10, <1>18, <1>21, <1>22, <2>1 DEF InTurn
<1>24. Deduplicated(j) /\ AllItsOwn(j)
  BY DEF IngestInv
<1>25. /\ \A i \in 1 .. h : playlist[j][i].url \in seen[j]
       /\ \A u \in seen[j] : \E i \in 1 .. h : playlist[j][i].url = u
       /\ \A s \in Rows(j) : s.url \in seen[j] /\ s \in ToSet(playlist[j])
       /\ j \notin foreign =>
             \A i \in 1 .. h : IsFirst(playlist[j], i) => playlist[j][i] \in Known \cup Rows(j)
  BY <1>18, <1>24 DEF Deduplicated
<1>26. \A i \in 1 .. h + 1 : i \in 1 .. h \/ i = h + 1
  BY <1>18, <1>19
<1>27. 1 .. h \subseteq 1 .. h + 1 /\ h + 1 \in 1 .. h + 1 /\ 1 .. (h + 1) - 1 = 1 .. h
  BY <1>18, <1>19
<1>28. e \in ToSet(playlist[j])
  BY <1>3, <1>20, Sequences
<1>29. Rows(j)' = IF e.url \notin seen[j] THEN Rows(j) \cup {e} ELSE Rows(j)
  <2>1. ToSet(Append(buf[j], e)) = ToSet(buf[j]) \cup {e}
    BY <1>3, Sequences
  <2> QED
    BY <1>7, <1>10, <2>1 DEF Rows
<1>30. IsFirst(playlist[j], h + 1) => e.url \notin seen[j]
  BY <1>20, <1>25, <1>27 DEF IsFirst
<1>31. Deduplicated(j)'
  <2>1. \A i \in 1 .. h + 1 : playlist[j][i].url \in seen[j] \cup {e.url}
    BY <1>20, <1>25, <1>26
  <2>2. \A u \in seen[j] \cup {e.url} : \E i \in 1 .. h + 1 : playlist[j][i].url = u
    BY <1>20, <1>25, <1>27
  <2>3. \A s \in Rows(j)' : s.url \in seen[j] \cup {e.url} /\ s \in ToSet(playlist[j])
    BY <1>25, <1>28, <1>29
  <2>4. ASSUME j \notin foreign, NEW i \in 1 .. h + 1, IsFirst(playlist[j], i)
        PROVE  playlist[j][i] \in Known \cup Rows(j)'
    <3>1. CASE i \in 1 .. h
      BY <1>25, <1>29, <2>4, <3>1
    <3>2. CASE i = h + 1
      BY <1>20, <1>29, <1>30, <2>4, <3>2
    <3> QED
      BY <1>26, <3>1, <3>2
  <2> QED
    BY <1>2, <1>10, <1>13, <1>18, <2>1, <2>2, <2>3, <2>4 DEF Deduplicated, IsFirst
<1>32. AllItsOwn(j)'
  <2>1. ASSUME j \notin foreign, e.url \notin seen[j] PROVE e \notin Known
    BY <1>24, <1>28, <2>1 DEF AllItsOwn
  <2> QED
    BY <1>2, <1>10, <1>13, <1>24, <1>29, <2>1 DEF AllItsOwn
<1>33. \A k \in Jobs : probes'[k] \subseteq Known'
  BY <1>1, <1>2, <1>13
<1> QED
  BY <1>11, <1>12, <1>14, <1>23, <1>31, <1>32, <1>33 DEF IngestInv

LEMMA CommitInv == ASSUME IngestInv, NEW j \in Jobs, Commit(j) PROVE IngestInv'
<1>1. IngestTyped /\ \A k \in Jobs : Stages(k) /\ probes[k] \subseteq Known
  BY DEF IngestInv
<1>2. /\ phase[j] = "run" /\ consumer[j] \in {"flush", "last"}
      /\ UNCHANGED <<phase, playlist, parser, unread, entries, seen, probes>>
      /\ buf' = [buf EXCEPT ![j] = <<>>]
      /\ \E c \in {"done", "select"} :
            /\ c = "done" => consumer[j] = "last"
            /\ consumer' = [consumer EXCEPT ![j] = c]
  BY <1>1 DEF Commit, Flushing, Flushed, jobVars, parseVars, IngestTyped
<1>3. /\ Rows(j) \cap Known = {}
      /\ catalogue' = [s \in Stream |-> IF s \in Rows(j) THEN "unknown" ELSE catalogue[s]]
      /\ foreign' = foreign \cup {k \in Jobs \ {j} : ToSet(playlist[k]) \cap Rows(j) # {}}
  BY DEF Commit, Copyable, Added
<1>4. buf[j] \in Seq(Stream) /\ <<>> \in Seq(Stream) /\ ToSet(<<>>) = {}
  BY <1>1, Sequences DEF IngestTyped
<1>5. Rows(j) \subseteq Stream
  BY <1>4, Sequences DEF Rows
<1>6. buf'[j] = <<>> /\ Rows(j)' = {}
  BY <1>1, <1>2, <1>4 DEF IngestTyped, Rows
<1>7. Known' = Known \cup Rows(j)
  BY <1>1, <1>3, <1>5 DEF Known, IngestTyped, Health
<1>8. IngestTyped'
  <2>1. catalogue' \in [Stream -> Health]
    BY <1>1, <1>3 DEF IngestTyped, Health
  <2>2. buf' \in [Jobs -> Seq(Stream)]
    BY <1>1, <1>2, <1>4 DEF IngestTyped
  <2>3. consumer' \in [Jobs -> {"select", "flush", "last"} \cup Ended]
    BY <1>1, <1>2 DEF IngestTyped, Ended
  <2> QED
    BY <1>1, <1>2, <2>1, <2>2, <2>3 DEF IngestTyped
<1>9. ASSUME NEW k \in Jobs PROVE Stages(k)'
  BY <1>1, <1>2 DEF IngestTyped, Stages, Ended
<1>10. ASSUME NEW k \in Jobs, k # j PROVE InTurn(k)' /\ Deduplicated(k)' /\ AllItsOwn(k)'
  <2>1. buf'[k] = buf[k]
    BY <1>1, <1>2, <1>10 DEF IngestTyped
  <2>2. ASSUME k \notin foreign', NEW s \in Known', s \in ToSet(playlist[k])
        PROVE  s \in Known
    BY <1>3, <1>7, <1>10, <2>2
  <2>3. foreign \subseteq foreign' /\ Known \subseteq Known'
    BY <1>3, <1>7
  <2> QED
    BY <1>2, <2>1, <2>2, <2>3, DataKept
<1>11. InTurn(j) /\ Deduplicated(j) /\ AllItsOwn(j)
  BY DEF IngestInv
<1>12. Had(j)' = Had(j) /\ (j \in foreign' <=> j \in foreign)
  BY <1>2, <1>3 DEF Had
<1>13. InTurn(j)'
  BY <1>2, <1>11, <1>12 DEF InTurn
<1>14. Deduplicated(j)'
  BY <1>2, <1>6, <1>7, <1>11, <1>12 DEF Deduplicated, IsFirst
<1>15. AllItsOwn(j)'
  BY <1>2, <1>6, <1>7, <1>11, <1>12 DEF Deduplicated, AllItsOwn
<1>16. \A k \in Jobs : probes'[k] \subseteq Known'
  BY <1>1, <1>2, <1>7
<1> QED
  BY <1>8, <1>9, <1>10, <1>13, <1>14, <1>15, <1>16 DEF IngestInv

\* A refresh that has met no stream but its own loses a batch to no known one: if
\* its COPY fails, it fails for another reason, and the history says so.
LEMMA CopyFailsInv == ASSUME IngestInv, NEW j \in Jobs, CopyFails(j) PROVE IngestInv'
<1>1. IngestTyped /\ \A k \in Jobs : Stages(k) /\ probes[k] \subseteq Known
  BY DEF IngestInv
<1>2. /\ phase[j] = "run" /\ consumer[j] \in {"flush", "last"}
      /\ UNCHANGED <<phase, playlist, parser, unread, entries, seen, catalogue, probes>>
      /\ buf' = [buf EXCEPT ![j] = <<>>]
      /\ \E c \in {"done", "select"} :
            /\ c = "done" => consumer[j] = "last"
            /\ consumer' = [consumer EXCEPT ![j] = c]
  BY <1>1 DEF CopyFails, Flushing, Flushed, jobVars, parseVars, IngestTyped
<1>3. InTurn(j) /\ Deduplicated(j) /\ AllItsOwn(j)
  BY DEF IngestInv
<1>4. foreign \subseteq foreign' /\ j \in foreign'
  BY <1>3 DEF CopyFails, Copyable, AllItsOwn
<1>5. <<>> \in Seq(Stream) /\ ToSet(<<>>) = {}
  BY DEF ToSet
<1>6. buf'[j] = <<>> /\ Rows(j)' = {}
  BY <1>1, <1>2, <1>5 DEF IngestTyped, Rows
<1>7. Known' = Known
  BY <1>2 DEF Known
<1>8. IngestTyped'
  <2>1. buf' \in [Jobs -> Seq(Stream)]
    BY <1>1, <1>2, <1>5 DEF IngestTyped
  <2>2. consumer' \in [Jobs -> {"select", "flush", "last"} \cup Ended]
    BY <1>1, <1>2 DEF IngestTyped, Ended
  <2> QED
    BY <1>1, <1>2, <2>1, <2>2 DEF IngestTyped
<1>9. ASSUME NEW k \in Jobs PROVE Stages(k)'
  BY <1>1, <1>2 DEF IngestTyped, Stages, Ended
<1>10. ASSUME NEW k \in Jobs, k # j PROVE InTurn(k)' /\ Deduplicated(k)' /\ AllItsOwn(k)'
  <2>1. buf'[k] = buf[k]
    BY <1>1, <1>2, <1>10 DEF IngestTyped
  <2> QED
    BY <1>2, <1>4, <1>7, <2>1, DataKept
<1>11. Had(j)' = Had(j)
  BY <1>2 DEF Had
<1>12. InTurn(j)'
  BY <1>2, <1>3, <1>11 DEF InTurn
<1>13. Deduplicated(j)' /\ AllItsOwn(j)'
  BY <1>2, <1>3, <1>4, <1>6, <1>11 DEF Deduplicated, AllItsOwn
<1>14. \A k \in Jobs : probes'[k] \subseteq Known'
  BY <1>1, <1>2, <1>7
<1> QED
  BY <1>8, <1>9, <1>10, <1>12, <1>13, <1>14 DEF IngestInv

LEMMA InitIngest == IngestInit => IngestInv
<1> SUFFICES ASSUME IngestInit PROVE IngestInv
  OBVIOUS
<1>1. IngestTyped
  BY DEF IngestInit, IngestTyped, Ended, Health
<1>2. Known = {}
  BY DEF IngestInit, Known
<1>3. <<>> \in Seq(Stream) /\ Len(<<>>) = 0 /\ ToSet(<<>>) = {}
  BY DEF ToSet
<1>4. ASSUME NEW j \in Jobs
      PROVE  Stages(j) /\ InTurn(j) /\ Deduplicated(j) /\ AllItsOwn(j) /\ probes[j] \subseteq Known
  <2>1. Stages(j)
    BY DEF IngestInit, Stages, Ended
  <2>2. /\ playlist[j] = <<>> /\ unread[j] = <<>> /\ entries[j] = <<>> /\ buf[j] = <<>>
        /\ seen[j] = {} /\ probes[j] = {}
    BY DEF IngestInit
  <2>3. Had(j) = 0 /\ Rows(j) = {}
    <3>1. PICK n \in Nat : n = 0 /\ n = Len(<<>>)
      BY <1>3
    <3>2. Had(j) = n - n - n
      BY <2>2, <3>1 DEF Had
    <3>3. Rows(j) = {}
      BY <1>3, <2>2 DEF Rows
    <3>4. n - n - n = 0
      BY <3>1
    <3> QED
      BY <3>2, <3>3, <3>4
  <2> QED
    BY <1>2, <1>3, <2>1, <2>2, <2>3 DEF InTurn, Deduplicated, AllItsOwn
<1> QED
  BY <1>1, <1>4 DEF IngestInv

LEMMA StepIngest == IngestInv /\ [IngestNext]_ingestVars => IngestInv'
<1> SUFFICES ASSUME IngestInv, [IngestNext]_ingestVars PROVE IngestInv'
  OBVIOUS
<1>1. CASE UNCHANGED ingestVars
  <2>1. /\ UNCHANGED <<playlist, unread, entries, buf, seen, catalogue, foreign>>
        /\ UNCHANGED <<phase, parser, consumer, probes>>
    BY <1>1 DEF ingestVars, jobVars, parseVars, consumeVars, storeVars
  <2>2. IngestTyped' /\ \A k \in Jobs : Stages(k)' /\ probes'[k] \subseteq Known
    BY <2>1 DEF IngestInv, IngestTyped, Stages
  <2> QED
    BY <2>1, <2>2, ControlOnly
<1>2. ASSUME IngestNext PROVE IngestInv'
  <2>1. PICK j \in Jobs :
           \/ Refresh(j) \/ Deadline(j) \/ FetchFails(j) \/ ParseEntry(j) \/ ParserEnds(j)
           \/ ReceiveEnd(j) \/ ConsumerStops(j) \/ FlushFails(j) \/ Wait(j) \/ MarkFails(j)
           \/ Fetch(j) \/ Send(j) \/ Receive(j) \/ Commit(j) \/ CopyFails(j) \/ Mark(j)
           \/ \E s \in probes[j] : Probe(j, s)
    BY <1>2 DEF IngestNext
  <2> QED
    BY <2>1, ControlSteps, FetchInv, SendInv, ReceiveInv, CommitInv, CopyFailsInv, MarkInv, ProbeInv
<1> QED
  BY <1>1, <1>2

LEMMA Ingests == IngestSpec => []IngestInv
  BY InitIngest, StepIngest, PTL DEF IngestSpec

\* A refresh that ends well, met no stream but its own and lost no batch to a
\* fault has added every stream of its playlist, for playlists, channels and
\* batches of any length: what the parser has read, the channel holds and the
\* consumer has had are the playlist, in turn, and of each URL the consumer has had
\* the first entry is in its batch or in the catalogue.
THEOREM NothingIsLost == IngestSpec => []NewStreamsArrive
<1>1. ASSUME IngestInv, NEW j \in Jobs, phase[j] = "done", j \notin foreign
      PROVE  Wanted(playlist[j]) \subseteq Known
  <2>1. /\ IngestTyped /\ Stages(j) /\ InTurn(j) /\ Deduplicated(j)
    BY <1>1 DEF IngestInv
  <2>2. unread[j] = <<>> /\ entries[j] = <<>> /\ buf[j] = <<>>
    BY <1>1, <2>1 DEF Stages
  <2>3. playlist[j] \in Seq(Stream) /\ Len(<<>>) = 0 /\ ToSet(<<>>) = {}
    BY <2>1 DEF IngestTyped, ToSet
  <2>4. Len(playlist[j]) \in Nat /\ DOMAIN playlist[j] = 1 .. Len(playlist[j])
    BY <2>3
  <2>5. Had(j) = Len(playlist[j]) /\ Rows(j) = {}
    BY <2>2, <2>3, <2>4 DEF Had, Rows
  <2> QED
    BY <1>1, <2>1, <2>4, <2>5 DEF Wanted, Deduplicated, IsFirst
<1>2. IngestInv => NewStreamsArrive
  BY <1>1 DEF NewStreamsArrive
<1> QED
  BY <1>2, Ingests, PTL

\* What a probe has found out about a stream is never taken back by a later
\* refresh, and no stream leaves the catalogue: a batch with a known stream in it
\* is rolled back as a whole.
THEOREM VerdictsAreKept == IngestSpec => VerdictsStand
<1> DEFINE Stand == \A s \in Stream : /\ catalogue[s] = "probed" => catalogue'[s] = "probed"
                                      /\ catalogue[s] = "unknown" => catalogue'[s] # "absent"
<1>1. ASSUME IngestInv, [IngestNext]_ingestVars PROVE Stand
  <2>1. CASE UNCHANGED catalogue
    BY <2>1
  <2>2. ASSUME NEW j \in Jobs, Commit(j) PROVE Stand
    <3>1. Rows(j) \cap Known = {} /\ catalogue' = Added(Rows(j))
      BY <2>2 DEF Commit, Copyable
    <3> QED
      BY <3>1 DEF Added, Known
  <2>3. ASSUME NEW j \in Jobs, NEW s \in probes[j], Probe(j, s) PROVE Stand
    <3>1. catalogue \in [Stream -> Health]
      BY <1>1 DEF IngestInv, IngestTyped
    <3> QED
      BY <2>3, <3>1 DEF Probe
  <2> QED
    BY <1>1, <2>1, <2>2, <2>3
    DEF IngestNext, ingestVars, jobVars, parseVars, consumeVars, storeVars, Refresh, Deadline,
        Fetch, FetchFails, ParseEntry, Send, ParserEnds, Receive, ReceiveEnd, ConsumerStops,
        CopyFails, FlushFails, Wait, Mark, MarkFails
<1>2. IngestInv /\ [IngestNext]_ingestVars => [Stand]_ingestVars
  BY <1>1
<1> QED
  BY <1>2, Ingests, PTL DEF IngestSpec, VerdictsStand

----------------------------------------------------------------------------
(***************************************************************************)
(* Playback.  Whatever a ticket fetches comes from its origin or from a    *)
(* URL remembered for it, so these have to be on its channel; so has the   *)
(* stream an evaluation is about to swap in.  The stream of a ticket never *)
(* changes while it has one, so what an evaluation read is not stale, and  *)
(* a ticket that lost its hash gets no stream again.                       *)
(***************************************************************************)
PlaybackTyped ==
    /\ token \in [Tickets -> {"none", "valid", "expired"}]
    /\ hash \in [Tickets -> Hash]
    /\ urls \in [Tickets -> SUBSET URL]
    /\ request = [t \in Tickets |-> request[t]]
    /\ \A t \in Tickets : request[t] # NoRequest => request[t].upstream \in URL
    /\ task \in Task

\* A ticket that has not been issued has nothing.
Unissued(t) ==
    token[t] = "none" => hash[t] = NoHash /\ urls[t] = {} /\ request[t] = NoRequest

OnChannel(t) ==
    hash[t].stream # NoStream =>
        /\ hash[t].origin \in Streams
        /\ ChannelOf[hash[t].origin] = ChannelOf[hash[t].stream]
        /\ \A u \in urls[t] : ChannelOf[u.of] = ChannelOf[hash[t].stream]
        /\ request[t] # NoRequest =>
              ChannelOf[request[t].upstream.of] = ChannelOf[hash[t].stream]

\* What an evaluation has read about its ticket, and what it will swap in.
ReadIsCurrent ==
    task.step \in {"resolve", "swap", "record"} =>
        /\ token[task.ticket] # "none"
        /\ hash[task.ticket].stream \in {task.stream, NoStream}

SwapsWithin ==
    task.step = "swap" => /\ task.stream \in Streams
                          /\ ChannelOf[task.alt] = ChannelOf[task.stream]

PlaybackInv ==
    /\ PlaybackTyped /\ ReadIsCurrent /\ SwapsWithin
    /\ \A t \in Tickets : Unissued(t) /\ OnChannel(t)

\* The stream a ticket was issued for is its origin, and it has fetched nothing.
LEMMA IssueInv ==
    ASSUME PlaybackInv, NEW t \in Tickets, NEW s \in Streams, Issue(t, s), UNCHANGED behindProxy
    PROVE  PlaybackInv'
<1> DEFINE new == [stream |-> s, origin |-> s, expires |-> TRUE]
<1>1. /\ token[t] = "none" /\ token' = [token EXCEPT ![t] = "valid"]
      /\ hash' = [hash EXCEPT ![t] = new]
      /\ UNCHANGED <<urls, request, task>>
  BY DEF Issue, playerVars, behindProxy, supervisorVars
<1>2. new \in Hash /\ new.stream = s /\ new.origin = s
  BY DEF Hash
<1> HIDE DEF new
<1>3. PlaybackTyped /\ ReadIsCurrent /\ SwapsWithin /\ Unissued(t)
  BY DEF PlaybackInv
<1>4. PlaybackTyped'
  BY <1>1, <1>2, <1>3 DEF PlaybackTyped
<1>5. hash'[t] = new /\ token'[t] = "valid"
  BY <1>1, <1>3 DEF PlaybackTyped
<1>6. \A q \in Tickets \ {t} : hash'[q] = hash[q] /\ token'[q] = token[q]
  BY <1>1, <1>3 DEF PlaybackTyped
<1>7. urls'[t] = {} /\ request'[t] = NoRequest
  BY <1>1, <1>3 DEF Unissued
<1>8. Unissued(t)' /\ OnChannel(t)'
  BY <1>2, <1>5, <1>7 DEF Unissued, OnChannel
<1>9. \A q \in Tickets \ {t} : Unissued(q)' /\ OnChannel(q)'
  BY <1>1, <1>6 DEF PlaybackInv, Unissued, OnChannel
<1>10. ReadIsCurrent' /\ SwapsWithin'
  <2>1. task.step \in {"resolve", "swap", "record"} => task.ticket \in Tickets \ {t}
    BY <1>1, <1>3 DEF PlaybackTyped, ReadIsCurrent, Task, Idle
  <2> QED
    BY <1>1, <1>3, <1>6, <2>1 DEF ReadIsCurrent, SwapsWithin
<1> QED
  BY <1>4, <1>8, <1>9, <1>10 DEF PlaybackInv

\* A token expires, or a hash: the ticket has a stream no more.
LEMMA ExpiryInv ==
    ASSUME PlaybackInv, NEW t \in Tickets, TokenExpires(t) \/ HashExpires(t),
           UNCHANGED behindProxy
    PROVE  PlaybackInv'
<1>1. /\ token' = token \/ (token[t] # "none" /\ token' = [token EXCEPT ![t] = "expired"])
      /\ hash' = hash \/ hash' = [hash EXCEPT ![t] = NoHash]
      /\ UNCHANGED <<urls, request, task>>
  BY DEF TokenExpires, HashExpires, playerVars, behindProxy, supervisorVars
<1>2. PlaybackTyped /\ ReadIsCurrent /\ SwapsWithin
  BY DEF PlaybackInv
<1>3. NoHash \in Hash /\ NoHash.stream = NoStream
  BY DEF Hash, NoHash
<1>4. PlaybackTyped'
  BY <1>1, <1>2, <1>3 DEF PlaybackTyped
<1>5. \A q \in Tickets : hash'[q] = hash[q] \/ hash'[q] = NoHash
  BY <1>1, <1>2 DEF PlaybackTyped
<1>6. \A q \in Tickets : token'[q] = "none" <=> token[q] = "none"
  BY <1>1, <1>2 DEF PlaybackTyped
<1>7. \A q \in Tickets : Unissued(q)' /\ OnChannel(q)'
  BY <1>1, <1>3, <1>5, <1>6 DEF PlaybackInv, Unissued, OnChannel
<1>8. ReadIsCurrent' /\ SwapsWithin'
  <2>1. task.step \in {"resolve", "swap", "record"} => task.ticket \in Tickets
    BY <1>2 DEF PlaybackTyped, Task, Idle
  <2> QED
    BY <1>1, <1>2, <1>3, <1>5, <1>6, <2>1 DEF ReadIsCurrent, SwapsWithin
<1> QED
  BY <1>4, <1>7, <1>8 DEF PlaybackInv

\* A request is of the origin or of a URL remembered for the ticket.
LEMMA RequestInv ==
    ASSUME PlaybackInv, NEW t \in Tickets, NEW path, Request(t, path), UNCHANGED behindProxy
    PROVE  PlaybackInv'
<1>1. /\ token[t] = "valid" /\ hash[t].origin # NoStream
      /\ UNCHANGED <<token, hash, urls, task>>
  BY DEF Request, Validated, behindProxy, supervisorVars
<1>2. PICK u \in Upstream(t, path) :
         request' = [request EXCEPT ![t] =
                       [path |-> path, origin |-> hash[t].origin, upstream |-> u]]
  BY DEF Request
<1>3. PlaybackTyped /\ ReadIsCurrent /\ SwapsWithin /\ OnChannel(t)
  BY DEF PlaybackInv
<1>4. hash[t].origin \in Streams /\ urls[t] \subseteq URL
  BY <1>1, <1>3 DEF PlaybackTyped, Hash
<1>5. u = UrlOf(hash[t].origin, "master") \/ u \in urls[t]
  BY <1>2 DEF Upstream
<1>6. u \in URL
  BY <1>4, <1>5 DEF UrlOf, URL
<1>7. hash[t].stream # NoStream => ChannelOf[u.of] = ChannelOf[hash[t].stream]
  BY <1>3, <1>5 DEF OnChannel, UrlOf
<1>8. request'[t].upstream = u /\ \A q \in Tickets \ {t} : request'[q] = request[q]
  BY <1>2, <1>3 DEF PlaybackTyped
<1>9. PlaybackTyped'
  <2>1. request' = [q \in Tickets |-> request'[q]]
    BY <1>2, <1>3 DEF PlaybackTyped
  <2> QED
    BY <1>1, <1>3, <1>6, <1>8, <2>1 DEF PlaybackTyped
<1>10. Unissued(t)' /\ OnChannel(t)'
  BY <1>1, <1>3, <1>7, <1>8 DEF Unissued, OnChannel
<1>11. \A q \in Tickets \ {t} : Unissued(q)' /\ OnChannel(q)'
  BY <1>1, <1>8 DEF PlaybackInv, Unissued, OnChannel
<1>12. ReadIsCurrent' /\ SwapsWithin'
  BY <1>1, <1>3 DEF ReadIsCurrent, SwapsWithin
<1> QED
  BY <1>9, <1>10, <1>11, <1>12 DEF PlaybackInv

\* A manifest only names URLs of the stream it is of.
LEMMA AnswerInv ==
    ASSUME PlaybackInv, NEW t \in Tickets, ServeManifest(t) \/ EndRequest(t),
           UNCHANGED behindProxy
    PROVE  PlaybackInv'
<1>1. /\ request[t] # NoRequest /\ request' = [request EXCEPT ![t] = NoRequest]
      /\ UNCHANGED <<token, hash, task>>
  BY DEF ServeManifest, EndRequest, behindProxy, supervisorVars
<1>2. PlaybackTyped /\ ReadIsCurrent /\ SwapsWithin /\ Unissued(t) /\ OnChannel(t)
  BY DEF PlaybackInv
<1>3. PICK accepted : /\ accepted \subseteq Listed(request[t].upstream)
                      /\ urls' = [urls EXCEPT ![t] = urls[t] \cup accepted]
  <2>1. CASE ServeManifest(t)
    BY <2>1 DEF ServeManifest
  <2>2. CASE EndRequest(t)
    <3>1. urls' = [urls EXCEPT ![t] = urls[t] \cup {}]
      BY <1>2, <2>2 DEF EndRequest, PlaybackTyped
    <3> QED
      BY <3>1
  <2> QED
    BY <2>1, <2>2
<1>4. request[t].upstream \in URL
  BY <1>1, <1>2 DEF PlaybackTyped
<1>5. \A u \in accepted : u \in URL /\ u.of = request[t].upstream.of
  BY <1>3, <1>4 DEF Listed, UrlOf, URL
<1>6. /\ urls'[t] = urls[t] \cup accepted /\ request'[t] = NoRequest
      /\ \A q \in Tickets \ {t} : urls'[q] = urls[q] /\ request'[q] = request[q]
  BY <1>1, <1>2, <1>3 DEF PlaybackTyped
<1>7. PlaybackTyped'
  <2>1. request' = [q \in Tickets |-> request'[q]]
    BY <1>1, <1>2 DEF PlaybackTyped
  <2>2. urls' \in [Tickets -> SUBSET URL]
    BY <1>2, <1>3, <1>5 DEF PlaybackTyped
  <2> QED
    BY <1>1, <1>2, <1>6, <2>1, <2>2 DEF PlaybackTyped
<1>8. Unissued(t)' /\ OnChannel(t)'
  BY <1>1, <1>2, <1>5, <1>6 DEF Unissued, OnChannel
<1>9. \A q \in Tickets \ {t} : Unissued(q)' /\ OnChannel(q)'
  BY <1>1, <1>6 DEF PlaybackInv, Unissued, OnChannel
<1>10. ReadIsCurrent' /\ SwapsWithin'
  BY <1>1, <1>2 DEF ReadIsCurrent, SwapsWithin
<1> QED
  BY <1>7, <1>8, <1>9, <1>10 DEF PlaybackInv

\* A step of the supervisor that touches no ticket.
LEMMA SupervisorInv ==
    ASSUME PlaybackInv, UNCHANGED <<token, hash, urls, request>>,
           task' \in Task, ReadIsCurrent', SwapsWithin'
    PROVE  PlaybackInv'
<1>1. PlaybackTyped' /\ \A t \in Tickets : Unissued(t)' /\ OnChannel(t)'
  BY DEF PlaybackInv, PlaybackTyped, Unissued, OnChannel
<1> QED
  BY <1>1 DEF PlaybackInv

\* Idle is a task that has read nothing.
LEMMA IdleFacts == Idle \in Task /\ Idle.step = "idle"
  BY DEF Idle, Task

LEMMA ReadTicketInv == ASSUME PlaybackInv, ReadTicket PROVE PlaybackInv'
<1>1. UNCHANGED <<token, hash, urls, request>> /\ task.step = "read"
  BY DEF ReadTicket, proxyVars
<1>2. PlaybackTyped /\ \A t \in Tickets : Unissued(t)
  BY DEF PlaybackInv
<1>3. PICK t \in Tickets : task = [step |-> "read", ticket |-> t]
  BY <1>1, <1>2 DEF PlaybackTyped, Task, Idle
<1>4. CASE hash[t] = NoHash
  BY <1>1, <1>3, <1>4, SupervisorInv, IdleFacts DEF ReadTicket, ReadIsCurrent, SwapsWithin
<1>5. CASE hash[t] # NoHash
  <2>1. hash[t].stream \in Streams \cup {NoStream} /\ token[t] # "none"
    BY <1>2, <1>5 DEF PlaybackTyped, Hash, Unissued
  <2>2. task' = [step |-> "resolve", ticket |-> t, stream |-> hash[t].stream]
    BY <1>3, <1>5 DEF ReadTicket
  <2>3. task' \in Task
    BY <2>1, <2>2 DEF Task
  <2>4. ReadIsCurrent' /\ SwapsWithin'
    BY <1>1, <2>1, <2>2 DEF ReadIsCurrent, SwapsWithin
  <2> QED
    BY <1>1, <2>3, <2>4, SupervisorInv
<1> QED
  BY <1>4, <1>5

LEMMA ResolveInv == ASSUME PlaybackInv, Resolve PROVE PlaybackInv'
<1>1. UNCHANGED <<token, hash, urls, request>> /\ task.step = "resolve"
  BY DEF Resolve, proxyVars
<1>2. PlaybackTyped /\ ReadIsCurrent
  BY DEF PlaybackInv
<1>3. PICK t \in Tickets, s \in Streams \cup {NoStream} :
         task = [step |-> "resolve", ticket |-> t, stream |-> s]
  BY <1>1, <1>2 DEF PlaybackTyped, Task, Idle
<1>4. CASE task' = Idle
  BY <1>1, <1>4, SupervisorInv, IdleFacts DEF ReadIsCurrent, SwapsWithin
<1>5. ASSUME NEW x \in Alternatives(s),
             task' = [step |-> "swap", ticket |-> t, stream |-> s, alt |-> x]
      PROVE  PlaybackInv'
  <2>1. s \in Streams /\ x \in Streams /\ ChannelOf[x] = ChannelOf[s]
    BY DEF Alternatives
  <2>2. task' \in Task
    BY <1>5, <2>1 DEF Task
  <2>3. ReadIsCurrent' /\ SwapsWithin'
    BY <1>1, <1>2, <1>3, <1>5, <2>1 DEF ReadIsCurrent, SwapsWithin
  <2> QED
    BY <1>1, <2>2, <2>3, SupervisorInv
<1> QED
  BY <1>3, <1>4, <1>5 DEF Resolve

\* The other steps, of which none reads more of a ticket than it has.
LEMMA QuietSteps ==
    ASSUME PlaybackInv, UNCHANGED <<token, hash, urls, request>>,
           \/ task' = task \/ task' = Idle
           \/ \E t \in Tickets : task' = [step |-> "read", ticket |-> t]
    PROVE  PlaybackInv'
<1>1. PlaybackTyped /\ ReadIsCurrent /\ SwapsWithin
  BY DEF PlaybackInv
<1>2. CASE task' = task
  BY <1>1, <1>2, SupervisorInv DEF PlaybackTyped, ReadIsCurrent, SwapsWithin
<1>3. CASE task' = Idle
  BY <1>3, SupervisorInv, IdleFacts DEF ReadIsCurrent, SwapsWithin
<1>4. ASSUME NEW t \in Tickets, task' = [step |-> "read", ticket |-> t] PROVE PlaybackInv'
  <2>1. task' \in Task /\ task'.step = "read"
    BY <1>4 DEF Task
  <2> QED
    BY <2>1, SupervisorInv DEF ReadIsCurrent, SwapsWithin
<1> QED
  BY <1>2, <1>3, <1>4

\* The new origin is on the channel of the stream the evaluation read, which is
\* still the ticket's, if it still has one.
LEMMA SwapInv ==
    ASSUME PlaybackInv, task.step = "swap", SwapOrigin(task.ticket, task.alt),
           UNCHANGED <<token, urls, request>>,
           \/ task' = Idle
           \/ task' = [step |-> "record", ticket |-> task.ticket, stream |-> task.stream]
    PROVE  PlaybackInv'
<1>1. PlaybackTyped /\ ReadIsCurrent /\ SwapsWithin
  BY DEF PlaybackInv
<1>2. PICK t \in Tickets, s \in Streams, x \in Streams :
         task = [step |-> "swap", ticket |-> t, stream |-> s, alt |-> x]
  BY <1>1 DEF PlaybackTyped, Task, Idle
<1>3. /\ token[t] # "none" /\ hash[t].stream \in {s, NoStream}
      /\ ChannelOf[x] = ChannelOf[s]
  BY <1>1, <1>2 DEF ReadIsCurrent, SwapsWithin
<1>4. hash' = [hash EXCEPT ![t].origin = x] /\ hash[t] \in Hash
  BY <1>1, <1>2 DEF SwapOrigin, PlaybackTyped
<1>5. PICK h \in Hash : h = [hash[t] EXCEPT !.origin = x]
  BY <1>4 DEF Hash
<1>6. h.stream = hash[t].stream /\ h.origin = x
  BY <1>4, <1>5 DEF Hash
<1>7. hash' = [hash EXCEPT ![t] = h]
  BY <1>4, <1>5
<1>8. hash'[t] = h /\ \A q \in Tickets \ {t} : hash'[q] = hash[q]
  BY <1>1, <1>7 DEF PlaybackTyped
<1>9. task' \in Task
  BY <1>2, IdleFacts DEF Task
<1>10. PlaybackTyped'
  BY <1>1, <1>7, <1>9 DEF PlaybackTyped
<1>11. Unissued(t)' /\ OnChannel(t)'
  BY <1>3, <1>6, <1>8 DEF PlaybackInv, Unissued, OnChannel
<1>12. \A q \in Tickets \ {t} : Unissued(q)' /\ OnChannel(q)'
  BY <1>8 DEF PlaybackInv, Unissued, OnChannel
<1>13. ReadIsCurrent' /\ SwapsWithin'
  BY <1>2, <1>3, <1>6, <1>8, IdleFacts DEF ReadIsCurrent, SwapsWithin
<1> QED
  BY <1>10, <1>11, <1>12, <1>13 DEF PlaybackInv

LEMMA InitPlayback == Init => PlaybackInv
  BY ProxyAssumption, IdleFacts
     DEF ProxyAssumption, Init, ProxyInit, PlaybackInv, PlaybackTyped, ReadIsCurrent, SwapsWithin,
         Unissued, OnChannel, Hash, NoHash

LEMMA StepPlayback == PlaybackInv /\ [Next]_vars => PlaybackInv'
<1> SUFFICES ASSUME PlaybackInv, [Next]_vars PROVE PlaybackInv'
  OBVIOUS
<1>1. CASE UNCHANGED vars
  BY <1>1, QuietSteps DEF vars, proxyVars, behindProxy, supervisorVars
<1>2. ASSUME NEW t \in Tickets, NEW r, NEW b, Observe(t, r, b) PROVE PlaybackInv'
  BY <1>2, QuietSteps DEF Observe, proxyVars, supervisorVars
<1>3. ASSUME NEW t \in Tickets, Lose(t) PROVE PlaybackInv'
  BY <1>3, QuietSteps DEF Lose, proxyVars, supervisorVars
<1>4. ASSUME NEW t \in Tickets, Take(t) PROVE PlaybackInv'
  BY <1>4, QuietSteps DEF Take, proxyVars
<1>5. CASE Swap
  BY <1>5, SwapInv DEF Swap, playerVars
<1>6. CASE RecordFailure
  BY <1>6, QuietSteps DEF RecordFailure, proxyVars
<1>7. ASSUME NEW s \in Streams, QuietPeriod(s) PROVE PlaybackInv'
  BY <1>7, QuietSteps DEF QuietPeriod, proxyVars
<1>8. CASE CallFails
  BY <1>8, QuietSteps, SwapInv DEF CallFails, playerVars
<1>9. CASE Restart
  BY <1>9, QuietSteps DEF Restart, proxyVars
<1> QED
  BY <1>1, <1>2, <1>3, <1>4, <1>5, <1>6, <1>7, <1>8, <1>9, IssueInv, ExpiryInv, RequestInv,
     AnswerInv, ReadTicketInv, ResolveInv DEF Next

\* A ticket only ever fetches from streams of the channel it was issued for,
\* whatever an evaluation read when, however often it swaps and whatever expires,
\* fails or restarts between its calls.
THEOREM StaysOnChannel == Spec => []FetchesStayOnChannel
<1>1. PlaybackInv => FetchesStayOnChannel
  BY DEF PlaybackInv, OnChannel, FetchesStayOnChannel
<1> QED
  BY <1>1, InitPlayback, StepPlayback, PTL DEF Spec
=============================================================================
