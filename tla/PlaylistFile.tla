----------------------------- MODULE PlaylistFile ------------------------------
(***************************************************************************)
(* Reading a playlist: a fold over its lines that keeps the entry announced *)
(* last until its URL comes, the defaults of the header, and the ids given  *)
(* out so far.                                                             *)
(*                                                                         *)
(* A line is what is recognised in it; one attribute stands for each group *)
(* that is treated alike: catchup for the four of the archive, agent for   *)
(* the request headers.  Zero is an attribute that is missing.             *)
(*                                                                         *)
(* apps/web/src/lib/m3u.ts.                                                *)
(***************************************************************************)
EXTENDS Integers, FiniteSets, Sequences, SequencesExt, TLC

CONSTANT TvgIds    \* what providers put in tvg-id, none like an id made here

NoId == ""

(* An EXTINF line always gives an entry, however its quotes are placed.    *)
Entry == [tvgId : TvgIds \cup {NoId}, chno : Nat, catchup : Nat, agent : Nat]
NoEntry == [tvgId |-> NoId, chno |-> -1, catchup |-> 0, agent |-> 0]

(* ch-<n> for a missing tvg-id, and #<n> after one that was given before.  *)
Id == [of : TvgIds \cup {NoId}, row : Nat, again : Nat]
Bare(e, row) == [of |-> e.tvgId, row |-> IF e.tvgId = NoId THEN row ELSE 0, again |-> 0]

IdOf(e, row, used) ==
    IF Bare(e, row) \in used THEN [Bare(e, row) EXCEPT !.again = row] ELSE Bare(e, row)

Header(catchup) == [tag |-> "EXTM3U", catchup |-> catchup]
ExtInf(entry) == [tag |-> "EXTINF", entry |-> entry]
Option(agent) == [tag |-> "EXTVLCOPT", agent |-> agent]
UrlLine == [tag |-> "url"]
Other == [tag |-> "other"]

Start ==
    [pending |-> NoEntry, positional |-> 0, default |-> 0, used |-> {}, explicit |-> FALSE,
     extinf |-> 0, orphans |-> 0, out |-> << >>]

Waiting(s) == s.pending # NoEntry
Declared(own, default) == IF own # 0 THEN own ELSE default

Emits(s) ==
    LET row == s.positional + 1
        e == s.pending
        id == IdOf(e, row, s.used)
    IN  [s EXCEPT !.pending = NoEntry, !.positional = row,
                  !.explicit = @ \/ e.chno # 0,
                  !.used = @ \cup {id},
                  !.out = Append(@, [id |-> id, row |-> row, number |-> Declared(e.chno, row),
                                     catchup |-> Declared(e.catchup, s.default),
                                     agent |-> e.agent])]

ReadLine(s, line) ==
    CASE line.tag = "EXTM3U" -> [s EXCEPT !.default = Declared(line.catchup, @)]
      [] line.tag = "EXTINF" -> [s EXCEPT !.extinf = @ + 1, !.pending = line.entry]
      [] line.tag = "EXTVLCOPT" /\ Waiting(s) -> [s EXCEPT !.pending.agent = line.agent]
      [] line.tag = "url" /\ Waiting(s) -> Emits(s)
      [] line.tag = "url" /\ ~Waiting(s) -> [s EXCEPT !.orphans = @ + 1]
      [] OTHER -> s

Read(lines) == FoldLeft(ReadLine, Start, lines)

(* A stable sort, if any entry has a number of its own.                    *)
Before(a, b) == a.number < b.number \/ (a.number = b.number /\ a.row < b.row)
SortedChannels(s) == IF s.explicit THEN SortSeq(s.out, Before) ELSE s.out

ParseM3U(lines) == SortedChannels(Read(lines))
Dropped(lines) == LET s == Read(lines) IN IF s.extinf > Len(s.out) THEN s.extinf - Len(s.out) ELSE 0

----------------------------------------------------------------------------
(* What a playlist gives, of its lines alone.                              *)

(* The URLs that have an EXTINF line between them and the URL before.      *)
Announces(lines, i, j) ==
    /\ lines[i].tag = "EXTINF" /\ i < j
    /\ \A k \in i + 1 .. j - 1 : lines[k].tag \notin {"url", "EXTINF"}
ChannelLines(lines) ==
    {j \in 1 .. Len(lines) : lines[j].tag = "url" /\ \E i \in 1 .. j : Announces(lines, i, j)}

(* "Deleting a row is never the right answer" (m3u.ts:117): a channel for  *)
(* every URL with an entry of its own, and no other.                       *)
NoRowIsLost(lines) == Len(ParseM3U(lines)) = Cardinality(ChannelLines(lines))

(* "tvg-id is an EPG pointer, not an identity" (m3u.ts:194): channels are  *)
(* told apart by their ids, though the variants of one share a tvg-id.     *)
IdsDiffer(lines) ==
    LET chs == ParseM3U(lines) IN \A i, j \in DOMAIN chs : chs[i].id = chs[j].id => i = j

(* The rail's numbers are in order of the list they label, and entries     *)
(* that share a number keep their order (m3u.ts:275).                      *)
NumbersAscend(lines) ==
    LET chs == ParseM3U(lines)
    IN  \A i, j \in DOMAIN chs : i < j => Before(chs[i], chs[j])

(* "Should always be 0", for "an EXTINF whose URL line never arrived is a  *)
(* truncated playlist, not a parser drop" (m3u.ts:165, 282).               *)
NothingDropped(lines) == Dropped(lines) = 0
=============================================================================
