------------------------------ MODULE MCLivePage ------------------------------
(* What plays in a tab: the live page, or the previews of the home page,   *)
(* which share no state and of which a tab shows one at a time.  The live  *)
(* page has two channels, the first of which has an archive with two URLs  *)
(* to try; the home page two tiles, one of which needs hls.js.  And the    *)
(* URLs a channel of any kind has: a template alone is one, every other    *)
(* list is longer than two.                                                *)
EXTENDS LivePage, PreviewTiles
MCPlaylist == <<1, 2>>
MCCandidates == <<2, 0>>
MCStarts == {0, 1}

VARIABLE shown   \* "live" or "home": the page the tab is on

OnLive == shown = "live" /\ UNCHANGED <<shown, tilesVars>>
OnHome == shown = "home" /\ UNCHANGED <<shown, vars>>
tabVars == <<shown, vars, tilesVars>>

TabInit ==
    /\ Init /\ TilesInit
    /\ \/ shown = "live" /\ (~autoHide => failed = {})
       \/ /\ shown = "home"
          /\ ~native /\ failed = {} /\ ~autoHide /\ link = NoLink /\ page.load = "loading"

(* The tiles come to rest when the viewer has made the moves of the bound. *)
Rests == OnHome /\ moves = MaxMoves /\ UNCHANGED tilesVars

TabNext == (OnLive /\ Next) \/ (OnHome /\ TilesNext) \/ Rests

(* The fairness of the live page while the tab shows it.                   *)
TabSpec ==
    /\ TabInit /\ [][TabNext]_tabVars
    /\ WF_tabVars(OnLive /\ Effects)
    /\ WF_tabVars(OnLive /\ StallFires /\ Settled /\ UNCHANGED <<page, rest>>)

Catchup == INSTANCE CatchupUrls

(* A name before a number's extension is the number.                       *)
Entries ==
    {ch \in Catchup!Channel :
       /\ ch.live.numeric => ch.live.name = "other"
       /\ ch.live.under # "" => ch.live.segments > 2}

ASSUME ArchiveUrls ==
    \A ch \in Entries :
       /\ Catchup!NoUrlTwice(ch) /\ Catchup!TemplateInItsPlace(ch) /\ Catchup!FlussonicLiveComesLast(ch)
       /\ Catchup!FlussonicSilentLiveIsNoticed(ch)
       /\ Len(Catchup!BuildCatchupUrl(ch)) # 2
=============================================================================
