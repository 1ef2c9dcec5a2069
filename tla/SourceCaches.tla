----------------------------- MODULE SourceCaches ------------------------------
(***************************************************************************)
(* The playlist and the programme guide of one browser tab: which source   *)
(* is configured, what is cached of it, and what a page that opens paints, *)
(* fetches and shows.                                                      *)
(*                                                                         *)
(* Fetches outlive the page that started them and store what they bring    *)
(* under the tenant who is signed in by then; meanwhile the viewer edits   *)
(* the sources, another device's edit is synced down, or somebody else     *)
(* signs in.  A list stands for the URL it was parsed from.                *)
(*                                                                         *)
(* apps/web/src/lib/{channelCache,epgCache,digestClient}.ts,               *)
(* app/tv/account/sources/page.tsx, app/api/playlist/digest/route.ts and   *)
(* the pages that load.                                                    *)
(***************************************************************************)
EXTENDS Naturals, Sequences, SequencesExt

CONSTANTS
    Tenants,        \* tenantId(): the accounts of this browser
    Urls,           \* playlists
    Feeds,          \* XMLTV feeds
    None,
    MaxSources,     \* bound: rows of the sources page
    MaxCacheActs,   \* bound: edits, syncs and sign-ins
    MaxCacheFaults  \* bound: fetches that fail

ASSUME CachesAssumption ==
    /\ None \notin Tenants \cup Urls \cup Feeds
    /\ MaxSources \in Nat \ {0} /\ MaxCacheActs \in Nat /\ MaxCacheFaults \in Nat

VARIABLES
    tenant,    \* who is signed in
    live,      \* sources.live of each tenant, in order
    epg,       \* the feed getUserEpgUrl picks for each tenant
    mem,       \* MEM of channelCache: the URL of each tenant's entry
    sess,      \* its mirror in sessionStorage
    flights,   \* fetchAndParse calls under way
    guides,    \* MEM of epgCache
    inflight,  \* inflight of epgCache
    screen,    \* what is on screen
    cacheActs, cacheFaults

sources == <<tenant, live, epg>>
channels == <<mem, sess, flights>>
guide == <<guides, inflight>>
cacheVars == <<sources, channels, guide, screen, cacheActs, cacheFaults>>

Flight == [of : Tenants \cup {None}, url : Urls]
NoFlight == [of |-> None, url |-> None]
View == {"hero", "search", "home", "live", "guide", "catchup"}
Closed == [view |-> "none", step |-> "closed", list |-> None,
           asked |-> NoFlight, fresh |-> FALSE]

CacheTypeOK ==
    /\ tenant \in Tenants
    /\ live \in [Tenants -> SeqOf(Urls, MaxSources)]
    /\ epg \in [Tenants -> Feeds \cup {None}]
    /\ mem \in [Tenants -> Urls \cup {None}] /\ sess \in [Tenants -> Urls \cup {None}]
    /\ flights \subseteq Flight
    /\ guides \in [Tenants -> Feeds \cup {None}] /\ inflight \in Feeds \cup {None}
    /\ screen.view \in View \cup {"none"} /\ screen.fresh \in BOOLEAN
    /\ screen.step \in {"closed", "digest", "channels", "epg", "shown", "stuck"}
    /\ screen.list \in Urls \cup {None}
    /\ cacheActs \in 0 .. MaxCacheActs /\ cacheFaults \in 0 .. MaxCacheFaults

(* getUserSourceUrl, getUserEpgUrl.                                        *)
Source == IF live[tenant] = << >> THEN None ELSE Head(live[tenant])
Feed == epg[tenant]

(* Which of the accounts is signed in first makes no difference.           *)
CacheInit ==
    /\ tenant = CHOOSE t \in Tenants : TRUE
    /\ live \in [Tenants -> {<< >>} \cup {<<u>> : u \in Urls}]
    /\ \E feed \in Feeds \cup {None} : epg = [t \in Tenants |-> feed]
    /\ mem = [t \in Tenants |-> None] /\ sess = [t \in Tenants |-> None]
    /\ flights = {}
    /\ guides = [t \in Tenants |-> None] /\ inflight = None
    /\ screen = Closed
    /\ cacheActs = 0 /\ cacheFaults = 0

----------------------------------------------------------------------------
(* The caches.                                                             *)

(* The entry of the signed-in tenant, from either cache.                   *)
Entry == IF mem[tenant] # None THEN mem[tenant] ELSE sess[tenant]
(* A look at sessionStorage brings its entry into memory.                  *)
MemAfterLook == [mem EXCEPT ![tenant] = Entry]

(* The entry is not compared with the source.                              *)
FreshUnchecked(entry) == entry

(* getCachedChannels: any entry will do when no source is configured.      *)
Fresh(entry) == IF Source = None \/ entry = Source THEN entry ELSE None
GetCachedChannels == Fresh(Entry)

(* Whatever the tenant has under way is shared; an entry for another URL   *)
(* answers with nothing.                                                   *)
AnyFlight ==
    IF \E f \in flights : f.of = tenant
    THEN CHOOSE f \in flights : f.of = tenant ELSE [of |-> tenant, url |-> Source]
CacheAnswersNothing == Source = None \/ Entry # None

(* loadChannelsResult: a cached list, the flight of the same tenant and    *)
(* URL, or a new one.                                                      *)
OwnFlight == [of |-> tenant, url |-> Source]
CacheAnswers == Source = None \/ GetCachedChannels = Source
Answer == IF Source = None THEN None ELSE GetCachedChannels

InvalidateCache ==
    /\ mem' = [mem EXCEPT ![tenant] = None]
    /\ sess' = [sess EXCEPT ![tenant] = None]

----------------------------------------------------------------------------
(* A page opens and loads.                                                 *)

(* The page waits for channels no more.                                    *)
Ends(p, step) == [p EXCEPT !.view = "none", !.step = step, !.asked = NoFlight]

(* These keep the list they have when a load brings none.                  *)
KeepsList(view) == view \in {"live", "guide", "catchup"}
WithChannels(p, url) ==
    IF url = None /\ KeepsList(p.view) THEN p ELSE [p EXCEPT !.list = url]

WantsGuide(p, url) ==
    \/ p.view \in {"guide", "catchup"}
    \/ p.view = "home" /\ p.list # None
    \/ p.view = "live" /\ url # None

(* After the channels, loadEpgIndex: cached, shared or fetched.            *)
GoesOn(p, url) ==
    LET q == WithChannels(p, url)
    IN  IF ~WantsGuide(q, url) \/ Feed = None \/ guides[tenant] = Feed
        THEN screen' = Ends(q, "shown") /\ UNCHANGED inflight
        ELSE /\ screen' = Ends(q, "epg")
             /\ inflight' = IF inflight = None THEN Feed ELSE inflight

Loads(p) ==
    IF CacheAnswers THEN GoesOn(p, Answer) /\ UNCHANGED flights
    ELSE /\ screen' = [p EXCEPT !.step = "channels", !.asked = OwnFlight]
         /\ flights' = flights \cup {OwnFlight}
         /\ UNCHANGED inflight

(* What is cached is painted first.  The hero of the landing page loads    *)
(* only if nothing is; the guide asks for the digest first.                *)
Opens(view) ==
    LET p == [Closed EXCEPT !.view = view, !.list = GetCachedChannels, !.fresh = TRUE]
    IN  CASE view = "hero" /\ p.list # None ->
               screen' = Ends(p, "shown") /\ UNCHANGED <<flights, inflight>>
          [] view = "guide" /\ Source # None ->
               /\ screen' = [p EXCEPT !.step = "digest", !.asked = OwnFlight]
               /\ UNCHANGED <<flights, inflight>>
          [] OTHER -> Loads(p)

OpensPage(view) ==
    /\ Opens(view)
    /\ mem' = MemAfterLook
    /\ UNCHANGED <<sources, sess, guides, cacheActs, cacheFaults>>

(* The digest of the playlist and the feed, from the tab's memory or the   *)
(* server: the playlist it was asked about, with the programmes if the     *)
(* feed could be fetched.                                                  *)
DigestArrives ==
    /\ screen.step = "digest"
    /\ screen' = Ends([screen EXCEPT !.list = screen.asked.url], "shown")
    /\ UNCHANGED <<sources, channels, guide, cacheActs, cacheFaults>>

(* The fallback: playlist and feed apart.                                  *)
DigestFails ==
    /\ cacheFaults < MaxCacheFaults /\ cacheFaults' = cacheFaults + 1
    /\ screen.step = "digest"
    /\ Loads(screen)
    /\ mem' = MemAfterLook
    /\ UNCHANGED <<sources, sess, guides, cacheActs>>

(* fetchAndParse stores its entry under whoever is signed in by now.       *)
FlightLands(f) ==
    /\ f \in flights /\ flights' = flights \ {f}
    /\ mem' = [mem EXCEPT ![tenant] = f.url]
    /\ sess' = [sess EXCEPT ![tenant] = f.url]
    /\ IF screen.step = "channels" /\ screen.asked = f
       THEN GoesOn(screen, f.url) ELSE UNCHANGED <<screen, inflight>>
    /\ UNCHANGED <<sources, guides, cacheActs, cacheFaults>>

FlightFails(f) ==
    /\ cacheFaults < MaxCacheFaults /\ cacheFaults' = cacheFaults + 1
    /\ f \in flights /\ flights' = flights \ {f}
    /\ IF screen.step = "channels" /\ screen.asked = f
       THEN GoesOn(screen, None) ELSE UNCHANGED <<screen, inflight>>
    /\ UNCHANGED <<sources, mem, sess, guides, cacheActs>>

(* The body ends early: reading it throws, past everybody who waits.       *)
FlightThrows(f) ==
    /\ cacheFaults < MaxCacheFaults /\ cacheFaults' = cacheFaults + 1
    /\ f \in flights /\ flights' = flights \ {f}
    /\ screen' = IF screen.step = "channels" /\ screen.asked = f
                 THEN Ends(screen, "stuck") ELSE screen
    /\ UNCHANGED <<sources, mem, sess, guide, cacheActs>>

GuideLands ==
    /\ inflight # None /\ inflight' = None
    /\ guides' = [guides EXCEPT ![tenant] = inflight]
    /\ screen' = IF screen.step = "epg" THEN Ends(screen, "shown") ELSE screen
    /\ UNCHANGED <<sources, channels, cacheActs, cacheFaults>>

GuideFails ==
    /\ cacheFaults < MaxCacheFaults /\ cacheFaults' = cacheFaults + 1
    /\ inflight # None /\ inflight' = None
    /\ screen' = IF screen.step = "epg" THEN Ends(screen, "shown") ELSE screen
    /\ UNCHANGED <<sources, channels, guides, cacheActs>>

----------------------------------------------------------------------------
(* The sources page.                                                       *)

Acts == cacheActs < MaxCacheActs /\ cacheActs' = cacheActs + 1
(* What is on screen may be of other sources than are configured now.      *)
PageIsOld == screen' = [screen EXCEPT !.fresh = FALSE]
SetLive(list) == live' = [live EXCEPT ![tenant] = list] /\ UNCHANGED <<tenant, epg>>

(* fetchAndCache: nobody joins it.                                         *)
FetchAndCache(url) ==
    /\ InvalidateCache
    /\ flights' = flights \cup {[of |-> None, url |-> url]}

AddLive(url) ==
    /\ Acts
    /\ Len(live[tenant]) < MaxSources
    /\ SetLive(Append(live[tenant], url))
    /\ FetchAndCache(url)
    /\ PageIsOld
    /\ UNCHANGED <<guide, cacheFaults>>

(* refreshLive, and testUrl with a URL that is not in the list.            *)
FetchesOnly(url) ==
    /\ Acts
    /\ FetchAndCache(url)
    /\ UNCHANGED <<sources, guide, screen, cacheFaults>>

RemoveLive(i) ==
    /\ Acts
    /\ i \in DOMAIN live[tenant]
    /\ SetLive(RemoveAt(live[tenant], i))
    /\ InvalidateCache
    /\ PageIsOld
    /\ UNCHANGED <<flights, guide, cacheFaults>>

EditLive(i, url) ==
    /\ Acts
    /\ i \in DOMAIN live[tenant]
    /\ SetLive(ReplaceAt(live[tenant], i, url))
    /\ FetchAndCache(url)
    /\ PageIsOld
    /\ UNCHANGED <<guide, cacheFaults>>

(* addEpg, editEpg and the removal of a feed, which invalidates channels.  *)
ChangesEpg(feed) ==
    /\ Acts
    /\ feed # Feed
    /\ epg' = [epg EXCEPT ![tenant] = feed] /\ UNCHANGED <<tenant, live>>
    /\ IF feed = None THEN InvalidateCache ELSE UNCHANGED <<mem, sess>>
    /\ PageIsOld
    /\ UNCHANGED <<flights, guide, cacheFaults>>

----------------------------------------------------------------------------
(* Around the tab.                                                         *)

(* syncDown brings the sources of another device.                          *)
SourcesSynced(list, feed) ==
    /\ Acts
    /\ live' = [live EXCEPT ![tenant] = list] /\ epg' = [epg EXCEPT ![tenant] = feed]
    /\ UNCHANGED tenant
    /\ PageIsOld
    /\ UNCHANGED <<channels, guide, cacheFaults>>

(* In another tab, or here without the page being loaded anew.             *)
SignsIn(t) ==
    /\ Acts
    /\ t # tenant /\ tenant' = t
    /\ PageIsOld
    /\ UNCHANGED <<live, epg, channels, guide, cacheFaults>>

(* The modules' state is gone; sessionStorage stays.                       *)
Reloads ==
    /\ Acts
    /\ mem' = [t \in Tenants |-> None] /\ flights' = {}
    /\ guides' = [t \in Tenants |-> None] /\ inflight' = None
    /\ screen' = Closed
    /\ UNCHANGED <<sources, sess, cacheFaults>>

(* MAX_AGE_MS; the entry in memory has no age.                             *)
Expires ==
    /\ \E t \in Tenants :
         \/ sess[t] # None /\ sess' = [sess EXCEPT ![t] = None] /\ UNCHANGED guides
         \/ guides[t] # None /\ guides' = [guides EXCEPT ![t] = None] /\ UNCHANGED sess
    /\ UNCHANGED <<sources, mem, flights, inflight, screen, cacheActs, cacheFaults>>

Lists == SeqOf(Urls, MaxSources)
CacheNext ==
    \/ \E view \in View : OpensPage(view)
    \/ DigestArrives \/ DigestFails
    \/ \E f \in flights : FlightLands(f) \/ FlightFails(f) \/ FlightThrows(f)
    \/ GuideLands \/ GuideFails
    \/ \E url \in Urls : AddLive(url) \/ FetchesOnly(url)
    \/ \E i \in 1 .. MaxSources : RemoveLive(i) \/ \E url \in Urls : EditLive(i, url)
    \/ \E feed \in Feeds \cup {None} :
         ChangesEpg(feed) \/ \E list \in Lists : SourcesSynced(list, feed)
    \/ \E t \in Tenants : SignsIn(t)
    \/ Reloads
    \/ Expires

CacheSpec == CacheInit /\ [][CacheNext]_cacheVars

(* The viewer goes on opening pages, and requests are answered.            *)
CacheFairSpec ==
    /\ CacheSpec
    /\ WF_cacheVars(\E view \in View \ {"hero"} : screen.step # "channels" /\ OpensPage(view))
    /\ WF_cacheVars(DigestArrives)
    /\ WF_cacheVars(\E f \in flights : FlightLands(f))

----------------------------------------------------------------------------
(* "A source change this tab didn't perform ... left the previous playlist *)
(* on screen" (channelCache.ts:80): a page opened after the last change of *)
(* sources or account never paints or receives a list of another source    *)
(* than the configured one, whatever is cached or still being fetched.     *)
PageShowsItsSource ==
    screen.fresh /\ Source # None => screen.list \in {Source, None}

(* An entry of another playlist does not stand in the way of the           *)
(* configured one: whoever goes on opening pages gets to see it.           *)
SourceIsShown == <>[](Source = None) \/ []<>(screen.list = Source)

(* "drop any cached channels that might have come from it so the next page *)
(* load doesn't serve stale data" (sources/page.tsx:157): with no source   *)
(* configured a page shows nothing.                                        *)
RemovedIsGone == screen.fresh /\ Source = None => screen.list = None

(* A page that waits for programmes waits for those of the feed it asked   *)
(* about (channelCache.ts:87).                                             *)
GuideIsOfTheFeed == screen.fresh /\ screen.step = "epg" => inflight = Feed
=============================================================================
