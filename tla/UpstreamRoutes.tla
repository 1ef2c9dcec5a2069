---------------------------- MODULE UpstreamRoutes -----------------------------
(***************************************************************************)
(* The routes that fetch from a provider on behalf of a page: playlists,   *)
(* guides, digests and streams.  They fetch through the same guard, which  *)
(* follows redirects by itself, and the stream route rewrites a manifest   *)
(* so that what it names is asked for through the route again.             *)
(*                                                                         *)
(* A request is computed from what is asked and what the provider would    *)
(* answer.  The provider is a function of the URL.  Literals of IPv6 and   *)
(* the names and ports that are refused outright are a set of URLs.        *)
(*                                                                         *)
(* apps/web/src/lib/{ssrfGuard,streamProxy}.ts,                            *)
(* app/api/{stream,m3u,epg,playlist/digest}/route.ts                       *)
(***************************************************************************)
EXTENDS Integers, Sequences, SequencesExt, FiniteSetsExt

CONSTANTS
    Urls,
    None

----------------------------------------------------------------------------
(* lib/ssrfGuard.ts *)

(* The lowest k octets of a number.                                        *)
Octets(v, k) == [i \in 1 .. k |-> (v \div 256 ^ (k - i)) % 256]

(* An address of one to four numbers, whatever base they were written in:  *)
(* the last stands for all octets that are missing.                        *)
CanonicaliseIPv4(parts) ==
    LET n == Len(parts)
        last == parts[n]
    IN  IF n \in 1 .. 4 /\ (\A i \in 1 .. n - 1 : parts[i] <= 255) /\ last \div 256 ^ (4 - n) <= 255
        THEN SubSeq(parts, 1, n - 1) \o Octets(last, 5 - n)
        ELSE << >>

IsPrivateIPv4(o) ==
    \/ o[1] \in {0, 10, 127}
    \/ o[1] = 169 /\ o[2] = 254
    \/ o[1] = 172 /\ o[2] \in 16 .. 31
    \/ o[1] = 192 /\ o[2] \in {0, 168}
    \/ o[1] = 100 /\ o[2] \in 64 .. 127
    \/ o[1] = 198 /\ o[2] \in {18, 19}
    \/ o[1] >= 224

(* What the guard asks of a URL before it is dialled: that it may be       *)
(* fetched as it is written, and that its name does not resolve to an      *)
(* address that may not.                                                   *)
Dialled(site, u) == site.valid[u] /\ ~site.hidden[u]

MaxRedirects == 4

(* One hop: u is where the fetch is, and path what it has dialled.         *)
Hop(site, f) ==
    LET r == site.answer[f.at] IN
    IF f.outcome # "going" THEN f
    ELSE IF ~Dialled(site, f.at) THEN [f EXCEPT !.outcome = "refused"]
    ELSE IF r.status = 302 /\ r.location # None
         THEN [f EXCEPT !.at = r.location, !.path = Append(@, f.at)]
         ELSE [f EXCEPT !.outcome = "answered", !.path = Append(@, f.at)]

SafeFetch(site, u) ==
    LET f == FoldLeft(LAMBDA g, hop : Hop(site, g),
                      [at |-> u, path |-> << >>, outcome |-> "going"],
                      [hop \in 1 .. MaxRedirects + 1 |-> hop])
    IN  IF f.outcome = "going" THEN [f EXCEPT !.outcome = "refused"] ELSE f

----------------------------------------------------------------------------
(* app/api/stream/route.ts *)

(* How a page asks for a URL: directly, or through the route, which then   *)
(* rewrites in this mode and sends these headers.                          *)
Direct(u) == [via |-> "cdn", url |-> u, mode |-> None, extra |-> None]
Proxied(u, mode, extra) == [via |-> "route", url |-> u, mode |-> mode, extra |-> extra]

RewriteOne(site, u, mode, extra) ==
    IF mode = "direct" /\ ~site.m3u8[u] THEN Direct(u) ELSE Proxied(u, mode, extra)

(* A line of a manifest is blank, a tag, a tag with a URI or a URI; a      *)
(* reference is absolute, or relative to where the manifest is.            *)
Resolve(site, ref, base) == IF ref.relative THEN site.beside[base] ELSE ref.url

RewriteLine(site, line, base, mode, extra) ==
    IF line.kind \in {"blank", "tag"} THEN line
    ELSE [kind |-> line.kind, ask |-> RewriteOne(site, Resolve(site, line.ref, base), mode, extra)]

RewriteManifest(site, text, base, mode, extra) ==
    [i \in DOMAIN text |-> RewriteLine(site, text[i], base, mode, extra)]

(* The three routes ask alike who calls: the page's own host, or one that  *)
(* the deployment lists.                                                   *)
IsAllowedCaller(req) == req.from # None /\ (req.from = req.host \/ req.from \in req.hosts)

Answer(status, body) == [status |-> status, body |-> body]
Refusal(status) == Answer(status, None)

(* GET /api/stream.                                                        *)
StreamGET(site, req) ==
    LET f == SafeFetch(site, req.url)
        r == site.answer[f.at]
        manifest == r.status # 304 /\ (site.m3u8[f.at] \/ site.m3u8[req.url] \/ r.type = "mpegurl")
        asksArchive == req.expect \/ site.archive[req.url]
    IN  IF ~IsAllowedCaller(req) THEN Refusal(403)
        ELSE IF ~site.valid[req.url] \/ f.outcome = "refused" THEN Refusal(400)
        ELSE IF r.status \notin {200, 206, 304} THEN Refusal(502)
        ELSE IF ~manifest THEN Answer(r.status, r.body)
        ELSE IF asksArchive /\ ~r.ended THEN Refusal(502)
        ELSE Answer(200, RewriteManifest(site, r.body, f.at, req.mode, req.extra))

----------------------------------------------------------------------------
(* app/api/m3u/route.ts and app/api/epg/route.ts: the body is handed on    *)
(* chunk by chunk, and broken off where it exceeds the cap.                *)
Total(chunks) == FoldLeft(+, 0, chunks)

Pump(chunks, cap) ==
    FoldLeft(LAMBDA s, c :
                 IF s.error THEN s
                 ELSE IF s.total + c > cap THEN [s EXCEPT !.error = TRUE]
                 ELSE [s EXCEPT !.total = @ + c, !.sent = Append(@, c)],
             [total |-> 0, sent |-> << >>, error |-> FALSE], chunks)

FileGET(site, req, cap, playlist) ==
    LET f == SafeFetch(site, req.url)
        r == site.answer[f.at]
    IN  IF ~IsAllowedCaller(req) THEN Refusal(403)
        ELSE IF ~site.valid[req.url] \/ f.outcome = "refused" THEN Refusal(400)
        ELSE IF r.status \notin {200, 206} \/ (playlist /\ r.type = "html") THEN Refusal(502)
        ELSE Answer(200, Pump(r.chunks, cap))

----------------------------------------------------------------------------
(* app/api/playlist/digest/route.ts: cache is what KV holds of the pair of *)
(* URLs; a guide that cannot be fetched is left out, and what does not fit *)
(* a value of KV is not kept.                                              *)
FetchText(site, u, cap) ==
    IF u = None \/ ~site.valid[u] THEN None
    ELSE LET f == SafeFetch(site, u)
             r == site.answer[f.at]
         IN  IF f.outcome = "answered" /\ r.status \in {200, 206} /\ ~Pump(r.chunks, cap).error
             THEN f.at ELSE None

DigestPOST(site, cache, req, caps) ==
    LET refused == ~site.valid[req.m3u] \/ (req.epg # None /\ ~site.valid[req.epg])
        digest == [m3u |-> FetchText(site, req.m3u, caps.m3u),
                   epg |-> FetchText(site, req.epg, caps.epg)]
        kept == IF site.fits THEN digest ELSE cache
    IN  IF ~IsAllowedCaller(req) THEN [answer |-> Refusal(403), cache |-> cache]
        ELSE IF refused THEN [answer |-> Refusal(400), cache |-> cache]
        ELSE IF ~req.nocache /\ cache # None THEN [answer |-> Answer(200, cache), cache |-> cache]
        ELSE IF digest.m3u = None THEN [answer |-> Refusal(502), cache |-> cache]
        ELSE [answer |-> Answer(200, digest), cache |-> kept]

----------------------------------------------------------------------------
(* An address that is written with fewer numbers is still that address, so *)
(* that every spelling is judged alike.                                    *)
Packed(o) == FoldLeft(LAMBDA acc, v : 256 * acc + v, 0, o)
Spelled(o, n) == Append(SubSeq(o, 1, n - 1), Packed(SubSeq(o, n, 4)))
SpellingsAgree(o, n) == CanonicaliseIPv4(Spelled(o, n)) = o

(* Whatever redirects there are, each URL that is dialled was judged, and  *)
(* the answer is that of the URL the caller is told, against which it then *)
(* resolves what the body names.                                           *)
EveryHopIsJudged(site, u) ==
    LET f == SafeFetch(site, u) IN
    /\ \A i \in DOMAIN f.path : Dialled(site, f.path[i])
    /\ Len(f.path) <= MaxRedirects + 1
    /\ f.outcome = "answered" =>
         /\ Last(f.path) = f.at
         /\ ~(site.answer[f.at].status = 302 /\ site.answer[f.at].location # None)

(* What a manifest names is what the page gets when it follows the lines   *)
(* it was given, with the headers and the mode of the first request as     *)
(* long as it goes through the route.                                      *)
LinesLeadThere(site, text, base, mode, extra) ==
    LET given == RewriteManifest(site, text, base, mode, extra) IN
    \A i \in DOMAIN text :
        IF text[i].kind \in {"blank", "tag"} THEN given[i] = text[i]
        ELSE /\ given[i].ask.url = Resolve(site, text[i].ref, base)
             /\ given[i].ask.via = "route" => given[i].ask.mode = mode /\ given[i].ask.extra = extra
             /\ given[i].ask.via = "cdn" => mode = "direct" /\ ~site.m3u8[given[i].ask.url]

(* A file is handed on whole or broken off with an error, never cut short  *)
(* without one, and never beyond the cap.                                  *)
WholeOrError(chunks, cap) ==
    LET s == Pump(chunks, cap) IN
    /\ s.error <=> Total(chunks) > cap
    /\ ~s.error => s.sent = chunks
    /\ Total(s.sent) <= cap

(* digest/route.ts:148 "Tag the response so the UI can surface the EPG     *)
(* failure": an answer without the guide that was asked for is an answer   *)
(* like any other, and kept for as long (a failure of one request is then  *)
(* everybody's).                                                           *)
GuideIsAsked(site, cache, req, caps) ==
    LET a == DigestPOST(site, cache, req, caps).answer IN
    a.status = 200 /\ req.epg # None => a.body.epg # None
=============================================================================
