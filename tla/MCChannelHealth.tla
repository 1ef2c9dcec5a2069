--------------------------- MODULE MCChannelHealth ----------------------------
(* Channels that play, are refused, serve a manifest without segments,     *)
(* never answer, or carry a codec the browser does not have; and the       *)
(* routes they are fetched through: three URLs that redirect to each other *)
(* in any way, addresses, manifests of three lines, files of four chunks.  *)
EXTENDS ChannelHealth
Up == [manifest |-> "ok", variant |-> "none", segment |-> "ok", decodes |-> TRUE]
Dead == [manifest |-> "ok", variant |-> "ok", segment |-> "refused", decodes |-> TRUE]
Slow == [manifest |-> "ok", variant |-> "unknown", segment |-> "ok", decodes |-> TRUE]
Codec == [Up EXCEPT !.decodes = FALSE]
MCUpstreams == {Up, Dead, Slow, Codec}
UpOrSlow == {Up, Slow}

Routes == INSTANCE UpstreamRoutes WITH Urls <- {1, 2, 3}, None <- 0

Page == [status |-> 200, location |-> 0]
Answers == {Page, [Page EXCEPT !.status = 404]} \cup [status : {302}, location : 0 .. 3]
Sites == [valid : [1 .. 3 -> BOOLEAN], answer : [1 .. 3 -> Answers],
          hidden : {[u \in 1 .. 3 |-> FALSE], [u \in 1 .. 3 |-> u = 2]}]
ASSUME RedirectsAreFollowed == \A site \in Sites : Routes!EveryHopIsJudged(site, 1)

Octet == {0, 1, 9, 10, 100, 127, 172, 192, 254, 255}
ASSUME AddressesAreRead ==
    \A a \in {0, 1, 10, 127}, b, c, d \in Octet, n \in 1 .. 4 : Routes!SpellingsAgree(<<a, b, c, d>>, n)

ManifestLine == {[kind |-> "tag"], [kind |-> "uri", ref |-> [relative |-> TRUE]],
                 [kind |-> "uri", ref |-> [relative |-> FALSE, url |-> 3]]}
ASSUME ManifestsAreRewritten ==
    \A text \in UNION {[1 .. n -> ManifestLine] : n \in 0 .. 3}, m3u8 \in [1 .. 3 -> BOOLEAN],
       mode \in {"proxy", "direct"}, extra \in {0, 7} :
        Routes!LinesLeadThere([m3u8 |-> m3u8, beside |-> <<2, 3, 1>>], text, 1, mode, extra)

ASSUME FilesAreHandedOn ==
    \A chunks \in UNION {[1 .. n -> 1 .. 3] : n \in 0 .. 4}, cap \in 0 .. 8 :
        Routes!WholeOrError(chunks, cap)
=============================================================================
