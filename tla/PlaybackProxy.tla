--------------------------- MODULE PlaybackProxy ---------------------------
(***************************************************************************)
(* The playback service: tickets and the manifest-rewriting proxy.         *)
(*                                                                         *)
(* A ticket is a signed token with an expiry plus a Redis hash with its    *)
(* stream and the origin it plays from.  The proxy fetches a manifest from *)
(* the origin, remembers every URL in it for the ticket and hands out      *)
(* paths that name the URLs by their hashes.  A player resolves those paths*)
(* against the manifest it found them in and requests them in turn.  A     *)
(* request works on the ticket as it was when the request was validated,   *)
(* while the origin of the ticket can be swapped (FailoverSupervisor).     *)
(*                                                                         *)
(* services/playback/internal/playback: ticket.go, proxy.go.               *)
(***************************************************************************)
EXTENDS Integers, Sequences, SequencesExt

CONSTANTS
    Tickets,    \* ticket ids
    Streams,    \* catalogue streams; a stream also stands for its origin URL
    ChannelOf,  \* the channel of a stream
    HostOf,     \* the scheme and host of a stream's URLs
    Flat,       \* streams whose master is a media playlist
    NoStream,   \* an absent hash field
    NoRequest,  \* the player has no request under way
    NoListing   \* the player has got no manifest yet

ASSUME ProxyAssumption ==
    /\ NoStream \notin Streams
    /\ Flat \subseteq Streams
    /\ DOMAIN ChannelOf = Streams /\ DOMAIN HostOf = Streams

VARIABLES
    token,    \* the state of a ticket's token
    hash,     \* the Redis hash play:ticket:{id}
    urls,     \* the Redis hash play:urls:{id}: upstream URLs the ticket may fetch
    offered,  \* history: the paths the manifests of a ticket have offered
    listing,  \* the paths of the manifest the player got last
    request   \* the request under way, with the ticket it was validated with

proxyVars == <<token, hash, urls, offered, listing, request>>
playerVars == <<offered, listing, request>>

\* Upstream URLs, and the paths under /play/{id}/ that stand for them.
URL == [of : Streams, kind : {"master", "variant", "segment"}]
UrlOf(s, kind) == [of |-> s, kind |-> kind]
Master == <<"master">>
Path == {Master} \cup ({"v", "s"} \X URL) \cup ({"v"} \X {"s"} \X URL)

\* The hash of a ticket: its fields, and whether it has a time to live.
Hash == [stream : Streams \cup {NoStream}, origin : Streams \cup {NoStream},
         expires : BOOLEAN]
NoHash == [stream |-> NoStream, origin |-> NoStream, expires |-> FALSE]

ProxyTypeOK ==
    /\ token \in [Tickets -> {"none", "valid", "expired"}]
    /\ hash \in [Tickets -> Hash]
    /\ urls \in [Tickets -> SUBSET URL]
    /\ offered \in [Tickets -> SUBSET Path]
    /\ \A t \in Tickets : listing[t] = NoListing \/ listing[t] \subseteq offered[t]
    /\ \A t \in Tickets :
          \/ request[t] = NoRequest
          \/ request[t] \in [path : Path, origin : Streams, upstream : URL]

ProxyInit ==
    /\ token = [t \in Tickets |-> "none"]
    /\ hash = [t \in Tickets |-> NoHash]
    /\ urls = [t \in Tickets |-> {}]
    /\ offered = [t \in Tickets |-> {}]
    /\ listing = [t \in Tickets |-> NoListing]
    /\ request = [t \in Tickets |-> NoRequest]

---------------------------------------------------------------------------
(* Tickets.                                                                *)

Issue(t, s) ==
    /\ token[t] = "none"
    /\ token' = [token EXCEPT ![t] = "valid"]
    /\ hash' = [hash EXCEPT ![t] = [stream |-> s, origin |-> s, expires |-> TRUE]]
    /\ UNCHANGED <<urls, playerVars>>

\* The expiry in the token passes.
TokenExpires(t) ==
    /\ token[t] = "valid"
    /\ token' = [token EXCEPT ![t] = "expired"]
    /\ UNCHANGED <<hash, urls, playerVars>>

\* Redis drops the hash, 30 s after the token's expiry.
HashExpires(t) ==
    /\ token[t] = "expired" /\ hash[t].expires
    /\ hash' = [hash EXCEPT ![t] = NoHash]
    /\ UNCHANGED <<token, urls, playerVars>>

\* SwapOrigin: HSET, which makes the hash if there is none.
SwapOrigin(t, s) == hash' = [hash EXCEPT ![t].origin = s]

---------------------------------------------------------------------------
(* The proxy.                                                              *)

\* The URLs that the manifest behind a URL lists.
Listed(u) ==
    IF u.kind = "master" /\ u.of \notin Flat
    THEN {UrlOf(u.of, "variant")}
    ELSE {UrlOf(u.of, "segment")}

\* ServeHTTP's dispatch: the upstream URLs a path stands for, none for a path
\* it does not know or a hash it cannot recall.
Upstream(t, path) ==
    CASE path = Master -> {UrlOf(hash[t].origin, "master")}
      [] path # Master /\ Len(path) = 2 -> {path[2]} \cap urls[t]
      [] OTHER -> {}

\* A valid token and a hash: the handler goes on with the ticket as loaded.
Validated(t) == token[t] = "valid" /\ hash[t].origin # NoStream

\* The player requests a manifest or a segment it was offered.
Request(t, path) ==
    /\ Validated(t) /\ request[t] = NoRequest
    /\ path \in {Master} \cup offered[t]
    /\ \E u \in Upstream(t, path) :
          request' = [request EXCEPT ![t] =
                        [path |-> path, origin |-> hash[t].origin, upstream |-> u]]
    /\ UNCHANGED <<token, hash, urls, offered, listing>>

\* sameHost: the only URIs of a manifest that are not refused.
SameHost(u, origin) == HostOf[u.of] = HostOf[origin]

\* The path a URL is rewritten to, relative to the manifest.
Rewritten(u) == IF u.kind = "segment" THEN <<"s", u>> ELSE <<"v", u>>

\* How a player resolves a relative reference: in the manifest's directory.
ResolveIn(path, relative) == Front(path) \o relative

\* The origin answers with a manifest: it is rewritten, and its URLs remembered.
ServeManifest(t) ==
    /\ request[t] # NoRequest
    /\ request[t].upstream.kind # "segment"
    /\ LET accepted == {u \in Listed(request[t].upstream) :
                          SameHost(u, request[t].origin)}
           paths == {ResolveIn(request[t].path, Rewritten(u)) : u \in accepted}
       IN /\ urls' = [urls EXCEPT ![t] = @ \cup accepted]
          /\ listing' = [listing EXCEPT ![t] = paths]
          /\ offered' = [offered EXCEPT ![t] = @ \cup paths]
    /\ request' = [request EXCEPT ![t] = NoRequest]
    /\ UNCHANGED <<token, hash>>

\* The bytes of a segment are passed on, or the origin fails and the player
\* will try again.
EndRequest(t) ==
    /\ request[t] # NoRequest
    /\ request' = [request EXCEPT ![t] = NoRequest]
    /\ UNCHANGED <<token, hash, urls, offered, listing>>

---------------------------------------------------------------------------
\* ticket.go: "we hot-swap the upstream origin without the player tearing down
\* its session".  After a swap the variant the player polls is still the old
\* origin's, and all of its segments are refused: the player gets a manifest
\* with nothing to play.
ManifestsArePlayable ==
    \A t \in Tickets : listing[t] # {}
=============================================================================
