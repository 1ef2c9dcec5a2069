------------------------- MODULE MCPlaylistIngest -------------------------
(***************************************************************************)
(* TLC instances of PlaylistIngest: two refreshes, of a source that serves *)
(* three playlists in turn.                                                *)
(***************************************************************************)
EXTENDS PlaylistIngest

CONSTANTS a, b, u1, u2, u3

MCChannels == {a, b}
MCURLs == {u1, u2, u3}

Entry(c, u) == [channel |-> c, url |-> u]

\* A playlist, one that repeats an entry and shares two with the first, and one
\* with two streams of a channel in a row.
MCPlaylists ==
    {<<Entry(a, u1), Entry(b, u2)>>,
     <<Entry(b, u2), Entry(a, u3), Entry(b, u2), Entry(a, u1)>>,
     <<Entry(b, u1), Entry(b, u3)>>}
=============================================================================
