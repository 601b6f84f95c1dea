--------------------------- MODULE MCContentCache ---------------------------
EXTENDS ContentCache

F(p, b) == [path |-> p, blob |-> b]
\* The first file changes and the second goes; then an empty one comes.
MCListedAt == << <<F(1, 1), F(2, 2)>>, <<F(1, 3)>>, <<F(1, 3), F(3, 4)>> >>
MCChunks == <<3, 1, 2, 0>>

CacheQuiet == [disk |-> FALSE, stored |-> <<>>, opens |-> 1, closes |-> 0, moves |-> 0,
               views |-> 0, fails |-> 0, drops |-> 0]
\* What an earlier session left on disk: a header, and one that does not decode.
OldStore == (HeaderKey(F(1, 1)) :> 1) @@ (HeaderKey(F(2, 2)) :> 0) @@ (ChunkKey(F(1, 1), 1) :> 1)

MCContentMenus ==
  { [CacheQuiet EXCEPT !.views = 2],
    [CacheQuiet EXCEPT !.views = 1, !.moves = 1],
    [CacheQuiet EXCEPT !.moves = 2],
    [CacheQuiet EXCEPT !.views = 1, !.fails = 1, !.drops = 1],
    [CacheQuiet EXCEPT !.disk = TRUE, !.stored = OldStore, !.views = 1],
    [CacheQuiet EXCEPT !.disk = TRUE, !.moves = 1],
    [CacheQuiet EXCEPT !.disk = TRUE, !.stored = OldStore, !.opens = 2, !.closes = 1] }
=============================================================================
