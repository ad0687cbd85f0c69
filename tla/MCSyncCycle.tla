---------------------------- MODULE MCSyncCycle ----------------------------
(* Instances of SyncCycle for TLC. *)
EXTENDS SyncCycle, TLC

CONSTANTS t1, t2, daemon, cli, f1, f2, f3

\* The second template, or corrected metadata, renders t1 elsewhere.
Usual == [t \in Tracks |-> IF t = t1 THEN f1 ELSE f2]
OneNaming == {Usual}
TwoNamings == {Usual, [Usual EXCEPT ![t1] = f3]}

FavoriteTracksScope == {{"tracks"}}
BothScopes == {{"tracks"}, Sources}
NotOrFavorite == {{}, {"tracks"}}
NotFavoriteOrAlbum == {{}, {"tracks"}, {"collections"}}
=============================================================================
