----------------------------- MODULE MCLibrary -----------------------------
(* Instances of Library for TLC. *)
EXTENDS Library

CONSTANTS t1, t2, t3, a1, p1, p2, monday, tuesday, favoriteTracks

OneAlbum == [a \in {a1} |-> <<t2>>]
NoAlbum == [a \in {} |-> <<>>]
OwnStems == [n \in {monday, tuesday} |-> n]

(* A favorite track, an album with it, a playlist with it and another track, and
   a playlist with that other track only. *)
TwoOfEach ==
    [favorites |-> [tracks |-> <<t2>>, albums |-> <<a1>>, playlists |-> <<p1, p2>>],
     playlist |-> [p \in {p1, p2} |->
        IF p = p1 THEN [title |-> monday, version |-> 1, items |-> <<t1, t2>>]
                  ELSE [title |-> tuesday, version |-> 1, items |-> <<t1>>]]]

ThreeTracks ==
    [favorites |-> [tracks |-> <<t1, t2, t3>>, albums |-> <<>>, playlists |-> <<>>],
     playlist |-> [p \in {p1} |-> [title |-> monday, version |-> 1, items |-> <<>>]]]

OnePlaylist ==
    [favorites |-> [tracks |-> <<>>, albums |-> <<>>, playlists |-> <<p1>>],
     playlist |-> [p \in {p1} |-> [title |-> monday, version |-> 1, items |-> <<t1>>]]]
=============================================================================
