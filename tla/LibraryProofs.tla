----------------------------- MODULE LibraryProofs -----------------------------
(***************************************************************************)
(* Two invariants of Library.  CacheInv: a row of the expansion cache never *)
(* vouches for other tracks than the ones its collection holds.  What the   *)
(* cycle holds in its hands while it reads is part of the argument: no      *)
(* version it knows of is newer than TIDAL's, and what it has read under    *)
(* the present one is how the items begin.                                  *)
(*   LibraryInv, in the second half: a track that was in the library when   *)
(* the cycle began and has not left it is desired already or is still to    *)
(* come (Pending), and while nothing was edited nothing else is desired.    *)
(* When the listings are read nothing is still to come.                     *)
(***************************************************************************)
EXTENDS Library, SequenceTheorems, TLAPS

Row == [version : Nat, ids : SUBSET Tracks, cached : BOOLEAN]
Entries == [of : Collections, version : Nat, title : Titles \cup {{}}]
Listing == [offset : Nat, page : Seq(Entries), last : BOOLEAN]
Reading == [of : Collections \cup {{}}, version : Nat, title : Titles \cup {{}},
            offset : Nat, got : Seq(Tracks), done : BOOLEAN]

LibraryTyped ==
    /\ favorites \in Favorites
    /\ playlist \in [Playlists -> Playlist]
    /\ cache \in [Collections -> Row]
    /\ listing \in Listing
    /\ reading \in Reading

(* What was listed or read under version v of collection c is not ahead of TIDAL.  *)
Behind(c, v) == c \in Playlists => v <= playlist[c].version

(* Nothing was edited in collection c since its version was v.                     *)
Unedited(c, v) == c \in Albums \/ v = playlist[c].version

PageIsBehind ==
    \A i \in DOMAIN listing.page : Behind(listing.page[i].of, listing.page[i].version)

ReadingIsPrefix ==
    reading # Closed =>
       LET list == Items(reading.of) IN
       /\ reading.of \in Collections
       /\ Behind(reading.of, reading.version)
       /\ Unedited(reading.of, reading.version) =>
             /\ reading.offset \in 0 .. Len(list)
             /\ reading.got = SubSeq(list, 1, reading.offset)
             /\ reading.done => reading.offset = Len(list)

RowsAreExact ==
    \A c \in Collections : cache[c].cached =>
       /\ Behind(c, cache[c].version)
       /\ Unedited(c, cache[c].version) => cache[c].ids = ToSet(Items(c))

CacheInv == LibraryTyped /\ PageIsBehind /\ ReadingIsPrefix /\ RowsAreExact

USE LibraryAssumption

-------------------------------------------------------------------------------
(* Sequences: the edits and the pages.                                             *)

LEMMA InsertTyped ==
    ASSUME NEW S, NEW s \in Seq(S), NEW e \in S, NEW i \in 1 .. Len(s) + 1
    PROVE  InsertAt(s, i, e) \in Seq(S)
BY DEF InsertAt

LEMMA RemoveTyped ==
    ASSUME NEW S, NEW s \in Seq(S), NEW i \in DOMAIN s
    PROVE  RemoveAt(s, i) \in Seq(S)
BY DEF RemoveAt

LEMMA MinOfTwo ==
    ASSUME NEW a \in Nat, NEW b \in Nat
    PROVE  Min({a, b}) = IF a <= b THEN a ELSE b
BY DEF Min

LEMMA PageTyped ==
    ASSUME NEW S, NEW list \in Seq(S), NEW offset \in Nat
    PROVE  Page(list, offset) \in Seq(S)
<1> DEFINE m == Min({offset + PageSize, Len(list)})
<1>1. m = IF offset + PageSize <= Len(list) THEN offset + PageSize ELSE Len(list)
  BY MinOfTwo
<1>2. m \in Nat /\ m <= Len(list)
  BY <1>1
<1> HIDE DEF m
<1>3. SubSeq(list, offset + 1, m) \in Seq(S)
  BY <1>2
<1>4. QED BY <1>3 DEF Page, m

(* A page read where the former one ended extends what was read, and the listing   *)
(* ends only where the items do.                                                  *)
LEMMA PageExtends ==
    ASSUME NEW S, NEW list \in Seq(S), NEW offset \in 0 .. Len(list)
    PROVE  LET page == Page(list, offset)
               next == offset + Len(page)
           IN /\ next \in 0 .. Len(list)
              /\ SubSeq(list, 1, offset) \o page = SubSeq(list, 1, next)
              /\ EndsAt(list, next, page) => next = Len(list)
<1> DEFINE m == Min({offset + PageSize, Len(list)})
           page == Page(list, offset)
<1>1. m = IF offset + PageSize <= Len(list) THEN offset + PageSize ELSE Len(list)
  BY MinOfTwo
<1>2. m \in offset .. Len(list) /\ (m = offset => offset = Len(list))
  BY <1>1
<1>3. page = SubSeq(list, offset + 1, m)
  BY DEF Page
<1> HIDE DEF m, page
<1>4. page \in Seq(S) /\ Len(page) = m - offset
  BY <1>2, <1>3
<1>5. SubSeq(list, 1, offset) \o page = SubSeq(list, 1, m)
  BY <1>2, <1>3, <1>4
<1>6. EndsAt(list, m, page) => m = Len(list)
  BY <1>2, <1>4 DEF EndsAt
<1>7. offset + Len(page) = m
  BY <1>2, <1>4
<1>8. QED BY <1>2, <1>5, <1>6, <1>7 DEF page

-------------------------------------------------------------------------------
(* Steps that edit no playlist and write no row.                                   *)

LEMMA ClosedTyped == Closed \in Reading /\ Unread \in Listing
BY DEF Closed, Reading, Unread, Listing

(* Neither the items nor the versions of the collections change.                   *)
LEMMA StillBehind ==
    ASSUME UNCHANGED playlist
    PROVE  \A c, v : /\ Behind(c, v)' <=> Behind(c, v)
                     /\ Unedited(c, v)' <=> Unedited(c, v)
                     /\ Items(c)' = Items(c)
BY DEF Behind, Unedited, Items

(* A step that reads on in a listing: no playlist edited, no row written, what is   *)
(* left of the page was in it, and the reading went on or is closed.               *)
LEMMA ReadsOn ==
    ASSUME CacheInv, UNCHANGED <<playlist, cache>>,
           favorites' \in Favorites, listing' \in Listing,
           PageIsBehind',
           reading' \in {reading, Closed}
    PROVE  CacheInv'
<1>1. LibraryTyped'
  BY ClosedTyped DEF CacheInv, LibraryTyped
<1>2. ReadingIsPrefix'
  <2>1. CASE reading' = Closed
    BY <2>1 DEF ReadingIsPrefix, Closed
  <2>2. CASE reading' = reading
    BY <2>2, StillBehind DEF CacheInv, ReadingIsPrefix, Closed
  <2>3. QED BY <2>1, <2>2
<1>3. RowsAreExact'
  BY StillBehind DEF CacheInv, RowsAreExact
<1>4. QED BY <1>1, <1>2, <1>3 DEF CacheInv

LEMMA SamePage ==
    ASSUME CacheInv, UNCHANGED <<playlist, listing>>
    PROVE  PageIsBehind'
BY StillBehind DEF CacheInv, PageIsBehind

LEMMA RestOfPage ==
    ASSUME CacheInv, UNCHANGED playlist, listing.page # <<>>,
           listing' = [listing EXCEPT !.page = Tail(@)]
    PROVE  /\ listing' \in Listing /\ PageIsBehind'
           /\ Head(listing.page) \in Entries
           /\ Behind(Head(listing.page).of, Head(listing.page).version)
<1>1. listing \in Listing /\ listing.page \in Seq(Entries)
  BY DEF CacheInv, LibraryTyped, Listing
<1>2. /\ Tail(listing.page) \in Seq(Entries)
      /\ Len(Tail(listing.page)) = Len(listing.page) - 1
      /\ \A i \in DOMAIN Tail(listing.page) :
            i + 1 \in DOMAIN listing.page /\ Tail(listing.page)[i] = listing.page[i + 1]
  BY <1>1
<1>3. listing' \in Listing /\ listing'.page = Tail(listing.page)
  BY <1>1, <1>2 DEF Listing
<1>4. PageIsBehind'
  <2>1. SUFFICES ASSUME NEW i \in DOMAIN listing'.page
                 PROVE  listing'.page[i].of \in Playlists =>
                           listing'.page[i].version <= playlist[listing'.page[i].of].version
    BY DEF PageIsBehind, Behind
  <2>2. i + 1 \in DOMAIN listing.page /\ listing'.page[i] = listing.page[i + 1]
    BY <1>2, <1>3, <2>1
  <2>3. Behind(listing.page[i + 1].of, listing.page[i + 1].version)
    BY <2>2 DEF CacheInv, PageIsBehind
  <2>4. QED BY <2>2, <2>3 DEF Behind
<1>5. 1 \in DOMAIN listing.page /\ Head(listing.page) = listing.page[1]
  BY <1>1
<1>6. QED BY <1>1, <1>3, <1>4, <1>5 DEF CacheInv, PageIsBehind

(* The end of a listing or of a phase, which may drop rows of the cache.            *)
LEMMA MovesOn ==
    ASSUME CacheInv, UNCHANGED <<favorites, playlist>>,
           listing' = Unread, reading' = Closed,
           \/ cache' = cache
           \/ \E D : cache' = [c \in Collections |-> IF c \in D THEN NotCached ELSE cache[c]]
    PROVE  CacheInv'
<1>1. cache' \in [Collections -> Row]
  <2>1. NotCached \in Row
    BY DEF NotCached, Row
  <2>2. cache \in [Collections -> Row]
    BY DEF CacheInv, LibraryTyped
  <2>3. QED BY <2>1, <2>2
<1>2. LibraryTyped'
  BY <1>1, ClosedTyped DEF CacheInv, LibraryTyped
<1>3. PageIsBehind'
  BY DEF PageIsBehind, Unread
<1>4. ReadingIsPrefix'
  BY DEF ReadingIsPrefix, Closed
<1>5. RowsAreExact'
  <2>1. \A c \in Collections : cache'[c].cached => cache'[c] = cache[c]
    BY DEF NotCached
  <2>2. QED BY <2>1, StillBehind DEF CacheInv, RowsAreExact
<1>6. QED BY <1>2, <1>3, <1>4, <1>5 DEF CacheInv

-------------------------------------------------------------------------------
(* The steps that list, read and cache a collection.                               *)

(* A page of a listing carries the versions of this moment.                        *)
LEMMA FetchListingKeeps == CacheInv /\ FetchListing => CacheInv'
<1>1. SUFFICES ASSUME CacheInv, FetchListing PROVE CacheInv'
  OBVIOUS
<1> DEFINE list == favorites[IF stage = "exports" THEN "playlists" ELSE stage]
           page == Page(list, listing.offset)
           next == listing.offset + Len(page)
<1>2. UNCHANGED <<favorites, playlist, cache, reading>>
  BY <1>1 DEF FetchListing, remoteVars, diskVars
<1>3. list \in Seq(Collections)
  <2>1. stage \in {"albums", "playlists", "exports"} /\ favorites \in Favorites
    BY <1>1 DEF FetchListing, CacheInv, LibraryTyped
  <2>2. list \in Seq(Albums) \/ list \in Seq(Playlists)
    BY <2>1 DEF Favorites
  <2>3. QED BY <2>2 DEF Collections
<1>4. listing.offset \in Nat
  BY <1>1 DEF CacheInv, LibraryTyped, Listing
<1>5. listing' = [offset |-> next, page |-> [i \in DOMAIN page |-> Entry(page[i])],
                  last |-> EndsAt(list, next, page)]
  BY <1>1 DEF FetchListing
<1> HIDE DEF list
<1>6. page \in Seq(Collections)
  BY <1>3, <1>4, PageTyped
<1>7. ASSUME NEW c \in Collections
      PROVE  Entry(c) \in Entries /\ Behind(Entry(c).of, Entry(c).version)
  <2>1. c \in Playlists => playlist[c] \in Playlist
    BY <1>1 DEF CacheInv, LibraryTyped
  <2>2. QED BY <1>7, <2>1 DEF Entry, Entries, Behind, Playlist
<1> HIDE DEF page
<1>8. [i \in DOMAIN page |-> Entry(page[i])] \in Seq(Entries)
  BY <1>6, <1>7
<1>9. next \in Nat /\ EndsAt(list, next, page) \in BOOLEAN
  BY <1>4, <1>6 DEF EndsAt
<1>10. listing' \in Listing
  BY <1>5, <1>8, <1>9 DEF Listing
<1>11. PageIsBehind'
  <2>1. SUFFICES ASSUME NEW i \in DOMAIN listing'.page
                 PROVE  listing'.page[i].of \in Playlists =>
                           listing'.page[i].version <= playlist[listing'.page[i].of].version
    BY <1>2 DEF PageIsBehind, Behind
  <2>2. i \in DOMAIN page /\ listing'.page[i] = Entry(page[i]) /\ page[i] \in Collections
    BY <1>5, <1>6, <2>1
  <2>3. QED BY <1>7, <2>2 DEF Behind
<1>12. favorites' \in Favorites
  BY <1>1, <1>2 DEF CacheInv, LibraryTyped
<1>13. QED BY <1>1, <1>2, <1>10, <1>11, <1>12, ReadsOn

LEMMA OpenCollectionKeeps == CacheInv /\ OpenCollection => CacheInv'
<1>1. SUFFICES ASSUME CacheInv, OpenCollection PROVE CacheInv'
  OBVIOUS
<1> DEFINE e == Head(listing.page)
<1>2. /\ UNCHANGED <<favorites, playlist, cache>> /\ listing.page # <<>>
      /\ listing' = [listing EXCEPT !.page = Tail(@)]
      /\ reading' = [of |-> e.of, version |-> e.version, title |-> e.title,
                     offset |-> 0, got |-> <<>>, done |-> FALSE]
  BY <1>1 DEF OpenCollection, AtCollection, remoteVars, diskVars
<1>3. listing' \in Listing /\ PageIsBehind' /\ e \in Entries /\ Behind(e.of, e.version)
  BY <1>1, <1>2, RestOfPage
<1> HIDE DEF e
<1>4. LibraryTyped'
  BY <1>1, <1>2, <1>3 DEF CacheInv, LibraryTyped, Reading, Entries
<1>5. ReadingIsPrefix'
  <2>1. e.of \in Collections
    BY <1>3 DEF Entries
  <2>2. Items(e.of) \in Seq(Tracks)
    BY <1>1, <2>1 DEF CacheInv, LibraryTyped, Playlist, Items, Collections
  <2>3. 0 \in 0 .. Len(Items(e.of)) /\ SubSeq(Items(e.of), 1, 0) = <<>>
    BY <2>2
  <2>4. QED BY <1>2, <1>3, <2>1, <2>3, StillBehind DEF ReadingIsPrefix
<1>6. RowsAreExact'
  BY <1>1, <1>2, StillBehind DEF CacheInv, RowsAreExact
<1>7. QED BY <1>3, <1>4, <1>5, <1>6 DEF CacheInv

LEMMA ItemsTyped == CacheInv => \A c \in Collections : Items(c) \in Seq(Tracks)
BY DEF CacheInv, LibraryTyped, Playlist, Items, Collections

LEMMA FetchItemsKeeps == CacheInv /\ FetchItems => CacheInv'
<1>1. SUFFICES ASSUME CacheInv, FetchItems PROVE CacheInv'
  OBVIOUS
<1> DEFINE list == Items(reading.of)
           page == Page(list, reading.offset)
           next == reading.offset + Len(page)
<1>2. /\ reading # Closed /\ UNCHANGED <<favorites, playlist, cache, listing>>
      /\ reading' = [reading EXCEPT !.offset = next, !.got = @ \o page,
                                    !.done = EndsAt(list, next, page)]
  BY <1>1 DEF FetchItems, remoteVars, diskVars
<1>3. reading \in Reading /\ reading.of \in Collections /\ Behind(reading.of, reading.version)
  BY <1>1, <1>2 DEF CacheInv, LibraryTyped, ReadingIsPrefix
<1>4. list \in Seq(Tracks)
  BY <1>1, <1>3, ItemsTyped
<1>5. reading.offset \in Nat /\ reading.got \in Seq(Tracks)
  BY <1>3 DEF Reading
<1>6. Unedited(reading.of, reading.version) =>
         reading.offset \in 0 .. Len(list) /\ reading.got = SubSeq(list, 1, reading.offset)
  BY <1>1, <1>2 DEF CacheInv, ReadingIsPrefix
<1> HIDE DEF list
<1>7. page \in Seq(Tracks)
  BY <1>4, <1>5, PageTyped
<1>8. Unedited(reading.of, reading.version) =>
         /\ next \in 0 .. Len(list)
         /\ reading.got \o page = SubSeq(list, 1, next)
         /\ EndsAt(list, next, page) => next = Len(list)
  BY <1>4, <1>6, PageExtends
<1> HIDE DEF page
<1>9. next \in Nat /\ EndsAt(list, next, page) \in BOOLEAN /\ reading.got \o page \in Seq(Tracks)
  BY <1>5, <1>7 DEF EndsAt
<1> HIDE DEF next
<1>10. /\ reading' \in Reading
       /\ reading'.of = reading.of /\ reading'.version = reading.version
       /\ reading'.offset = next /\ reading'.got = reading.got \o page
       /\ reading'.done = EndsAt(list, next, page)
  BY <1>2, <1>3, <1>9 DEF Reading
<1>11. LibraryTyped'
  BY <1>1, <1>2, <1>10 DEF CacheInv, LibraryTyped
<1>12. ReadingIsPrefix'
  BY <1>2, <1>3, <1>8, <1>10, StillBehind DEF ReadingIsPrefix, list
<1>13. PageIsBehind'
  BY <1>1, <1>2, SamePage
<1>14. RowsAreExact'
  BY <1>1, <1>2, StillBehind DEF CacheInv, RowsAreExact
<1>15. QED BY <1>11, <1>12, <1>13, <1>14 DEF CacheInv

(* The row is written under the version the listing gave: when that is still the    *)
(* present one, everything that was read is everything there is.                   *)
LEMMA PutCollectionKeeps == CacheInv /\ PutCollection => CacheInv'
<1>1. SUFFICES ASSUME CacheInv, PutCollection PROVE CacheInv'
  OBVIOUS
<1> DEFINE r == [version |-> reading.version, ids |-> ToSet(reading.got), cached |-> TRUE]
<1>2. /\ reading.done /\ reading' = Closed
      /\ cache' = [cache EXCEPT ![reading.of] = r]
      /\ UNCHANGED <<favorites, playlist, listing>>
  BY <1>1 DEF PutCollection, remoteVars
<1>3. reading # Closed
  BY <1>2 DEF Closed
<1>4. /\ reading \in Reading /\ reading.of \in Collections
      /\ Behind(reading.of, reading.version)
      /\ Unedited(reading.of, reading.version) =>
            reading.got = SubSeq(Items(reading.of), 1, Len(Items(reading.of)))
  BY <1>1, <1>2, <1>3 DEF CacheInv, LibraryTyped, ReadingIsPrefix
<1>5. Items(reading.of) \in Seq(Tracks)
  BY <1>1, <1>4, ItemsTyped
<1>6. Unedited(reading.of, reading.version) => r.ids = ToSet(Items(reading.of))
  BY <1>4, <1>5
<1>7. r \in Row
  <2>1. reading.version \in Nat /\ reading.got \in Seq(Tracks)
    BY <1>4 DEF Reading
  <2>2. ToSet(reading.got) \subseteq Tracks
    BY <2>1 DEF ToSet
  <2>3. QED BY <2>1, <2>2 DEF Row
<1>8. cache \in [Collections -> Row]
  BY <1>1 DEF CacheInv, LibraryTyped
<1>9. r.version = reading.version
  OBVIOUS
<1> HIDE DEF r
<1>10. /\ cache' \in [Collections -> Row]
       /\ \A c \in Collections : cache'[c] = IF c = reading.of THEN r ELSE cache[c]
  BY <1>2, <1>7, <1>8
<1>11. LibraryTyped'
  BY <1>1, <1>2, <1>10, ClosedTyped DEF CacheInv, LibraryTyped
<1>12. RowsAreExact'
  <2>1. SUFFICES ASSUME NEW c \in Collections, cache'[c].cached
                 PROVE  /\ Behind(c, cache'[c].version)
                        /\ Unedited(c, cache'[c].version) => cache'[c].ids = ToSet(Items(c))
    BY <1>2, StillBehind DEF RowsAreExact, Behind, Unedited, Items
  <2>2. CASE c = reading.of
    BY <1>4, <1>6, <1>9, <1>10, <2>2
  <2>3. CASE c # reading.of
    BY <1>1, <1>10, <2>1, <2>3 DEF CacheInv, RowsAreExact
  <2>4. QED BY <2>2, <2>3
<1>13. ReadingIsPrefix'
  BY <1>2 DEF ReadingIsPrefix
<1>14. PageIsBehind'
  BY <1>1, <1>2, SamePage
<1>15. QED BY <1>11, <1>12, <1>13, <1>14 DEF CacheInv

-------------------------------------------------------------------------------
(* The user's edits.                                                               *)

(* An edited playlist has a version nobody has seen: what was listed, read or cached *)
(* of it vouches for nothing any more.                                             *)
LEMMA ReviseKeeps ==
    ASSUME CacheInv, NEW p \in Playlists, NEW title \in Titles, NEW items \in Seq(Tracks),
           Revise(p, title, items), UNCHANGED <<cache, listing, reading>>
    PROVE  CacheInv'
<1> DEFINE new == [title |-> title, version |-> playlist[p].version + 1, items |-> items]
<1>1. playlist \in [Playlists -> Playlist] /\ playlist[p].version \in Nat
  BY DEF CacheInv, LibraryTyped, Playlist
<1>2. playlist' = [playlist EXCEPT ![p] = new] /\ UNCHANGED favorites
  BY DEF Revise
<1>3. new \in Playlist /\ new.version = playlist[p].version + 1
  BY <1>1 DEF Playlist
<1> HIDE DEF new
<1>4. /\ playlist' \in [Playlists -> Playlist]
      /\ \A q \in Playlists : playlist'[q] = IF q = p THEN new ELSE playlist[q]
  BY <1>1, <1>2, <1>3
<1>5. LibraryTyped'
  BY <1>2, <1>4 DEF CacheInv, LibraryTyped
<1>6. \A q \in Playlists : playlist[q].version \in Nat
  BY <1>1 DEF Playlist
<1>7. ASSUME NEW c \in Collections, NEW v \in Nat, Behind(c, v)
      PROVE  /\ Behind(c, v)'
             /\ Unedited(c, v)' => Unedited(c, v) /\ Items(c)' = Items(c)
  <2>1. CASE c \in Albums
    BY <2>1, <1>7 DEF Behind, Unedited, Items
  <2>2. CASE c = p
    <3>1. v <= playlist[p].version /\ playlist'[p].version = playlist[p].version + 1
      BY <1>3, <1>4, <1>7, <2>2 DEF Behind
    <3>2. c \notin Albums
      BY <2>2
    <3>3. QED BY <1>1, <3>1, <3>2, <2>2 DEF Behind, Unedited
  <2>3. CASE c \in Playlists \ {p}
    BY <1>4, <1>7, <2>3 DEF Behind, Unedited, Items
  <2>4. QED BY <2>1, <2>2, <2>3 DEF Collections
<1>8. PageIsBehind'
  <2>1. SUFFICES ASSUME NEW i \in DOMAIN listing.page
                 PROVE  Behind(listing.page[i].of, listing.page[i].version)'
    BY DEF PageIsBehind
  <2>2. listing.page[i] \in Entries
    BY DEF CacheInv, LibraryTyped, Listing
  <2>3. listing.page[i].of \in Collections /\ listing.page[i].version \in Nat
    BY <2>2 DEF Entries
  <2>4. Behind(listing.page[i].of, listing.page[i].version)
    BY DEF CacheInv, PageIsBehind
  <2>5. Behind(listing.page[i].of, listing.page[i].version)'
    BY <1>7, <2>3, <2>4
  <2>6. QED BY <2>5
<1>9. ReadingIsPrefix'
  <2>1. SUFFICES ASSUME reading # Closed PROVE ReadingIsPrefix'
    BY DEF ReadingIsPrefix
  <2>2. reading.of \in Collections /\ reading.version \in Nat /\ Behind(reading.of, reading.version)
    BY <2>1 DEF CacheInv, ReadingIsPrefix, LibraryTyped, Reading
  <2>3. /\ Behind(reading.of, reading.version)'
        /\ Unedited(reading.of, reading.version)' =>
              Unedited(reading.of, reading.version) /\ Items(reading.of)' = Items(reading.of)
    BY <1>7, <2>2
  <2>4. QED BY <2>1, <2>2, <2>3 DEF CacheInv, ReadingIsPrefix
<1>10. RowsAreExact'
  <2>1. SUFFICES ASSUME NEW c \in Collections, cache[c].cached
                 PROVE  /\ Behind(c, cache[c].version)'
                        /\ Unedited(c, cache[c].version)' => cache[c].ids = ToSet(Items(c)')
    BY DEF RowsAreExact
  <2>2. cache[c].version \in Nat
    BY DEF CacheInv, LibraryTyped, Row
  <2>3. Behind(c, cache[c].version)
    BY <2>1 DEF CacheInv, RowsAreExact
  <2>4. /\ Behind(c, cache[c].version)'
        /\ Unedited(c, cache[c].version)' =>
              Unedited(c, cache[c].version) /\ Items(c)' = Items(c)
    BY <1>7, <2>2, <2>3
  <2>5. QED BY <2>1, <2>4 DEF CacheInv, RowsAreExact
<1>11. QED BY <1>5, <1>8, <1>9, <1>10 DEF CacheInv

LEMMA UserKeeps == CacheInv /\ UserStep => CacheInv'
<1>1. SUFFICES ASSUME CacheInv, UserStep PROVE CacheInv'
  OBVIOUS
<1>2. UNCHANGED <<cache, listing, reading>>
  BY <1>1 DEF UserStep, Unfavorite, Favorite, AddToPlaylist, TakeFromPlaylist, Rename, RaiseTier,
              Grow, Shrink, diskVars, streamVars
<1>3. CASE \/ RaiseTier \/ \E k \in Sources : Unfavorite(k)
           \/ \E t \in Tracks : Favorite("tracks", t)
           \/ \E a \in Albums : Favorite("albums", a)
           \/ \E p \in Playlists : Favorite("playlists", p)
  <2>1. UNCHANGED playlist
    BY <1>3 DEF RaiseTier, Unfavorite, Favorite, remoteVars
  <2>2. favorites \in Favorites
    BY <1>1 DEF CacheInv, LibraryTyped
  <2>3. favorites' \in Favorites
    <3>1. ASSUME NEW k \in Sources, NEW i \in DOMAIN favorites[k],
                 favorites' = [favorites EXCEPT ![k] = RemoveAt(@, i)]
          PROVE  favorites' \in Favorites
      <4>1. CASE k = "tracks"
        <5>1. RemoveAt(favorites[k], i) \in Seq(Tracks)
          BY <2>2, <4>1, RemoveTyped DEF Favorites
        <5>2. QED BY <2>2, <3>1, <4>1, <5>1 DEF Favorites
      <4>2. CASE k = "albums"
        <5>1. RemoveAt(favorites[k], i) \in Seq(Albums)
          BY <2>2, <4>2, RemoveTyped DEF Favorites
        <5>2. QED BY <2>2, <3>1, <4>2, <5>1 DEF Favorites
      <4>3. CASE k = "playlists"
        <5>1. RemoveAt(favorites[k], i) \in Seq(Playlists)
          BY <2>2, <4>3, RemoveTyped DEF Favorites
        <5>2. QED BY <2>2, <3>1, <4>3, <5>1 DEF Favorites
      <4>4. QED BY <4>1, <4>2, <4>3 DEF Sources
    <3>2. ASSUME NEW t \in Tracks, Favorite("tracks", t)
          PROVE  favorites' \in Favorites
      <4>1. \A i \in 1 .. Len(favorites["tracks"]) + 1 :
               InsertAt(favorites["tracks"], i, t) \in Seq(Tracks)
        BY <2>2, InsertTyped DEF Favorites
      <4>2. QED BY <2>2, <3>2, <4>1 DEF Favorite, Favorites
    <3>3. ASSUME NEW a \in Albums, Favorite("albums", a)
          PROVE  favorites' \in Favorites
      <4>1. \A i \in 1 .. Len(favorites["albums"]) + 1 :
               InsertAt(favorites["albums"], i, a) \in Seq(Albums)
        BY <2>2, InsertTyped DEF Favorites
      <4>2. QED BY <2>2, <3>3, <4>1 DEF Favorite, Favorites
    <3>4. ASSUME NEW p \in Playlists, Favorite("playlists", p)
          PROVE  favorites' \in Favorites
      <4>1. \A i \in 1 .. Len(favorites["playlists"]) + 1 :
               InsertAt(favorites["playlists"], i, p) \in Seq(Playlists)
        BY <2>2, InsertTyped DEF Favorites
      <4>2. QED BY <2>2, <3>4, <4>1 DEF Favorite, Favorites
    <3>5. CASE RaiseTier
      BY <2>2, <3>5 DEF RaiseTier, remoteVars
    <3>6. QED BY <1>3, <3>1, <3>2, <3>3, <3>4, <3>5 DEF Unfavorite
  <2>4. PageIsBehind' /\ listing' \in Listing
    BY <1>1, <1>2, <2>1, SamePage DEF CacheInv, LibraryTyped
  <2>5. QED BY <1>1, <1>2, <2>1, <2>3, <2>4, ReadsOn
<1>4. ASSUME NEW p \in Playlists,
             \/ \E t \in Tracks : AddToPlaylist(p, t)
             \/ TakeFromPlaylist(p)
             \/ \E n \in Titles : Rename(p, n)
      PROVE  CacheInv'
  <2>1. playlist[p].title \in Titles /\ playlist[p].items \in Seq(Tracks)
    BY <1>1 DEF CacheInv, LibraryTyped, Playlist
  <2>2. \E title \in Titles, items \in Seq(Tracks) : Revise(p, title, items)
    <3>1. ASSUME NEW t \in Tracks, AddToPlaylist(p, t)
          PROVE  \E title \in Titles, items \in Seq(Tracks) : Revise(p, title, items)
      BY <2>1, <3>1, InsertTyped DEF AddToPlaylist
    <3>2. CASE TakeFromPlaylist(p)
      BY <2>1, <3>2, RemoveTyped DEF TakeFromPlaylist
    <3>3. ASSUME NEW n \in Titles, Rename(p, n)
          PROVE  \E title \in Titles, items \in Seq(Tracks) : Revise(p, title, items)
      BY <2>1, <3>3 DEF Rename
    <3>4. QED BY <1>4, <3>1, <3>2, <3>3
  <2>3. QED BY <1>1, <1>2, <2>2, ReviseKeeps
<1>5. QED BY <1>1, <1>3, <1>4 DEF UserStep

-------------------------------------------------------------------------------
LEMMA LibraryInitInv == Init => CacheInv
<1>1. SUFFICES ASSUME Init PROVE CacheInv
  OBVIOUS
<1>2. cache \in [Collections -> Row] /\ \A c \in Collections : ~cache[c].cached
  <2>1. NotCached \in Row /\ ~NotCached.cached
    BY DEF NotCached, Row
  <2>2. QED BY <1>1, <2>1 DEF Init
<1>3. LibraryTyped
  BY <1>1, <1>2, ClosedTyped DEF Init, LibraryTyped
<1>4. PageIsBehind /\ ReadingIsPrefix
  BY <1>1 DEF Init, PageIsBehind, ReadingIsPrefix, Unread
<1>5. RowsAreExact
  BY <1>2 DEF RowsAreExact
<1>6. QED BY <1>3, <1>4, <1>5 DEF CacheInv

LEMMA CycleKeeps == CacheInv /\ (CycleStep \/ Abort) => CacheInv'
<1>1. SUFFICES ASSUME CacheInv, CycleStep \/ Abort PROVE CacheInv'
  OBVIOUS
<1>2. favorites \in Favorites /\ listing \in Listing
  BY <1>1 DEF CacheInv, LibraryTyped
<1>3. CASE Begin
  <2>1. UNCHANGED <<favorites, playlist, cache, listing, reading>>
    BY <1>3 DEF Begin, remoteVars, diskVars, streamVars
  <2>2. PageIsBehind'
    BY <1>1, <2>1, SamePage
  <2>3. QED BY <1>1, <1>2, <2>1, <2>2, ReadsOn
<1>4. CASE CollectFavorites
  <2>1. /\ UNCHANGED <<favorites, playlist, cache, reading>>
        /\ \E n \in Nat, b \in BOOLEAN : listing' = [offset |-> n, page |-> <<>>, last |-> b]
    <3>1. favorites.tracks \in Seq(Tracks) /\ listing.offset \in Nat
      BY <1>2 DEF Favorites, Listing
    <3>2. Page(favorites.tracks, listing.offset) \in Seq(Tracks)
      BY <3>1, PageTyped
    <3> DEFINE page == Page(favorites.tracks, listing.offset)
               n == listing.offset + Len(page)
               b == EndsAt(favorites.tracks, n, page)
    <3>3. n \in Nat /\ b \in BOOLEAN
      BY <3>1, <3>2 DEF EndsAt
    <3>4. listing' = [offset |-> n, page |-> <<>>, last |-> b]
      BY <1>4 DEF CollectFavorites
    <3>5. UNCHANGED <<favorites, playlist, cache, reading>>
      BY <1>4 DEF CollectFavorites, remoteVars, diskVars
    <3> HIDE DEF page, n, b
    <3>6. QED BY <3>3, <3>4, <3>5
  <2>2. listing' \in Listing /\ PageIsBehind'
    BY <2>1 DEF Listing, PageIsBehind
  <2>3. QED BY <1>1, <1>2, <2>1, <2>2, ReadsOn
<1>5. CASE ServeCached
  <2>1. /\ UNCHANGED <<favorites, playlist, cache, reading>> /\ listing.page # <<>>
        /\ listing' = [listing EXCEPT !.page = Tail(@)]
    BY <1>5 DEF ServeCached, AtCollection, remoteVars, diskVars
  <2>2. listing' \in Listing /\ PageIsBehind'
    BY <1>1, <2>1, RestOfPage
  <2>3. QED BY <1>1, <1>2, <2>1, <2>2, ReadsOn
<1>6. CASE WriteExport
  <2>1. UNCHANGED <<favorites, playlist, cache, listing>> /\ reading' = Closed
    BY <1>6 DEF WriteExport, remoteVars
  <2>2. PageIsBehind'
    BY <1>1, <2>1, SamePage
  <2>3. QED BY <1>1, <1>2, <2>1, <2>2, ReadsOn
<1>7. CASE PutCollectionFails \/ Download \/ Reconcile \/ PruneOrphans \/ WriteFavorites \/ Abort
  <2>1. UNCHANGED <<favorites, playlist, cache>> /\ listing' = Unread /\ reading' = Closed
    BY <1>7 DEF PutCollectionFails, Download, Reconcile, PruneOrphans, WriteFavorites, Abort, Go,
                remoteVars, diskVars
  <2>2. QED BY <1>1, <2>1, MovesOn
<1>8. CASE EndListing
  <2>1. /\ UNCHANGED <<favorites, playlist>> /\ listing' = Unread /\ reading' = Closed
        /\ \/ cache' = cache
           \/ \E D : cache' = [c \in Collections |-> IF c \in D THEN NotCached ELSE cache[c]]
    BY <1>8 DEF EndListing, Go, remoteVars
  <2>2. QED BY <1>1, <2>1, MovesOn
<1>9. QED
  BY <1>1, <1>3, <1>4, <1>5, <1>6, <1>7, <1>8, FetchListingKeeps, OpenCollectionKeeps,
     FetchItemsKeeps, PutCollectionKeeps DEF CycleStep

LEMMA LibraryNextInv == CacheInv /\ [Next]_vars => CacheInv'
<1>1. SUFFICES ASSUME CacheInv, [Next]_vars PROVE CacheInv'
  OBVIOUS
<1>2. CASE UNCHANGED vars
  <2>1. UNCHANGED <<favorites, playlist, cache, listing, reading>>
    BY <1>2 DEF vars, remoteVars, diskVars, streamVars
  <2>2. PageIsBehind'
    BY <1>1, <2>1, SamePage
  <2>3. favorites \in Favorites /\ listing \in Listing
    BY <1>1 DEF CacheInv, LibraryTyped
  <2>4. QED BY <1>1, <2>1, <2>2, <2>3, ReadsOn
<1>3. QED BY <1>1, <1>2, UserKeeps, CycleKeeps DEF Next

(* However the user's edits fall between the listing, the pages of the items and    *)
(* the transaction, and wherever a cycle fails: the invariant of the cache.        *)
THEOREM CacheInvariant == Spec => []CacheInv
BY LibraryInitInv, LibraryNextInv, PTL DEF Spec

(* A cached expansion under the version TIDAL reports now is the collection as it   *)
(* is now (collectionValid, PutCollection), for any library and any page size.     *)
THEOREM CacheStaysExact == Spec => []CacheIsExact
<1>1. CacheInv => CacheIsExact
  BY DEF CacheInv, RowsAreExact, CacheIsExact, Unedited
<1>2. QED BY <1>1, CacheInvariant, PTL

-------------------------------------------------------------------------------
(* Lists: what an insertion, a removal and a page do to them; the course of a cycle. *)

(* What follows the first n elements. *)
Rest(s, n) == {s[i] : i \in n + 1 .. Len(s)}

LEMMA RestOfAll == ASSUME NEW S, NEW s \in Seq(S) PROVE Rest(s, 0) = ToSet(s)
BY DEF Rest, ToSet

(* The elements of a list after an insertion and after a removal.                   *)
LEMMA InsertedElements ==
    ASSUME NEW S, NEW s \in Seq(S), NEW e \in S, NEW i \in 1 .. Len(s) + 1
    PROVE  /\ Len(InsertAt(s, i, e)) = Len(s) + 1
           /\ \A j \in 1 .. Len(s) + 1 :
                 InsertAt(s, i, e)[j] = IF j < i THEN s[j] ELSE IF j = i THEN e ELSE s[j - 1]
<1> DEFINE a == SubSeq(s, 1, i - 1)
           b == SubSeq(s, i, Len(s))
<1>1. a \in Seq(S) /\ Len(a) = i - 1 /\ \A j \in 1 .. i - 1 : a[j] = s[j]
  OBVIOUS
<1>2. b \in Seq(S) /\ Len(b) = Len(s) - i + 1 /\ \A j \in 1 .. Len(s) - i + 1 : b[j] = s[i + j - 1]
  OBVIOUS
<1> HIDE DEF a, b
<1>3. InsertAt(s, i, e) = (a \o <<e>>) \o b
  BY DEF InsertAt, a, b
<1>4. /\ a \o <<e>> \in Seq(S) /\ Len(a \o <<e>>) = i
      /\ \A j \in 1 .. i : (a \o <<e>>)[j] = IF j < i THEN s[j] ELSE e
  BY <1>1
<1> DEFINE h == a \o <<e>>
<1> HIDE DEF h
<1>5. h \in Seq(S) /\ Len(h) = i /\ \A j \in 1 .. i : h[j] = IF j < i THEN s[j] ELSE e
  BY <1>4 DEF h
<1>9. /\ Len(h \o b) = Len(h) + Len(b)
      /\ \A j \in 1 .. Len(h) + Len(b) : (h \o b)[j] = IF j <= Len(h) THEN h[j] ELSE b[j - Len(h)]
  <2>1. h \in Seq(S) /\ b \in Seq(S)
    BY <1>2, <1>5
  <2>2. QED BY <2>1, ConcatProperties
<1>6. /\ Len(h \o b) = Len(s) + 1
      /\ \A j \in 1 .. Len(s) + 1 : (h \o b)[j] = IF j <= i THEN h[j] ELSE b[j - i]
  BY <1>2, <1>5, <1>9
<1>7. \A j \in i + 1 .. Len(s) + 1 : b[j - i] = s[j - 1]
  BY <1>2
<1>8. QED BY <1>3, <1>5, <1>6, <1>7 DEF h

LEMMA RemovedElements ==
    ASSUME NEW S, NEW s \in Seq(S), NEW i \in DOMAIN s
    PROVE  /\ Len(RemoveAt(s, i)) = Len(s) - 1
           /\ \A j \in 1 .. Len(s) - 1 : RemoveAt(s, i)[j] = IF j < i THEN s[j] ELSE s[j + 1]
<1> DEFINE a == SubSeq(s, 1, i - 1)
           b == SubSeq(s, i + 1, Len(s))
<1>1. a \in Seq(S) /\ Len(a) = i - 1 /\ \A j \in 1 .. i - 1 : a[j] = s[j]
  OBVIOUS
<1>2. b \in Seq(S) /\ Len(b) = Len(s) - i /\ \A j \in 1 .. Len(s) - i : b[j] = s[i + j]
  OBVIOUS
<1> HIDE DEF a, b
<1>3. RemoveAt(s, i) = a \o b
  BY DEF RemoveAt, a, b
<1>4. /\ Len(a \o b) = Len(s) - 1
      /\ \A j \in 1 .. Len(s) - 1 : (a \o b)[j] = IF j < i THEN a[j] ELSE b[j - i + 1]
  BY <1>1, <1>2, ConcatProperties
<1>5. \A j \in i .. Len(s) - 1 : b[j - i + 1] = s[j + 1]
  BY <1>2
<1>6. \A j \in 1 .. Len(s) - 1 : (a \o b)[j] = IF j < i THEN s[j] ELSE s[j + 1]
  BY <1>1, <1>4, <1>5
<1>7. QED BY <1>3, <1>4, <1>6

(* An insertion moves nothing towards the beginning of a list. *)
LEMMA InsertKeepsRest ==
    ASSUME NEW S, NEW s \in Seq(S), NEW e \in S, NEW i \in 1 .. Len(s) + 1, NEW n \in Nat
    PROVE  Rest(s, n) \subseteq Rest(InsertAt(s, i, e), n)
<1> DEFINE l == InsertAt(s, i, e)
<1>1. /\ Len(l) = Len(s) + 1
      /\ \A j \in 1 .. Len(s) + 1 : l[j] = IF j < i THEN s[j] ELSE IF j = i THEN e ELSE s[j - 1]
  BY InsertedElements
<1> HIDE DEF l
<1>2. ASSUME NEW j \in n + 1 .. Len(s)
      PROVE  \E m \in n + 1 .. Len(l) : l[m] = s[j]
  <2>1. CASE j < i
    BY <1>1, <1>2, <2>1
  <2>2. CASE j >= i
    <3>1. j + 1 \in n + 1 .. Len(l) /\ l[j + 1] = s[j]
      BY <1>1, <1>2, <2>2
    <3>2. QED BY <3>1
  <2>3. QED BY <2>1, <2>2
<1>3. Rest(s, n) \subseteq Rest(l, n)
  BY <1>2 DEF Rest
<1>4. QED BY <1>3 DEF l

(* A list without repetitions stays one.                                            *)
LEMMA InsertKeepsDistinct ==
    ASSUME NEW S, NEW s \in Seq(S), NEW e \in S \ ToSet(s), NEW i \in 1 .. Len(s) + 1,
           IsInjective(s)
    PROVE  IsInjective(InsertAt(s, i, e))
<1> DEFINE l == InsertAt(s, i, e)
<1>1. /\ Len(l) = Len(s) + 1
      /\ \A j \in 1 .. Len(s) + 1 : l[j] = IF j < i THEN s[j] ELSE IF j = i THEN e ELSE s[j - 1]
  BY InsertedElements
<1>2. l \in Seq(S)
  BY InsertTyped
<1> HIDE DEF l
<1>3. \A j \in 1 .. Len(s) : s[j] # e
  BY DEF ToSet
<1>4. \A j, m \in 1 .. Len(s) : s[j] = s[m] => j = m
  BY DEF IsInjective
<1>5. ASSUME NEW j \in 1 .. Len(s) + 1, NEW m \in 1 .. Len(s) + 1, l[j] = l[m]
      PROVE  j = m
  <2>1. CASE j < i /\ m < i
    BY <1>1, <1>4, <1>5, <2>1
  <2>2. CASE j > i /\ m > i
    <3>1. j - 1 \in 1 .. Len(s) /\ m - 1 \in 1 .. Len(s) /\ s[j - 1] = s[m - 1]
      BY <1>1, <1>5, <2>2
    <3>2. j - 1 = m - 1
      BY <1>4, <3>1
    <3>3. QED BY <3>2
  <2>3. CASE j = i \/ m = i
    <3>1. \A q \in 1 .. Len(s) + 1 : q # i => l[q] # e
      BY <1>1, <1>3
    <3>2. l[i] = e
      BY <1>1
    <3>3. QED BY <1>5, <2>3, <3>1, <3>2
  <2>4. CASE (j < i /\ m > i) \/ (m < i /\ j > i)
    BY <1>1, <1>4, <1>5, <2>4
  <2>5. QED BY <2>1, <2>2, <2>3, <2>4
<1>6. DOMAIN l = 1 .. Len(s) + 1
  BY <1>1, <1>2
<1>7. IsInjective(l)
  BY <1>5, <1>6 DEF IsInjective
<1>8. QED BY <1>7 DEF l

LEMMA RemoveKeepsDistinct ==
    ASSUME NEW S, NEW s \in Seq(S), NEW i \in DOMAIN s, IsInjective(s)
    PROVE  IsInjective(RemoveAt(s, i))
<1> DEFINE l == RemoveAt(s, i)
<1>1. /\ Len(l) = Len(s) - 1
      /\ \A j \in 1 .. Len(s) - 1 : l[j] = IF j < i THEN s[j] ELSE s[j + 1]
  BY RemovedElements
<1>2. l \in Seq(S)
  BY RemoveTyped
<1> HIDE DEF l
<1>3. \A j, m \in 1 .. Len(s) : s[j] = s[m] => j = m
  BY DEF IsInjective
<1>4. ASSUME NEW j \in 1 .. Len(s) - 1, NEW m \in 1 .. Len(s) - 1, l[j] = l[m]
      PROVE  j = m
  <2>1. CASE j < i /\ m < i
    BY <1>1, <1>3, <1>4, <2>1
  <2>2. CASE j >= i /\ m >= i
    <3>1. j + 1 \in 1 .. Len(s) /\ m + 1 \in 1 .. Len(s) /\ s[j + 1] = s[m + 1]
      BY <1>1, <1>4, <2>2
    <3>2. j + 1 = m + 1
      BY <1>3, <3>1
    <3>3. QED BY <3>2
  <2>3. CASE j < i /\ m >= i
    <3>1. j \in 1 .. Len(s) /\ m + 1 \in 1 .. Len(s) /\ s[j] = s[m + 1]
      BY <1>1, <1>4, <2>3
    <3>2. j = m + 1
      BY <1>3, <3>1
    <3>3. QED BY <2>3, <3>2
  <2>4. CASE m < i /\ j >= i
    <3>1. m \in 1 .. Len(s) /\ j + 1 \in 1 .. Len(s) /\ s[m] = s[j + 1]
      BY <1>1, <1>4, <2>4
    <3>2. m = j + 1
      BY <1>3, <3>1
    <3>3. QED BY <2>4, <3>2
  <2>5. QED BY <2>1, <2>2, <2>3, <2>4
<1>5. DOMAIN l = 1 .. Len(s) - 1
  BY <1>1, <1>2
<1>6. IsInjective(l)
  BY <1>4, <1>5 DEF IsInjective
<1>7. QED BY <1>6 DEF l

(* Where a page ends what comes after it begins, and there is nothing more where the *)
(* listing ends.                                                                    *)
LEMMA PageCovers ==
    ASSUME NEW S, NEW list \in Seq(S), NEW offset \in Nat
    PROVE  LET page == Page(list, offset)
               next == offset + Len(page)
           IN /\ \A j \in DOMAIN page : offset + j \in DOMAIN list /\ page[j] = list[offset + j]
              /\ \A i \in offset + 1 .. Len(list) :
                    \/ i - offset \in DOMAIN page /\ page[i - offset] = list[i]
                    \/ i \in next + 1 .. Len(list) /\ ~EndsAt(list, next, page)
<1> DEFINE m == Min({offset + PageSize, Len(list)})
           page == Page(list, offset)
           next == offset + Len(page)
<1>1. m = IF offset + PageSize <= Len(list) THEN offset + PageSize ELSE Len(list)
  BY MinOfTwo
<1>2. m \in Nat /\ m <= Len(list) /\ m <= offset + PageSize /\ (m > offset \/ offset >= Len(list))
  BY <1>1
<1>3. page = SubSeq(list, offset + 1, m)
  BY DEF Page
<1>4. page \in Seq(S)
  BY PageTyped
<1> HIDE DEF m, page
<1>5. CASE offset < Len(list)
  <2>1. Len(page) = m - offset /\ \A j \in 1 .. m - offset : page[j] = list[offset + j]
    BY <1>2, <1>3, <1>5
  <2>2. next = m /\ page # <<>> /\ DOMAIN page = 1 .. m - offset
    BY <1>2, <1>4, <1>5, <2>1
  <2>3. EndsAt(list, next, page) => m = Len(list)
    BY <1>2, <2>2 DEF EndsAt
  <2>4. \A i \in offset + 1 .. Len(list) :
           \/ i - offset \in DOMAIN page /\ page[i - offset] = list[i]
           \/ i \in next + 1 .. Len(list) /\ ~EndsAt(list, next, page)
    BY <1>2, <2>1, <2>2, <2>3
  <2>5. \A j \in DOMAIN page : offset + j \in DOMAIN list /\ page[j] = list[offset + j]
    BY <1>2, <2>1, <2>2
  <2>6. QED BY <2>4, <2>5 DEF page
<1>6. CASE offset >= Len(list)
  <2>1. page = <<>>
    BY <1>2, <1>3, <1>6
  <2>2. QED BY <1>6, <2>1 DEF page
<1>7. QED BY <1>5, <1>6

(* Min of a set is its least element.                                               *)
LEMMA MinIsFirst ==
    ASSUME NEW S \in SUBSET Nat, NEW m \in S, \A n \in S : m <= n
    PROVE  Min(S) = m
<1>1. Min(S) \in S /\ \A n \in S : Min(S) <= n
  BY DEF Min
<1>2. m \in Nat /\ Min(S) \in Nat /\ m <= Min(S) /\ Min(S) <= m
  BY <1>1
<1>3. QED BY <1>2

(* The first phase that is in the course after the one at position `at`. *)
LEMMA FirstInCourse ==
    ASSUME NEW at \in 0 .. 7, NEW j \in at + 1 .. 8, InCourse(Course[j]),
           \A i \in at + 1 .. j - 1 : ~InCourse(Course[i])
    PROVE  Course[Min({i \in at + 1 .. Len(Course) : InCourse(Course[i])})] = Course[j]
<1> DEFINE S == {i \in at + 1 .. Len(Course) : InCourse(Course[i])}
<1>1. Len(Course) = 8
  BY DEF Course
<1>2. S \in SUBSET Nat /\ j \in S /\ \A n \in S : j <= n
  BY <1>1
<1> HIDE DEF S
<1>3. Min(S) = j
  BY <1>2, MinIsFirst
<1>4. QED BY <1>3 DEF S

(* Where the phases stand in the course, and After by positions.                    *)
LEMMA CoursePositions ==
    /\ Course[1] = "tracks" /\ Course[2] = "albums" /\ Course[3] = "playlists"
    /\ Course[4] = "download" /\ Course[5] = "reconcile" /\ Course[6] = "exports"
    /\ Course[7] = "favorites" /\ Course[8] = "idle"
    /\ DOMAIN Course = 1 .. 8
BY DEF Course

LEMMA AfterPosition ==
    ASSUME NEW at \in 1 .. 7
    PROVE  After(Course[at]) = Course[Min({i \in at + 1 .. Len(Course) : InCourse(Course[i])})]
<1>1. Course[at] # "idle"
  BY CoursePositions
<1>2. (CHOOSE i \in DOMAIN Course : Course[i] = Course[at]) = at
  <2>1. \A i \in DOMAIN Course : Course[i] = Course[at] => i = at
    BY CoursePositions
  <2>2. at \in DOMAIN Course
    BY CoursePositions
  <2>3. QED BY <2>1, <2>2
<1>3. QED BY <1>1, <1>2 DEF After

(* enumerateFavorites goes through the sources in scope, executeSync through the phases. *)
LEMMA CourseOfACycle ==
    /\ After("playlists") = "download"
    /\ After("albums") = IF "playlists" \in Scope THEN "playlists" ELSE "download"
    /\ After("tracks") = IF "albums" \in Scope THEN "albums" ELSE After("albums")
    /\ After("idle") = IF "tracks" \in Scope THEN "tracks" ELSE After("tracks")
    /\ After("download") = "reconcile"
    /\ After("reconcile") = IF "playlists" \in Scope THEN "exports" ELSE After("exports")
    /\ After("exports") = IF "tracks" \in Scope THEN "favorites" ELSE "idle"
    /\ After("favorites") = "idle"
<1>1. /\ InCourse("download") /\ InCourse("reconcile") /\ InCourse("idle")
      /\ \A k \in Sources : InCourse(k) <=> k \in Scope
      /\ InCourse("exports") <=> "playlists" \in Scope
      /\ InCourse("favorites") <=> "tracks" \in Scope
  BY DEF InCourse, Sources
<1>2. ASSUME NEW at \in 1 .. 7, NEW j \in at + 1 .. 8, InCourse(Course[j]),
             \A i \in at + 1 .. j - 1 : ~InCourse(Course[i])
      PROVE  After(Course[at]) = Course[j]
  BY <1>2, AfterPosition, FirstInCourse
<1>3. ASSUME NEW j \in 1 .. 8, InCourse(Course[j]), \A i \in 1 .. j - 1 : ~InCourse(Course[i])
      PROVE  After("idle") = Course[j]
  <2>1. After("idle") = Course[Min({i \in 0 + 1 .. Len(Course) : InCourse(Course[i])})]
    BY DEF After
  <2>2. QED BY <1>3, <2>1, FirstInCourse
<1>4. "tracks" \in Sources /\ "albums" \in Sources /\ "playlists" \in Sources
  BY DEF Sources
<1> HIDE LibraryAssumption
<1>5. After(Course[3]) = Course[4]
  BY <1>1, <1>2, CoursePositions
<1>6. After(Course[2]) = IF "playlists" \in Scope THEN Course[3] ELSE Course[4]
  <2>1. CASE "playlists" \in Scope
    BY <1>1, <1>2, <1>4, <2>1, CoursePositions
  <2>2. CASE "playlists" \notin Scope
    <3>1. \A i \in 2 + 1 .. 4 - 1 : ~InCourse(Course[i])
      BY <1>1, <1>4, <2>2, CoursePositions
    <3>2. QED BY <1>1, <1>2, <2>2, <3>1, CoursePositions
  <2>3. QED BY <2>1, <2>2
<1>7. After(Course[1]) = IF "albums" \in Scope THEN Course[2] ELSE After(Course[2])
  <2>1. CASE "albums" \in Scope
    BY <1>1, <1>2, <1>4, <2>1, CoursePositions
  <2>2. CASE "albums" \notin Scope /\ "playlists" \in Scope
    <3>1. \A i \in 1 + 1 .. 3 - 1 : ~InCourse(Course[i])
      BY <1>1, <1>4, <2>2, CoursePositions
    <3>2. After(Course[1]) = Course[3]
      BY <1>1, <1>2, <1>4, <2>2, <3>1, CoursePositions
    <3>3. QED BY <1>6, <2>2, <3>2
  <2>3. CASE "albums" \notin Scope /\ "playlists" \notin Scope
    <3>1. \A i \in 1 + 1 .. 4 - 1 : ~InCourse(Course[i])
      BY <1>1, <1>4, <2>3, CoursePositions
    <3>2. After(Course[1]) = Course[4]
      BY <1>1, <1>2, <2>3, <3>1, CoursePositions
    <3>3. QED BY <1>6, <2>3, <3>2
  <2>4. QED BY <2>1, <2>2, <2>3
<1>8. After("idle") = IF "tracks" \in Scope THEN Course[1] ELSE After(Course[1])
  <2>1. CASE "tracks" \in Scope
    BY <1>1, <1>3, <1>4, <2>1, CoursePositions
  <2>2. CASE "tracks" \notin Scope /\ "albums" \in Scope
    <3>1. \A i \in 1 .. 2 - 1 : ~InCourse(Course[i])
      BY <1>1, <1>4, <2>2, CoursePositions
    <3>2. After("idle") = Course[2]
      BY <1>1, <1>3, <1>4, <2>2, <3>1, CoursePositions
    <3>3. QED BY <1>7, <2>2, <3>2
  <2>3. CASE Scope \cap {"tracks", "albums"} = {} /\ "playlists" \in Scope
    <3>1. \A i \in 1 .. 3 - 1 : ~InCourse(Course[i])
      BY <1>1, <1>4, <2>3, CoursePositions
    <3>2. After("idle") = Course[3]
      BY <1>1, <1>3, <1>4, <2>3, <3>1, CoursePositions
    <3>3. QED BY <1>6, <1>7, <2>3, <3>2
  <2>4. CASE Scope \cap {"tracks", "albums", "playlists"} = {}
    <3>1. \A i \in 1 .. 4 - 1 : ~InCourse(Course[i])
      BY <1>1, <1>4, <2>4, CoursePositions
    <3>2. After("idle") = Course[4]
      BY <1>1, <1>3, <2>4, <3>1, CoursePositions
    <3>3. QED BY <1>6, <1>7, <2>4, <3>2
  <2>5. QED BY <2>1, <2>2, <2>3, <2>4
<1>9. After(Course[4]) = Course[5]
  BY <1>1, <1>2, CoursePositions
<1>10. After(Course[7]) = Course[8]
  BY <1>1, <1>2, CoursePositions
<1>11. After(Course[6]) = IF "tracks" \in Scope THEN Course[7] ELSE Course[8]
  <2>1. CASE "tracks" \in Scope
    BY <1>1, <1>2, <2>1, CoursePositions
  <2>2. CASE "tracks" \notin Scope
    <3>1. \A i \in 6 + 1 .. 8 - 1 : ~InCourse(Course[i])
      BY <1>1, <2>2, CoursePositions
    <3>2. QED BY <1>1, <1>2, <2>2, <3>1, CoursePositions
  <2>3. QED BY <2>1, <2>2
<1>12. After(Course[5]) = IF "playlists" \in Scope THEN Course[6] ELSE After(Course[6])
  <2>1. CASE "playlists" \in Scope
    BY <1>1, <1>2, <2>1, CoursePositions
  <2>2. CASE "playlists" \notin Scope /\ "tracks" \in Scope
    <3>1. \A i \in 5 + 1 .. 7 - 1 : ~InCourse(Course[i])
      BY <1>1, <2>2, CoursePositions
    <3>2. After(Course[5]) = Course[7]
      BY <1>1, <1>2, <2>2, <3>1, CoursePositions
    <3>3. QED BY <1>11, <2>2, <3>2
  <2>3. CASE "playlists" \notin Scope /\ "tracks" \notin Scope
    <3>1. \A i \in 5 + 1 .. 8 - 1 : ~InCourse(Course[i])
      BY <1>1, <2>3, CoursePositions
    <3>2. After(Course[5]) = Course[8]
      BY <1>1, <1>2, <2>3, <3>1, CoursePositions
    <3>3. QED BY <1>11, <2>3, <3>2
  <2>4. QED BY <2>1, <2>2, <2>3
<1>13. QED
  BY <1>5, <1>6, <1>7, <1>8, <1>9, <1>10, <1>11, <1>12, CoursePositions


-------------------------------------------------------------------------------
Listings == {"albums", "playlists"}
Gathering == Sources \cup {"download", "reconcile"}

(* The sources whose turn is still to come. *)
Ahead(s) ==
    Scope \cap (CASE s = "idle" -> Sources
                  [] s = "tracks" -> {"albums", "playlists"}
                  [] s = "albums" -> {"playlists"}
                  [] OTHER -> {})

Holds(k, x) == IF k = "tracks" THEN {x} ELSE ToSet(Items(x))
Via(k, t) == \E x \in ToSet(favorites[k]) : t \in Holds(k, x)

(* Where a track that is not yet desired will still be met: in a source to come,
   beyond the page last read of this one, on that page (if the cache is not to
   pass it over), or in what is left of the items being read. *)
Coming(t) == \E k \in Ahead(stage) : Via(k, t)
Unlisted(t) ==
    /\ stage \in Sources /\ ~listing.last
    /\ \E x \in Rest(favorites[stage], listing.offset) : t \in Holds(stage, x)
OnPage(t) ==
    /\ stage \in Listings
    /\ \E i \in DOMAIN listing.page :
          /\ t \in ToSet(Items(listing.page[i].of))
          /\ Valid(listing.page[i]) => t \in cache[listing.page[i].of].ids
InHand(t) ==
    /\ stage \in Listings /\ reading # Closed /\ ~reading.done
    /\ t \in Rest(Items(reading.of), reading.offset)
Pending(t) == Coming(t) \/ Unlisted(t) \/ OnPage(t) \/ InHand(t)

StillPending == \A t \in steady : t \in Desired \/ Pending(t)

SteadyIsPending == stage \in Gathering /\ changed # "shrunk" => StillPending

IdleIsReset ==
    stage = "idle" =>
       /\ listing = Unread /\ reading = Closed /\ dst = Nothing /\ dates = {}
       /\ steady = {} /\ changed = "no"

(* A collection is on one page once, and not while its items are read. *)
OneAtATime ==
    /\ \A k \in Sources : IsInjective(favorites[k])
    /\ \A i, j \in DOMAIN listing.page : listing.page[i].of = listing.page[j].of => i = j
    /\ reading # Closed => \A i \in DOMAIN listing.page : listing.page[i].of # reading.of
    /\ listing.page # <<>> \/ reading # Closed => stage \in Listings \cup {"exports"}

(* While nothing was edited, what the cycle has listed is what there is. *)
ListedIsPresent ==
    stage \in Listings /\ changed = "no" =>
       /\ \A i \in DOMAIN listing.page :
             /\ listing.page[i].of \in ToSet(favorites[stage])
             /\ Unedited(listing.page[i].of, listing.page[i].version)
       /\ reading # Closed => reading.of \in ToSet(favorites[stage])

NothingElse ==
    stage \in Gathering /\ changed = "no" => Desired \subseteq Wanted /\ steady = Wanted

InScope == stage \in Sources => stage \in Scope

CourseInv == TypeOK /\ IdleIsReset /\ InScope /\ OneAtATime /\ StubsAreSettled
LibraryInv == CacheInv /\ CourseInv /\ ListedIsPresent /\ NothingElse /\ SteadyIsPending

-------------------------------------------------------------------------------
(* A source that has been read to its end: the next one in scope, or none is left.  *)
LEMMA NextSource ==
    ASSUME NEW s \in Sources \cup {"idle"}
    PROVE  \/ /\ After(s) \in Sources \cap Scope
              /\ Ahead(s) \subseteq {After(s)} \cup Ahead(After(s))
              /\ {After(s)} \cup Ahead(After(s)) \subseteq Ahead(s)
           \/ After(s) = "download" /\ Ahead(s) = {}
BY CourseOfACycle DEF Ahead, Sources

LEMMA LaterPhases ==
    /\ After("download") = "reconcile"
    /\ \A s \in {"reconcile", "exports", "favorites"} : After(s) \in {"exports", "favorites", "idle"}
    /\ Ahead("download") = {} /\ Ahead("reconcile") = {}
BY CourseOfACycle DEF Ahead

(* What the favorites hold, and what the scope asks for by way of them.             *)
LEMMA FavoritesTyped ==
    CacheInv => /\ favorites["tracks"] \in Seq(Tracks)
                /\ favorites["albums"] \in Seq(Albums)
                /\ favorites["playlists"] \in Seq(Playlists)
                /\ \A k \in Listings : favorites[k] \in Seq(Collections)
BY DEF CacheInv, LibraryTyped, Favorites, Listings, Collections

LEMMA WantedIsVia == \A t : t \in Wanted <=> \E k \in Scope : Via(k, t)
<1>1. \A k \in Scope :
         (IF k = "tracks" THEN ToSet(favorites.tracks)
          ELSE UNION {ToSet(Items(c)) : c \in ToSet(favorites[k])})
         = UNION {Holds(k, x) : x \in ToSet(favorites[k])}
  BY DEF Holds
<1>2. QED BY <1>1 DEF Wanted, Via, Holds

(* The type invariant, step by step. *)
LEMMA TypeStep == CacheInv' /\ TypeOK /\ IdleIsReset /\ [Next]_vars => TypeOK'
<1> SUFFICES ASSUME CacheInv', TypeOK, IdleIsReset, [Next]_vars PROVE TypeOK'
  OBVIOUS
<1> DEFINE Rows == /\ row' \in [Tracks -> {"none", "stale", "settled", "refused"}]
                   /\ files' \subseteq Tracks
                   /\ snapshot' \in [Tracks -> {"absent", "undated", "dated"}]
           Sets == /\ dst' \in [Tracks -> {"absent", "stub", "full"}] /\ dates' \subseteq Tracks
                   /\ stage' = "idle" => dst' = Nothing /\ dates' = {}
           Phase == stage' \in {"idle", "download", "reconcile", "exports", "favorites"} \cup Sources
           Bounds == edits' \in 0 .. MaxEdits /\ faults' \in 0 .. MaxFaults
<1>1. SUFFICES Rows /\ Sets /\ Phase /\ Bounds
  <2>1. favorites' \in Favorites /\ playlist' \in [Playlists -> Playlist] /\ cache' \in [Collections -> Row]
        /\ listing' \in Listing /\ reading' \in Reading
    BY DEF CacheInv, LibraryTyped
  <2>2. \A c \in Collections : cache'[c].cached \in BOOLEAN /\ cache'[c].ids \subseteq Tracks
    BY <2>1 DEF Row
  <2>3. /\ listing'.offset \in Nat /\ listing'.last \in BOOLEAN
        /\ reading'.of \in Collections \cup {{}} /\ reading'.got \in Seq(Tracks)
    BY <2>1 DEF Listing, Reading
  <2>4. QED BY <2>1, <2>2, <2>3 DEF TypeOK
<1>2. Nothing \in [Tracks -> {"absent", "stub", "full"}]
  BY DEF Nothing
<1>3. /\ After("idle") \in Sources \cup {"download"}
      /\ \A s \in Sources : After(s) \in Sources \cup {"download"}
      /\ After("download") = "reconcile"
      /\ \A s \in {"reconcile", "exports", "favorites"} : After(s) \in {"exports", "favorites", "idle"}
  BY NextSource, LaterPhases
<1>4. ASSUME NEW s \in {"idle", "download", "reconcile", "exports", "favorites"} \cup Sources, Go(s)
      PROVE  Sets /\ Phase
  BY <1>2, <1>4 DEF Go, TypeOK, setVars
<1>5. ASSUME Fault PROVE faults' \in 0 .. MaxFaults
  BY <1>5 DEF Fault, TypeOK
<1>6. CASE UserStep
  <2>1. UNCHANGED <<files, snapshot, stage, setVars, faults>> /\ Edit
    BY <1>6 DEF UserStep, Unfavorite, Favorite, AddToPlaylist, TakeFromPlaylist, Rename, RaiseTier,
                Grow, Shrink, diskVars
  <2>2. row' \in [Tracks -> {"none", "stale", "settled", "refused"}]
    <3>1. CASE RaiseTier
      BY <3>1 DEF RaiseTier, TypeOK
    <3>2. CASE ~RaiseTier
      BY <1>6, <3>2 DEF UserStep, Unfavorite, Favorite, AddToPlaylist, TakeFromPlaylist, Rename,
                  Grow, Shrink, diskVars, TypeOK
    <3>3. QED BY <3>1, <3>2
  <2>3. QED BY <2>1, <2>2 DEF Edit, TypeOK, setVars
<1>7. CASE Begin
  BY <1>3, <1>7 DEF Begin, TypeOK, diskVars, setVars
<1>8. CASE CollectFavorites
  <2>1. favorites.tracks \in Seq(Tracks) /\ listing.offset \in Nat
    BY DEF TypeOK, Favorites
  <2>2. Page(favorites.tracks, listing.offset) \in Seq(Tracks)
    BY <2>1, PageTyped
  <2>3. ToSet(Page(favorites.tracks, listing.offset)) \subseteq Tracks
    BY <2>2 DEF ToSet
  <2>4. dates' = dates \cup ToSet(Page(favorites.tracks, listing.offset)) /\ stage' = stage /\ stage = "tracks"
        /\ UNCHANGED <<diskVars, edits, faults>>
        /\ dst' \in [Tracks -> {"absent", "stub", "full"}]
    BY <1>8 DEF CollectFavorites, TypeOK
  <2>5. QED BY <2>3, <2>4 DEF diskVars, TypeOK
<1>9. CASE ServeCached \/ FetchItems
  <2>1. stage' = stage /\ stage # "idle" /\ UNCHANGED <<row, files, snapshot, dates, edits, faults>>
    BY <1>9 DEF ServeCached, FetchItems, FromCache, diskVars, IdleIsReset
  <2>3. dst' \in [Tracks -> {"absent", "stub", "full"}]
    BY <1>9 DEF ServeCached, FetchItems, TypeOK
  <2>2. QED BY <2>1, <2>3 DEF TypeOK
<1>10. CASE FetchListing \/ OpenCollection \/ PutCollection \/ WriteExport
  BY <1>10 DEF FetchListing, OpenCollection, PutCollection, WriteExport, diskVars, setVars, TypeOK
<1>11. CASE PutCollectionFails \/ Abort
  BY <1>4, <1>5, <1>11 DEF PutCollectionFails, Abort, diskVars, TypeOK
<1>12. CASE EndListing
  BY <1>3, <1>4, <1>12 DEF EndListing, TypeOK
<1>13. CASE Download
  <2>3. PICK failed \in SUBSET (Desired \ Settled), permanent \in BOOLEAN :
           LET done == {t \in Desired \ Settled : dst[t] = "full"} \ failed IN
              /\ files' = files \cup done
              /\ row' = [t \in Tracks |->
                    CASE t \in done -> "settled"
                      [] t \in failed /\ permanent -> IF row[t] = "none" THEN "refused" ELSE "settled"
                      [] OTHER -> row[t]]
    BY <1>13 DEF Download
  <2>4. row' \in [Tracks -> {"none", "stale", "settled", "refused"}]
    BY <2>3 DEF TypeOK
  <2>5. files' \subseteq Tracks
    BY <2>3 DEF Desired, TypeOK
  <2>1. row' \in [Tracks -> {"none", "stale", "settled", "refused"}] /\ files' \subseteq Tracks
    BY <2>4, <2>5
  <2>2. QED BY <1>3, <1>4, <1>5, <1>13, <2>1 DEF Download, TypeOK
<1>14. CASE Reconcile \/ PruneOrphans \/ WriteFavorites
  <2>1. Membership \in [Tracks -> {"absent", "undated", "dated"}]
    BY DEF Membership
  <2>2. Rows /\ Bounds
    BY <1>5, <1>14, <2>1 DEF Reconcile, PruneOrphans, WriteFavorites, TypeOK
  <2>3. \E s \in {"reconcile", "exports", "favorites"} : Go(After(s))
    BY <1>14 DEF Reconcile, PruneOrphans, WriteFavorites
  <2>4. QED BY <1>3, <1>4, <2>2, <2>3
<1>15. CASE UNCHANGED vars
  BY <1>15 DEF vars, diskVars, setVars, TypeOK
<1>16. QED
  BY <1>6, <1>7, <1>8, <1>9, <1>10, <1>11, <1>12, <1>13, <1>14, <1>15 DEF Next, CycleStep

(* Where each step leads. *)
LEMMA StageMoves ==
    ASSUME [Next]_vars, IdleIsReset
    PROVE  \/ stage' = stage
           \/ stage = "idle" /\ Begin
           \/ stage \in Sources /\ EndListing
           \/ stage = "download" /\ stage' = "reconcile" /\ Download
           \/ stage' \in {"exports", "favorites", "idle"} /\ Go(stage')
<1>1. CASE UserStep \/ UNCHANGED vars
  BY <1>1 DEF UserStep, Unfavorite, Favorite, AddToPlaylist, TakeFromPlaylist, Rename, RaiseTier,
     Grow,
              Shrink, vars
<1>2. CASE CollectFavorites \/ FetchListing \/ ServeCached \/ OpenCollection \/ FetchItems
           \/ PutCollection \/ WriteExport
  BY <1>2 DEF CollectFavorites, FetchListing, ServeCached, OpenCollection, FetchItems,
     PutCollection, WriteExport
<1>3. CASE Begin \/ EndListing
  BY <1>3 DEF Begin, EndListing
<1>4. CASE Download
  BY <1>4, LaterPhases DEF Download, Go
<1>5. CASE PutCollectionFails \/ Abort
  BY <1>5 DEF PutCollectionFails, Abort, Go
<1>6. CASE Reconcile \/ PruneOrphans \/ WriteFavorites
  <2>1. \E s \in {"reconcile", "exports", "favorites"} : Go(After(s))
    BY <1>6 DEF Reconcile, PruneOrphans, WriteFavorites
  <2>2. QED BY <2>1, LaterPhases DEF Go
<1>7. QED BY <1>1, <1>2, <1>3, <1>4, <1>5, <1>6 DEF Next, CycleStep

LEMMA NextPhase ==
    /\ After("idle") \in (Sources \cap Scope) \cup {"download"}
    /\ \A s \in Sources : After(s) \in (Sources \cap Scope) \cup {"download"}
BY NextSource

(* Between two cycles nothing is held: every way to "idle" resets the cycle.         *)
LEMMA IdleStep == IdleIsReset /\ [Next]_vars => IdleIsReset'
<1> SUFFICES ASSUME IdleIsReset, [Next]_vars, stage' = "idle" PROVE IdleIsReset'
  BY DEF IdleIsReset
<1>1. CASE Go("idle")
  BY <1>1 DEF Go, IdleIsReset
<1>2. CASE stage = "idle"
  <2>1. listing = Unread /\ reading = Closed /\ dst = Nothing /\ dates = {} /\ steady = {} /\ changed = "no"
    BY <1>2 DEF IdleIsReset
  <2>2. ~AtCollection /\ ~AtEnd /\ reading = Closed /\ ~reading.done
    BY <2>1 DEF AtCollection, AtEnd, Unread, Closed
  <2>3. CASE UserStep
    <3>1. UNCHANGED <<listing, reading, dst, dates>>
      BY <2>3 DEF UserStep, Unfavorite, Favorite, AddToPlaylist, TakeFromPlaylist, Rename,
         RaiseTier,
                  Grow, Shrink, streamVars, setVars
    <3>2. steady' = {} /\ changed' = "no"
      <4>1. CASE Grow
        BY <1>2, <2>1, <4>1 DEF Grow
      <4>2. CASE Shrink
        BY <1>2, <2>1, <4>2 DEF Shrink
      <4>3. CASE RaiseTier
        BY <2>1, <4>3 DEF RaiseTier, history
      <4>4. QED BY <2>3, <4>1, <4>2, <4>3 DEF UserStep, Unfavorite, Favorite, AddToPlaylist,
              TakeFromPlaylist, Rename
    <3>3. QED BY <2>1, <3>1, <3>2 DEF IdleIsReset
  <2>4. CASE UNCHANGED vars
    BY <2>1, <2>4 DEF vars, streamVars, setVars, history, IdleIsReset
  <2>5. ~Begin
    BY NextPhase DEF Begin, Sources
  <2>6. ~CycleStep
    BY <1>2, <2>2, <2>5 DEF CycleStep, CollectFavorites, FetchListing, ServeCached,
       OpenCollection, FetchItems,
      PutCollection, PutCollectionFails, EndListing, Download, Reconcile, WriteExport, PruneOrphans,
      WriteFavorites, Sources
  <2>7. ~Abort
    BY <1>2 DEF Abort
  <2>8. QED BY <2>3, <2>4, <2>6, <2>7 DEF Next
<1>3. CASE stage \in Sources /\ EndListing
  BY <1>3, NextPhase DEF EndListing, Go, Sources
<1>4. QED BY <1>1, <1>2, <1>3, StageMoves

(* No source out of scope is read.                                                  *)
LEMMA ScopeStep == InScope /\ IdleIsReset /\ [Next]_vars => InScope'
<1> SUFFICES ASSUME InScope, IdleIsReset, [Next]_vars PROVE InScope'
  OBVIOUS
<1>1. CASE stage' = stage
  BY <1>1 DEF InScope
<1>2. CASE stage = "idle" /\ Begin
  BY <1>2, NextPhase DEF Begin, InScope, Sources
<1>3. CASE stage \in Sources /\ EndListing
  BY <1>3, NextPhase DEF EndListing, Go, InScope, Sources
<1>4. CASE stage' \in {"reconcile", "exports", "favorites", "idle"}
  BY <1>4 DEF InScope, Sources
<1>5. QED BY <1>1, <1>2, <1>3, <1>4, StageMoves

(* A row is touched only between two cycles and by the downloads, so what was       *)
(* settled when it was served from the cache still is (emitStubs, shouldSkip).     *)
LEMMA StubStep == StubsAreSettled /\ IdleIsReset /\ [Next]_vars => StubsAreSettled'
<1> SUFFICES ASSUME StubsAreSettled, IdleIsReset, [Next]_vars, stage' \in Sources \cup {"download"}
             PROVE  \A t \in Tracks : dst'[t] = "stub" => t \in Settled'
  BY DEF StubsAreSettled
<1> DEFINE Kept == /\ row' = row
                   /\ \A t \in Tracks : dst'[t] = "stub" => dst[t] = "stub" \/ t \in Settled
<1>1. ASSUME stage \in Sources \cup {"download"}, Kept
      PROVE  \A t \in Tracks : dst'[t] = "stub" => t \in Settled'
  BY <1>1 DEF StubsAreSettled, Settled
<1>2. CASE stage = "idle"
  <2>1. dst = Nothing
    BY <1>2 DEF IdleIsReset
  <2>2. Begin
    BY <1>2, StageMoves DEF Sources
  <2>3. dst' = Nothing
    BY <2>1, <2>2 DEF Begin, setVars
  <2>4. QED BY <2>3 DEF Nothing
<1>3. CASE stage \in Sources /\ EndListing
  <2>1. Kept
    BY <1>3 DEF EndListing, Go, setVars, Sources
  <2>2. QED BY <1>1, <1>3, <2>1
<1>4. CASE stage' = stage /\ ~EndListing
  <2>1. CASE ServeCached
    BY <1>1, <1>4, <2>1 DEF ServeCached, FromCache, AllSettled, diskVars
  <2>2. CASE CollectFavorites \/ FetchItems
    BY <1>1, <1>4, <2>2 DEF CollectFavorites, FetchItems, diskVars
  <2>3. CASE FetchListing \/ OpenCollection \/ PutCollection
    BY <1>1, <1>4, <2>3 DEF FetchListing, OpenCollection, PutCollection, diskVars, setVars
  <2>4. CASE UserStep
    <3>1. ~RaiseTier
      BY <1>4 DEF RaiseTier, Sources
    <3>2. QED BY <1>1, <1>4, <2>4, <3>1 DEF UserStep, Unfavorite, Favorite, AddToPlaylist, TakeFromPlaylist,
                Rename, Grow, Shrink, diskVars, setVars
  <2>5. CASE UNCHANGED vars
    BY <1>1, <1>4, <2>5 DEF vars, diskVars, setVars
  <2>6. CASE Begin \/ Download \/ Reconcile \/ WriteExport \/ PruneOrphans \/ WriteFavorites
             \/ PutCollectionFails \/ Abort
    BY <1>4, <2>6, LaterPhases DEF Begin, Download, Reconcile, WriteExport, PruneOrphans,
       WriteFavorites,
       PutCollectionFails, Abort, Go, Sources
  <2>7. QED BY <1>4, <2>1, <2>2, <2>3, <2>4, <2>5, <2>6 DEF Next, CycleStep
<1>5. QED BY <1>2, <1>3, <1>4, StageMoves DEF Sources, EndListing

(* The collection at the head of the page, and those after it. *)
LEMMA HeadAndTail ==
    ASSUME CacheInv, listing.page # <<>>,
           listing' = [listing EXCEPT !.page = Tail(@)]
    PROVE  /\ Head(listing.page) = listing.page[1] /\ 1 \in DOMAIN listing.page
           /\ listing.page[1] \in Entries
           /\ listing'.offset = listing.offset /\ listing'.last = listing.last
           /\ \A i \in DOMAIN listing'.page :
                 i \in Nat /\ i + 1 \in DOMAIN listing.page /\ listing'.page[i] = listing.page[i + 1]
           /\ \A i \in DOMAIN listing.page :
                 i # 1 => i \in Nat /\ i - 1 \in DOMAIN listing'.page /\ listing'.page[i - 1] = listing.page[i]
<1>1. listing \in Listing /\ listing.page \in Seq(Entries)
  BY DEF CacheInv, LibraryTyped, Listing
<1>2. listing'.page = Tail(listing.page) /\ listing'.offset = listing.offset /\ listing'.last = listing.last
  BY <1>1 DEF Listing
<1> DEFINE s == listing.page
<1>3. s \in Seq(Entries) /\ s # <<>>
  BY <1>1
<1> HIDE DEF s
<1>4. /\ Head(s) = s[1] /\ 1 \in DOMAIN s
      /\ s[1] \in Entries
      /\ \A i \in DOMAIN Tail(s) :
            i \in Nat /\ i + 1 \in DOMAIN s /\ Tail(s)[i] = s[i + 1]
      /\ \A i \in DOMAIN s :
            i # 1 => i \in Nat /\ i - 1 \in DOMAIN Tail(s) /\ Tail(s)[i - 1] = s[i]
  BY <1>3
<1>5. QED BY <1>2, <1>4 DEF s

(* A page of a listing. *)
LEMMA ListedPage ==
    ASSUME CacheInv, FetchListing
    PROVE  LET list == favorites[IF stage = "exports" THEN "playlists" ELSE stage]
               page == Page(list, listing.offset)
               next == listing.offset + Len(page)
           IN /\ listing'.offset = next /\ listing'.last = EndsAt(list, next, page)
              /\ DOMAIN listing'.page = DOMAIN page
              /\ \A j \in DOMAIN page :
                    /\ listing'.page[j] = Entry(page[j]) /\ Entry(page[j]).of = page[j]
                    /\ page[j] \in Collections /\ page[j] \in ToSet(list)
                    /\ listing.offset + j \in DOMAIN list /\ page[j] = list[listing.offset + j]
              /\ \A i \in listing.offset + 1 .. Len(list) :
                    \/ i - listing.offset \in DOMAIN page /\ page[i - listing.offset] = list[i]
                    \/ i \in next + 1 .. Len(list) /\ ~EndsAt(list, next, page)
<1> DEFINE list == favorites[IF stage = "exports" THEN "playlists" ELSE stage]
           page == Page(list, listing.offset)
           next == listing.offset + Len(page)
<1>1. listing' = [offset |-> next, page |-> [i \in DOMAIN page |-> Entry(page[i])],
                  last |-> EndsAt(list, next, page)]
  BY DEF FetchListing
<1>2. list \in Seq(Collections)
  BY FavoritesTyped DEF FetchListing, Listings
<1>3. listing.offset \in Nat
  BY DEF CacheInv, LibraryTyped, Listing
<1> HIDE DEF list
<1>4. page \in Seq(Collections)
  BY <1>2, <1>3, PageTyped
<1>5. /\ \A j \in DOMAIN page : listing.offset + j \in DOMAIN list /\ page[j] = list[listing.offset + j]
      /\ \A i \in listing.offset + 1 .. Len(list) :
            \/ i - listing.offset \in DOMAIN page /\ page[i - listing.offset] = list[i]
            \/ i \in next + 1 .. Len(list) /\ ~EndsAt(list, next, page)
  BY <1>2, <1>3, PageCovers
<1> HIDE DEF page, next
<1>6. ASSUME NEW j \in DOMAIN page
      PROVE  page[j] \in Collections /\ Entry(page[j]).of = page[j] /\ page[j] \in ToSet(list)
  BY <1>2, <1>4, <1>5, <1>6 DEF Entry, ToSet
<1>7. /\ listing'.offset = next /\ listing'.last = EndsAt(list, next, page)
      /\ DOMAIN listing'.page = DOMAIN page
      /\ \A j \in DOMAIN page : listing'.page[j] = Entry(page[j])
  BY <1>1
<1>8. QED BY <1>5, <1>6, <1>7 DEF list, page, next

DistinctFavorites == \A k \in Sources : IsInjective(favorites[k])

(* No edit lists a favorite twice.                                                  *)
LEMMA EditsKeepDistinct ==
    ASSUME CacheInv, DistinctFavorites, [Next]_vars
    PROVE  DistinctFavorites'
<1>1. favorites = [k \in Sources |-> favorites[k]] /\ \A k \in Sources : \E S : favorites[k] \in Seq(S)
  BY DEF CacheInv, LibraryTyped, Favorites, Sources
<1>2. ASSUME NEW k \in Sources, NEW S, favorites[k] \in Seq(S), NEW x \in S, Favorite(k, x)
      PROVE  DistinctFavorites'
  <2>1. PICK i \in 1 .. Len(favorites[k]) + 1 :
           favorites' = [favorites EXCEPT ![k] = InsertAt(favorites[k], i, x)]
    BY <1>2 DEF Favorite
  <2>2. IsInjective(InsertAt(favorites[k], i, x))
    BY <1>2, InsertKeepsDistinct DEF Favorite, DistinctFavorites
  <2>3. QED BY <1>1, <2>1, <2>2 DEF DistinctFavorites
<1>3. ASSUME NEW k \in Sources, Unfavorite(k)
      PROVE  DistinctFavorites'
  <2>1. PICK i \in DOMAIN favorites[k] :
           favorites' = [favorites EXCEPT ![k] = RemoveAt(favorites[k], i)]
    BY <1>3 DEF Unfavorite
  <2>2. IsInjective(RemoveAt(favorites[k], i))
    BY <1>1, RemoveKeepsDistinct DEF DistinctFavorites
  <2>3. QED BY <1>1, <2>1, <2>2 DEF DistinctFavorites
<1>4. CASE UNCHANGED favorites
  BY <1>4 DEF DistinctFavorites
<1>5. CASE UserStep
  <2>1. \A t \in Tracks : Favorite("tracks", t) => DistinctFavorites'
    BY <1>2, FavoritesTyped DEF Sources
  <2>2. \A a \in Albums : Favorite("albums", a) => DistinctFavorites'
    BY <1>2, FavoritesTyped DEF Sources
  <2>3. \A p \in Playlists : Favorite("playlists", p) => DistinctFavorites'
    BY <1>2, FavoritesTyped DEF Sources
  <2>4. RaiseTier \/ (\E p \in Playlists : (\E t \in Tracks : AddToPlaylist(p, t)) \/ TakeFromPlaylist(p)
                                             \/ (\E n \in Titles : Rename(p, n))) => UNCHANGED favorites
    BY DEF RaiseTier, AddToPlaylist, TakeFromPlaylist, Rename, Revise, remoteVars
  <2>5. QED BY <1>3, <1>4, <1>5, <2>1, <2>2, <2>3, <2>4 DEF UserStep
<1>6. CASE CycleStep \/ Abort
  <2>1. UNCHANGED favorites
    BY <1>6 DEF CycleStep, Begin, CollectFavorites, FetchListing, ServeCached, OpenCollection,
       FetchItems,
      PutCollection, PutCollectionFails, EndListing, Download, Reconcile, WriteExport, PruneOrphans,
      WriteFavorites, Abort, remoteVars
  <2>2. QED BY <1>4, <2>1
<1>7. QED BY <1>4, <1>5, <1>6 DEF Next, vars, remoteVars

(* A page names a collection once, and not the one that is being read.             *)
LEMMA OneStep == CacheInv /\ OneAtATime /\ IdleIsReset /\ [Next]_vars => OneAtATime'
<1> SUFFICES ASSUME CacheInv, OneAtATime, IdleIsReset, [Next]_vars PROVE OneAtATime'
  OBVIOUS
<1> DEFINE OncePerPage == \A i, j \in DOMAIN listing.page : listing.page[i].of = listing.page[j].of => i = j
           NotInHand == reading # Closed => \A i \in DOMAIN listing.page : listing.page[i].of # reading.of
           InListing == listing.page # <<>> \/ reading # Closed => stage \in Listings \cup {"exports"}
<1>1. OncePerPage /\ NotInHand /\ InListing /\ DistinctFavorites
  BY DEF OneAtATime, DistinctFavorites
<1>2. SUFFICES OncePerPage' /\ NotInHand' /\ InListing'
  BY <1>1, EditsKeepDistinct DEF OneAtATime, DistinctFavorites
<1>3. CASE UNCHANGED <<stage, listing, reading>>
  BY <1>1, <1>3
<1>4. CASE listing' = Unread /\ reading' = Closed
  BY <1>4 DEF Unread
<1>5. CASE CollectFavorites
  <2>1. listing'.page = <<>> /\ reading' = Closed
    BY <1>5 DEF CollectFavorites, AtPage
  <2>2. QED BY <2>1
<1>6. CASE FetchListing
  <2>1. reading' = Closed /\ stage' \in Listings \cup {"exports"}
    BY <1>6 DEF FetchListing, AtPage, Listings
  <2> DEFINE list == favorites[IF stage = "exports" THEN "playlists" ELSE stage]
             page == Page(list, listing.offset)
  <2>2. /\ DOMAIN listing'.page = DOMAIN page
        /\ \A j \in DOMAIN page : /\ listing'.page[j].of = list[listing.offset + j]
                                  /\ listing.offset + j \in DOMAIN list
    BY <1>6, ListedPage
  <2>3. IsInjective(list)
    BY <1>1, <1>6 DEF FetchListing, DistinctFavorites, Sources
  <2>4. listing.offset \in Nat /\ DOMAIN page \subseteq Nat
    <3>1. list \in Seq(Collections) /\ listing.offset \in Nat
      BY <1>6, FavoritesTyped DEF FetchListing, Listings, CacheInv, LibraryTyped, Listing
    <3>2. page \in Seq(Collections)
      BY <3>1, PageTyped
    <3>3. QED BY <3>1, <3>2
  <2> HIDE DEF list, page
  <2>5. ASSUME NEW i \in DOMAIN page, NEW j \in DOMAIN page, listing'.page[i].of = listing'.page[j].of
        PROVE  i = j
    <3>1. listing.offset + i = listing.offset + j
      BY <2>2, <2>3, <2>5 DEF IsInjective
    <3>2. QED BY <2>4, <3>1
  <2>6. QED BY <2>1, <2>2, <2>5
<1>7. CASE listing.page # <<>> /\ listing' = [listing EXCEPT !.page = Tail(@)] /\ stage' = stage
           /\ (reading' = Closed \/ reading'.of = Head(listing.page).of)
  <2>1. OncePerPage'
    <3>1. SUFFICES ASSUME NEW i \in DOMAIN listing'.page, NEW j \in DOMAIN listing'.page,
                          listing'.page[i].of = listing'.page[j].of
                   PROVE  i = j
      OBVIOUS
    <3>2. /\ i \in Nat /\ i + 1 \in DOMAIN listing.page /\ listing'.page[i] = listing.page[i + 1]
          /\ j \in Nat /\ j + 1 \in DOMAIN listing.page /\ listing'.page[j] = listing.page[j + 1]
      BY <1>7, HeadAndTail
    <3>3. i + 1 = j + 1
      BY <1>1, <3>1, <3>2
    <3>4. QED BY <3>2, <3>3
  <2>2. NotInHand'
    BY <1>1, <1>7, HeadAndTail
  <2>3. InListing'
    BY <1>1, <1>7
  <2>4. QED BY <2>1, <2>2, <2>3
<1>8. CASE UNCHANGED <<stage, listing>> /\ (reading' = Closed \/ (reading # Closed /\ reading'.of = reading.of))
  BY <1>1, <1>8
<1>9. CASE UserStep \/ UNCHANGED vars
  <2>1. UNCHANGED <<stage, listing, reading>>
    BY <1>9 DEF UserStep, Unfavorite, Favorite, AddToPlaylist, TakeFromPlaylist, Rename,
       RaiseTier, Grow,
                Shrink, vars, streamVars
  <2>2. QED BY <1>3, <2>1
<1>10. CASE Begin
  BY <1>4, <1>10 DEF Begin, IdleIsReset, streamVars
<1>11. CASE ServeCached \/ OpenCollection
  <2>1. /\ listing.page # <<>> /\ listing' = [listing EXCEPT !.page = Tail(@)] /\ stage' = stage
        /\ (reading' = Closed \/ reading'.of = Head(listing.page).of)
    BY <1>11 DEF ServeCached, OpenCollection, AtCollection
  <2>2. QED BY <1>7, <2>1
<1>12. CASE FetchItems \/ PutCollection \/ WriteExport
  <2>1. reading \in Reading
    BY DEF CacheInv, LibraryTyped
  <2>2. CASE FetchItems
    <3>1. UNCHANGED <<stage, listing>> /\ reading # Closed /\ reading'.of = reading.of
      BY <2>1, <2>2 DEF FetchItems, Reading
    <3>2. QED BY <1>8, <3>1
  <2>3. CASE PutCollection \/ WriteExport
    BY <1>8, <2>3 DEF PutCollection, WriteExport
  <2>4. QED BY <1>12, <2>2, <2>3
<1>13. CASE PutCollectionFails \/ EndListing \/ Download \/ Reconcile \/ PruneOrphans
            \/ WriteFavorites \/ Abort
  BY <1>4, <1>13 DEF PutCollectionFails, EndListing, Download, Reconcile, PruneOrphans,
     WriteFavorites, Abort, Go
<1>14. QED BY <1>5, <1>6, <1>9, <1>10, <1>11, <1>12, <1>13 DEF Next, CycleStep

(* An edit during a cycle is an edit the cycle will know of. *)
LEMMA Undisturbed ==
    ASSUME [Next]_vars, IdleIsReset, stage' \in Gathering, changed' = "no"
    PROVE  UNCHANGED <<favorites, playlist>> /\ changed = "no"
<1>1. ~Go("exports") /\ ~Go("favorites") /\ ~Go("idle") /\ stage' # "idle"
  BY DEF Go, Gathering, Sources
<1>2. CASE UserStep
  <2>1. CASE RaiseTier
    BY <1>1, <2>1 DEF RaiseTier
  <2>2. CASE Grow
    BY <1>1, <2>2 DEF Grow
  <2>3. CASE Shrink
    BY <1>1, <2>3 DEF Shrink
  <2>4. QED BY <1>2, <2>1, <2>2, <2>3 DEF UserStep, Unfavorite, Favorite, AddToPlaylist,
          TakeFromPlaylist, Rename
<1>3. CASE UNCHANGED vars
  BY <1>3 DEF vars, remoteVars, history
<1>4. CASE CycleStep \/ Abort
  <2>1. UNCHANGED <<favorites, playlist>>
    BY <1>4 DEF CycleStep, Begin, CollectFavorites, FetchListing, ServeCached, OpenCollection,
       FetchItems,
      PutCollection, PutCollectionFails, EndListing, Download, Reconcile, WriteExport, PruneOrphans,
      WriteFavorites, Abort, remoteVars
  <2>2. changed = "no"
    <3>1. CASE Begin
      BY <3>1 DEF Begin, IdleIsReset
    <3>2. CASE EndListing \/ Download
      <4>1. \E s : Go(s)
        BY <3>2 DEF EndListing, Download
      <4>2. QED BY <1>1, <4>1 DEF Go, history
    <3>3. CASE PutCollectionFails \/ Reconcile \/ PruneOrphans \/ WriteFavorites \/ Abort
      <4>1. Go("idle") \/ \E s \in {"reconcile", "exports", "favorites"} : Go(After(s))
        BY <3>3 DEF PutCollectionFails, Reconcile, PruneOrphans, WriteFavorites, Abort
      <4>2. QED BY <1>1, <4>1, LaterPhases
    <3>4. CASE CollectFavorites \/ FetchListing \/ ServeCached \/ OpenCollection \/ FetchItems
               \/ PutCollection \/ WriteExport
      BY <3>4 DEF CollectFavorites, FetchListing, ServeCached, OpenCollection, FetchItems,
         PutCollection,
                  WriteExport, history
    <3>5. QED BY <1>4, <3>1, <3>2, <3>3, <3>4 DEF CycleStep
  <2>3. QED BY <2>1, <2>2
<1>5. QED BY <1>2, <1>3, <1>4 DEF Next

(* While nothing was edited, the page and the reading are of present favorites.    *)
LEMMA PresentStep == CacheInv /\ IdleIsReset /\ ListedIsPresent /\ [Next]_vars => ListedIsPresent'
<1> SUFFICES ASSUME CacheInv, IdleIsReset, ListedIsPresent, [Next]_vars, stage' \in Listings, changed' = "no"
             PROVE  ListedIsPresent'
  BY DEF ListedIsPresent
<1>1. UNCHANGED <<favorites, playlist>> /\ changed = "no"
  BY Undisturbed DEF Gathering, Listings, Sources
<1> DEFINE Present(c, v, s) == c \in ToSet(favorites[s]) /\ Unedited(c, v)
           ListedPresent == \A i \in DOMAIN listing.page :
                               Present(listing.page[i].of, listing.page[i].version, stage)
           ReadPresent == reading # Closed => reading.of \in ToSet(favorites[stage])
<1>2. stage \in Listings => ListedPresent /\ ReadPresent
  BY <1>1 DEF ListedIsPresent
<1>3. \A c, v, s : Present(c, v, s)' <=> c \in ToSet(favorites[s']) /\ Unedited(c, v')
  BY <1>1, StillBehind
<1>4. SUFFICES ListedPresent' /\ ReadPresent'
  BY DEF ListedIsPresent
<1>5. CASE listing' = Unread /\ reading' = Closed
  BY <1>5 DEF Unread
<1>6. CASE UNCHANGED <<stage, listing>> /\ (reading' = Closed \/ (reading # Closed /\ reading'.of = reading.of))
  BY <1>1, <1>2, <1>6, StillBehind
<1>7. CASE stage' # stage
  <2>1. (stage = "idle" /\ Begin) \/ EndListing
    BY <1>7, StageMoves DEF Listings
  <2>2. listing' = Unread /\ reading' = Closed
    BY <2>1 DEF Begin, EndListing, Go, IdleIsReset, streamVars
  <2>3. QED BY <1>5, <2>2
<1>8. CASE stage' = stage /\ FetchListing
  <2>1. reading' = Closed
    BY <1>8 DEF FetchListing, AtPage
  <2>2. stage # "exports"
    BY <1>8 DEF Listings
  <2>3. \A j \in DOMAIN listing'.page : \E x \in Collections : /\ x \in ToSet(favorites[stage])
                                                              /\ listing'.page[j] = Entry(x) /\ Entry(x).of = x
    BY <1>8, <2>2, ListedPage
  <2>4. \A x \in Collections : Unedited(x, Entry(x).version)
    BY DEF Entry, Unedited, Collections
  <2>5. \A j \in DOMAIN listing'.page : /\ listing'.page[j].of \in ToSet(favorites[stage])
                                        /\ Unedited(listing'.page[j].of, listing'.page[j].version)
    BY <2>3, <2>4
  <2>6. QED BY <1>1, <1>8, <2>1, <2>5, StillBehind
<1>9. CASE stage' = stage /\ (ServeCached \/ OpenCollection)
  <2>1. listing.page # <<>> /\ listing' = [listing EXCEPT !.page = Tail(@)]
        /\ (reading' = Closed \/ reading'.of = Head(listing.page).of)
    BY <1>9 DEF ServeCached, OpenCollection, AtCollection
  <2>2. ListedPresent
    BY <1>2, <1>9
  <2>3. \A i \in DOMAIN listing'.page : Present(listing'.page[i].of, listing'.page[i].version, stage)
    BY <2>1, <2>2, HeadAndTail
  <2>4. Head(listing.page).of \in ToSet(favorites[stage])
    BY <2>1, <2>2, HeadAndTail
  <2>5. QED BY <1>1, <1>9, <2>1, <2>3, <2>4, StillBehind
<1>10. CASE stage' = stage /\ (FetchItems \/ PutCollection \/ UNCHANGED vars)
  <2>1. reading \in Reading
    BY DEF CacheInv, LibraryTyped
  <2>2. UNCHANGED listing
    BY <1>10 DEF FetchItems, PutCollection, vars, streamVars
  <2>3. reading' = reading \/ reading' = Closed \/ (reading # Closed /\ reading'.of = reading.of)
    <3>1. CASE FetchItems
      <4>1. reading # Closed /\ reading'.of = reading.of
        BY <2>1, <3>1 DEF FetchItems, Reading
      <4>2. QED BY <4>1
    <3>2. CASE PutCollection
      BY <3>2 DEF PutCollection
    <3>3. CASE UNCHANGED vars
      BY <3>3 DEF vars, streamVars
    <3>4. QED BY <1>10, <3>1, <3>2, <3>3
  <2>4. CASE reading' = reading
    BY <1>1, <1>2, <1>10, <2>2, <2>4, StillBehind
  <2>5. QED BY <1>6, <1>10, <2>2, <2>3, <2>4
<1>11. CASE stage' = stage /\ UserStep
  <2>1. \/ RaiseTier \/ Grow \/ Shrink
    BY <1>11 DEF UserStep, Unfavorite, Favorite, AddToPlaylist, TakeFromPlaylist, Rename
  <2>2. QED BY <1>1, <1>11, <2>1 DEF RaiseTier, Grow, Shrink, Listings
<1>12. CASE stage' = stage /\ (EndListing \/ PutCollectionFails \/ Abort)
  BY <1>5, <1>12 DEF EndListing, PutCollectionFails, Abort, Go
<1>13. CASE stage' = stage /\ (Begin \/ CollectFavorites \/ WriteExport \/ Download \/ Reconcile
                               \/ PruneOrphans \/ WriteFavorites)
  BY <1>13 DEF Begin, CollectFavorites, WriteExport, Download, Reconcile, PruneOrphans,
     WriteFavorites, Listings
<1>14. QED BY <1>7, <1>8, <1>9, <1>10, <1>11, <1>12, <1>13 DEF Next, CycleStep

(* While nothing was edited, every track gathered is one the scope asks for. *)
LEMMA NothingElseStep ==
    CacheInv /\ CourseInv /\ ListedIsPresent /\ NothingElse /\ [Next]_vars => NothingElse'
<1> SUFFICES ASSUME CacheInv, CourseInv, ListedIsPresent, NothingElse, [Next]_vars,
                    stage' \in Gathering, changed' = "no"
             PROVE  Desired' \subseteq Wanted' /\ steady' = Wanted'
  BY DEF NothingElse
<1>1. UNCHANGED <<favorites, playlist>> /\ changed = "no" /\ IdleIsReset /\ InScope /\ TypeOK
  BY Undisturbed DEF CourseInv
<1>2. Wanted' = Wanted
  BY <1>1 DEF Wanted, Items
<1>3. stage \in Gathering => Desired \subseteq Wanted /\ steady = Wanted
  BY <1>1 DEF NothingElse
<1> DEFINE Adds == \A t \in Tracks : dst'[t] # "absent" => dst[t] # "absent" \/ t \in Wanted
<1>4. ASSUME stage \in Gathering, steady' = steady, Adds
      PROVE  Desired' \subseteq Wanted' /\ steady' = Wanted'
  BY <1>2, <1>3, <1>4 DEF Desired
<1>5. ASSUME NEW k \in Scope, NEW x \in ToSet(favorites[k]), NEW t \in Holds(k, x)
      PROVE  t \in Wanted
  BY <1>5, WantedIsVia DEF Via
<1>6. CASE stage' # stage
  <2>1. CASE stage = "idle" /\ Begin
    <3>1. steady' = Wanted /\ dst' = Nothing
      BY <1>1, <2>1 DEF Begin, IdleIsReset, setVars
    <3>2. Desired' = {}
      BY <3>1 DEF Desired, Nothing
    <3>3. QED BY <1>2, <3>1, <3>2
  <2>2. CASE EndListing \/ Download
    <3>1. stage \in Gathering
      BY <2>2 DEF EndListing, Download, Gathering
    <3>2. \E s : Go(s)
      BY <2>2 DEF EndListing, Download
    <3>3. dst' = dst /\ steady' = steady
      BY <3>2 DEF Go, setVars, history, Gathering, Sources
    <3>4. QED BY <1>4, <3>1, <3>3
  <2>3. QED BY <1>1, <1>6, <2>1, <2>2, StageMoves DEF Gathering, Sources
<1>7. CASE stage' = stage
  <2>1. stage \in Gathering
    BY <1>7
  <2>2. CASE CollectFavorites
    <3>1. stage = "tracks" /\ "tracks" \in Scope
      BY <1>1, <2>2 DEF CollectFavorites, InScope, Sources
    <3> DEFINE page == Page(favorites.tracks, listing.offset)
    <3>2. favorites.tracks \in Seq(Tracks) /\ listing.offset \in Nat
      BY <1>1 DEF TypeOK, Favorites
    <3>3. \A j \in DOMAIN page : page[j] \in ToSet(favorites.tracks)
      BY <3>2, PageCovers DEF ToSet
    <3>4. ToSet(page) \subseteq ToSet(favorites.tracks)
      BY <3>3 DEF ToSet
    <3>5. \A t \in ToSet(favorites.tracks) : t \in Wanted
      BY <1>5, <3>1 DEF Holds
    <3>6. dst' = [t \in Tracks |-> IF t \in ToSet(page) THEN "full" ELSE dst[t]] /\ steady' = steady
      BY <2>2 DEF CollectFavorites, history
    <3> HIDE DEF page
    <3>7. Adds
      BY <3>4, <3>5, <3>6
    <3>8. QED BY <1>4, <2>1, <3>6, <3>7
  <2>3. CASE ServeCached
    <3> DEFINE e == listing.page[1]
    <3>1. /\ stage \in Listings /\ listing.page # <<>> /\ listing' = [listing EXCEPT !.page = Tail(@)]
          /\ Head(listing.page) = e /\ 1 \in DOMAIN listing.page /\ e \in Entries
      <4>1. stage \in Listings /\ listing.page # <<>> /\ listing' = [listing EXCEPT !.page = Tail(@)]
        BY <2>3 DEF ServeCached, FromCache, AtCollection, Listings
      <4>2. QED BY <4>1, HeadAndTail
    <3>2. /\ Valid(e) /\ steady' = steady
          /\ dst' = [t \in Tracks |-> IF t \in cache[e.of].ids /\ dst[t] = "absent" THEN "stub" ELSE dst[t]]
      BY <2>3, <3>1 DEF ServeCached, FromCache, history
    <3>3. e.of \in ToSet(favorites[stage]) /\ Unedited(e.of, e.version) /\ e.of \in Collections
      BY <1>1, <3>1 DEF ListedIsPresent, Entries
    <3>4. cache[e.of].ids = ToSet(Items(e.of))
      <4>1. cache[e.of].cached /\ Unedited(e.of, cache[e.of].version)
        BY <3>2, <3>3 DEF Valid, LastUpdated, Unedited
      <4>2. QED BY <3>3, <4>1 DEF CacheInv, RowsAreExact
    <3>5. stage \in Scope /\ stage # "tracks"
      BY <1>1, <3>1 DEF InScope, Listings, Sources
    <3> HIDE DEF e
    <3>6. \A t \in cache[e.of].ids : t \in Wanted
      BY <1>5, <3>3, <3>4, <3>5 DEF Holds
    <3>7. Adds
      BY <3>2, <3>6
    <3>8. QED BY <1>4, <2>1, <3>2, <3>7
  <2>4. CASE FetchItems
    <3>1. stage \in Listings /\ reading # Closed
      <4>1. reading # Closed
        BY <2>4 DEF FetchItems
      <4>2. QED BY <2>1, <4>1 DEF CourseInv, OneAtATime, Gathering, Listings, Sources
    <3>2. reading.of \in ToSet(favorites[stage])
      BY <1>1, <3>1 DEF ListedIsPresent
    <3>3. reading.of \in Collections /\ reading.offset \in Nat
      BY <3>1 DEF CacheInv, ReadingIsPrefix, LibraryTyped, Reading
    <3>4. stage \in Scope /\ stage # "tracks"
      BY <1>1, <3>1 DEF InScope, Listings, Sources
    <3> DEFINE list == Items(reading.of)
               page == Page(list, reading.offset)
    <3>5. list \in Seq(Tracks)
      BY <3>3, ItemsTyped
    <3>6. \A t \in ToSet(list) : t \in Wanted
      BY <1>5, <3>2, <3>4 DEF Holds
    <3>7. dst' = [t \in Tracks |-> IF stage # "exports" /\ t \in ToSet(page) THEN "full" ELSE dst[t]]
          /\ steady' = steady
      BY <2>4 DEF FetchItems, history
    <3> HIDE DEF list
    <3>8. \A j \in DOMAIN page : page[j] \in ToSet(list)
      BY <3>3, <3>5, PageCovers DEF ToSet
    <3>9. ToSet(page) \subseteq ToSet(list)
      BY <3>8 DEF ToSet
    <3> HIDE DEF page
    <3>10. Adds
      BY <3>6, <3>7, <3>9
    <3>11. QED BY <1>4, <2>1, <3>7, <3>10
  <2>5. CASE FetchListing \/ OpenCollection \/ PutCollection \/ WriteExport \/ UNCHANGED vars
    <3>1. dst' = dst /\ steady' = steady
      BY <2>5 DEF FetchListing, OpenCollection, PutCollection, WriteExport, vars, setVars, history
    <3>2. QED BY <1>4, <2>1, <3>1
  <2>6. CASE UserStep
    <3>1. \/ RaiseTier \/ Grow \/ Shrink
      BY <2>6 DEF UserStep, Unfavorite, Favorite, AddToPlaylist, TakeFromPlaylist, Rename
    <3>2. QED BY <1>1, <2>1, <3>1 DEF RaiseTier, Grow, Shrink, Gathering, Sources
  <2>7. CASE EndListing \/ PutCollectionFails \/ Abort \/ Download
    <3>1. \E s : Go(s)
      BY <2>7 DEF EndListing, PutCollectionFails, Abort, Download
    <3>2. dst' = dst /\ steady' = steady
      BY <2>1, <1>7, <3>1 DEF Go, setVars, history, Gathering, Sources
    <3>3. QED BY <1>4, <2>1, <3>2
  <2>8. CASE Begin \/ Reconcile \/ PruneOrphans \/ WriteFavorites
    <3>1. CASE Begin \/ PruneOrphans \/ WriteFavorites
      BY <2>1, <3>1 DEF Begin, PruneOrphans, WriteFavorites, Gathering, Sources
    <3>2. CASE Reconcile
      BY <1>7, <3>2, LaterPhases DEF Reconcile, Go
    <3>3. QED BY <2>8, <3>1, <3>2
  <2>9. QED BY <2>2, <2>3, <2>4, <2>5, <2>6, <2>7, <2>8 DEF Next, CycleStep
<1>8. QED BY <1>6, <1>7

(* The edits after which everything that was in the library is still in it.        *)
Growth ==
    \/ \E t \in Tracks : Favorite("tracks", t)
    \/ \E a \in Albums : Favorite("albums", a)
    \/ \E p \in Playlists :
          \/ Favorite("playlists", p)
          \/ \E t \in Tracks : AddToPlaylist(p, t)
          \/ \E n \in Titles : Rename(p, n)

(* An edit that takes nothing away leaves nothing nearer to the beginning of its list. *)
LEMMA GrowsOnward ==
    ASSUME CacheInv, Growth
    PROVE  /\ \A k \in Sources, n \in Nat : Rest(favorites[k], n) \subseteq Rest(favorites'[k], n)
           /\ \A c \in Collections, n \in Nat : Rest(Items(c), n) \subseteq Rest(Items(c)', n)
<1> DEFINE Lists == \A k \in Sources, n \in Nat : Rest(favorites[k], n) \subseteq Rest(favorites'[k], n)
           Things == \A c \in Collections, n \in Nat : Rest(Items(c), n) \subseteq Rest(Items(c)', n)
<1>1. favorites = [k \in Sources |-> favorites[k]]
  BY DEF CacheInv, LibraryTyped, Favorites, Sources
<1>2. ASSUME NEW k \in Sources, NEW S, favorites[k] \in Seq(S), NEW x \in S, Favorite(k, x)
      PROVE  Lists
  <2>1. PICK i \in 1 .. Len(favorites[k]) + 1 :
           favorites' = [favorites EXCEPT ![k] = InsertAt(favorites[k], i, x)]
    BY <1>2 DEF Favorite
  <2>2. \A n \in Nat : Rest(favorites[k], n) \subseteq Rest(InsertAt(favorites[k], i, x), n)
    BY <1>2, InsertKeepsRest
  <2>3. /\ favorites'[k] = InsertAt(favorites[k], i, x)
        /\ \A m \in Sources : m # k => favorites'[m] = favorites[m]
    BY <1>1, <2>1
  <2>4. QED BY <2>2, <2>3
<1>3. ASSUME UNCHANGED playlist PROVE Things
  BY <1>3, StillBehind
<1>4. ASSUME NEW p \in Playlists, NEW title, NEW items, Revise(p, title, items),
             \A n \in Nat : Rest(playlist[p].items, n) \subseteq Rest(items, n)
      PROVE  Lists /\ Things
  <2>1. favorites' = favorites
    BY <1>4 DEF Revise
  <2>2. playlist'[p].items = items /\ \A q \in Playlists : q # p => playlist'[q] = playlist[q]
    <3>1. playlist \in [Playlists -> Playlist]
      BY DEF CacheInv, LibraryTyped
    <3>2. QED BY <1>4, <3>1 DEF Revise
  <2>3. ASSUME NEW c \in Collections, NEW n \in Nat
        PROVE  Rest(Items(c), n) \subseteq Rest(Items(c)', n)
    <3>1. CASE c \in Albums
      BY <3>1 DEF Items
    <3>2. CASE c \notin Albums
      <4>1. c \in Playlists /\ Items(c) = playlist[c].items /\ Items(c)' = playlist'[c].items
        BY <3>2 DEF Items, Collections
      <4>2. QED BY <1>4, <2>2, <4>1
    <3>3. QED BY <3>1, <3>2
  <2>4. QED BY <2>1, <2>3
<1>5. ASSUME NEW p \in Playlists, NEW t \in Tracks, AddToPlaylist(p, t)
      PROVE  Lists /\ Things
  <2>1. playlist[p].items \in Seq(Tracks)
    BY DEF CacheInv, LibraryTyped, Playlist
  <2>2. PICK i \in 1 .. Len(playlist[p].items) + 1 :
           Revise(p, playlist[p].title, InsertAt(playlist[p].items, i, t))
    BY <1>5 DEF AddToPlaylist
  <2>3. \A n \in Nat : Rest(playlist[p].items, n) \subseteq Rest(InsertAt(playlist[p].items, i, t), n)
    BY <2>1, InsertKeepsRest
  <2>4. QED BY <1>4, <2>2, <2>3
<1>6. ASSUME NEW p \in Playlists, NEW n \in Titles, Rename(p, n)
      PROVE  Lists /\ Things
  BY <1>4, <1>6 DEF Rename
<1>7. /\ \A t \in Tracks : Favorite("tracks", t) => Lists
      /\ \A a \in Albums : Favorite("albums", a) => Lists
      /\ \A p \in Playlists : Favorite("playlists", p) => Lists
  BY <1>2, FavoritesTyped DEF Sources
<1>8. /\ \A t \in Tracks : Favorite("tracks", t) => UNCHANGED playlist
      /\ \A a \in Albums : Favorite("albums", a) => UNCHANGED playlist
      /\ \A p \in Playlists : Favorite("playlists", p) => UNCHANGED playlist
  BY DEF Favorite
<1>9. QED BY <1>3, <1>5, <1>6, <1>7, <1>8 DEF Growth

(* A list, from its beginning, is the whole of it: before a step and after it.     *)
LEMMA FavoritesWhole == CacheInv => \A m \in Sources : ToSet(favorites[m]) = Rest(favorites[m], 0)
BY FavoritesTyped, RestOfAll DEF Sources

LEMMA ItemsWhole == CacheInv => \A q \in Collections : ToSet(Items(q)) = Rest(Items(q), 0)
BY ItemsTyped, RestOfAll

LEMMA WholeAfterwards ==
    CacheInv' => /\ \A m \in Sources : ToSet(favorites'[m]) = Rest(favorites'[m], 0)
                 /\ \A q \in Collections : ToSet(Items(q)') = Rest(Items(q)', 0)
<1>1. CacheInv' => (\A m \in Sources : ToSet(favorites[m]) = Rest(favorites[m], 0))'
  BY FavoritesWhole, PTL
<1>2. CacheInv' => (\A q \in Collections : ToSet(Items(q)) = Rest(Items(q), 0))'
  BY ItemsWhole, PTL
<1>3. QED BY <1>1, <1>2

(* What holds a track still holds it after such an edit. *)
LEMMA HoldsOnward ==
    ASSUME CacheInv, CacheInv', Growth, NEW k \in Sources, NEW x \in ToSet(favorites[k]),
           NEW t \in Holds(k, x)
    PROVE  x \in ToSet(favorites'[k]) /\ t \in Holds(k, x)'
<1>1. x \in ToSet(favorites'[k])
  <2>1. ToSet(favorites[k]) = Rest(favorites[k], 0) /\ ToSet(favorites'[k]) = Rest(favorites'[k], 0)
    BY FavoritesWhole, WholeAfterwards
  <2>2. Rest(favorites[k], 0) \subseteq Rest(favorites'[k], 0)
    BY GrowsOnward
  <2>3. QED BY <2>1, <2>2
<1>2. t \in Holds(k, x)'
  <2>1. CASE k = "tracks"
    BY <2>1 DEF Holds
  <2>2. CASE k # "tracks"
    <3>1. favorites[k] \in Seq(Collections)
      BY <2>2, FavoritesTyped DEF Sources, Listings
    <3>2. x \in Collections
      BY <3>1 DEF ToSet
    <3>3. ToSet(Items(x)) = Rest(Items(x), 0) /\ ToSet(Items(x)') = Rest(Items(x)', 0)
      BY <3>2, ItemsWhole, WholeAfterwards
    <3>4. Rest(Items(x), 0) \subseteq Rest(Items(x)', 0)
      BY <3>2, GrowsOnward
    <3>5. QED BY <2>2, <3>3, <3>4 DEF Holds
  <2>3. QED BY <2>1, <2>2
<1>3. QED BY <1>1, <1>2

LEMMA RestIsIn == ASSUME NEW S, NEW s \in Seq(S), NEW n \in Nat PROVE Rest(s, n) \subseteq ToSet(s)
BY DEF Rest, ToSet

(* An edit that takes nothing away, wherever it falls between two pages, does not  *)
(* move what is still to come behind what was read.                                *)
LEMMA PendingOnward ==
    ASSUME CacheInv, CacheInv', Growth, NEW t, Pending(t)
    PROVE  Pending(t)'
<1>1. UNCHANGED <<cache, stage, listing, reading>>
  BY DEF Growth, Favorite, AddToPlaylist, Rename, Grow, diskVars, streamVars
<1>2. CASE Coming(t)
  <2>1. PICK k \in Ahead(stage) : \E x \in ToSet(favorites[k]) : t \in Holds(k, x)
    BY <1>2 DEF Coming, Via
  <2>2. k \in Sources /\ Ahead(stage)' = Ahead(stage)
    BY <1>1, <2>1 DEF Ahead, Sources
  <2>3. \E x \in ToSet(favorites'[k]) : t \in Holds(k, x)'
    BY <2>1, <2>2, HoldsOnward
  <2>4. QED BY <1>1, <2>1, <2>2, <2>3 DEF Coming, Via, Pending
<1>3. CASE Unlisted(t)
  <2>1. PICK k \in Sources : k = stage
    BY <1>3 DEF Unlisted
  <2>2. k \in Sources /\ ~listing.last /\ listing.offset \in Nat
    BY <1>3 DEF Unlisted, CacheInv, LibraryTyped, Listing
  <2>3. PICK x \in Rest(favorites[k], listing.offset) : t \in Holds(k, x)
    BY <1>3, <2>1 DEF Unlisted
  <2>4. x \in ToSet(favorites[k])
    BY <2>2, RestIsIn, FavoritesTyped DEF Sources
  <2>5. x \in Rest(favorites'[k], listing.offset)
    BY <2>2, <2>3, GrowsOnward
  <2>6. t \in Holds(k, x)'
    BY <2>2, <2>3, <2>4, HoldsOnward
  <2>7. k = stage' /\ listing' = listing
    BY <1>1, <2>1
  <2>8. Unlisted(t)'
    BY <2>2, <2>5, <2>6, <2>7 DEF Unlisted, Holds, Items
  <2>9. QED BY <2>8 DEF Pending
<1>4. CASE OnPage(t)
  <2>1. PICK i \in DOMAIN listing.page :
           /\ t \in ToSet(Items(listing.page[i].of))
           /\ Valid(listing.page[i]) => t \in cache[listing.page[i].of].ids
    BY <1>4 DEF OnPage
  <2>2. listing.page[i] \in Entries
    BY <2>1 DEF CacheInv, LibraryTyped, Listing
  <2>3. PICK c \in Collections : c = listing.page[i].of
    BY <2>2 DEF Entries
  <2>5. t \in ToSet(Items(c)')
    <3>1. Rest(Items(c), 0) \subseteq Rest(Items(c)', 0)
      BY GrowsOnward
    <3>2. ToSet(Items(c)) = Rest(Items(c), 0) /\ ToSet(Items(c)') = Rest(Items(c)', 0)
      BY ItemsWhole, WholeAfterwards
    <3>3. QED BY <2>1, <2>3, <3>1, <3>2
  <2>6. c = listing'.page[i].of /\ listing'.page[i] = listing.page[i]
    BY <1>1, <2>3
  <2>7. Valid(listing.page[i])' <=> Valid(listing.page[i])
    BY <1>1 DEF Valid, LastUpdated
  <2>8. t \in ToSet(Items(listing.page[i].of)')
    BY <2>5, <2>6 DEF Items
  <2>9. OnPage(t)'
    BY <1>1, <1>4, <2>1, <2>7, <2>8 DEF OnPage
  <2>10. QED BY <2>9 DEF Pending
<1>5. CASE InHand(t)
  <2>1. /\ stage \in Listings /\ reading # Closed /\ ~reading.done
        /\ t \in Rest(Items(reading.of), reading.offset)
    BY <1>5 DEF InHand
  <2>2. PICK c \in Collections : c = reading.of
    BY <2>1 DEF CacheInv, ReadingIsPrefix
  <2>3. reading.offset \in Nat
    BY DEF CacheInv, LibraryTyped, Reading
  <2>4. t \in Rest(Items(c)', reading.offset)
    BY <2>1, <2>2, <2>3, GrowsOnward
  <2>5. c = reading'.of
    BY <1>1, <2>2
  <2>6. InHand(t)'
    BY <1>1, <2>1, <2>4, <2>5 DEF InHand, Items
  <2>7. QED BY <2>6 DEF Pending
<1>6. QED BY <1>2, <1>3, <1>4, <1>5 DEF Pending

(* When a source is read to its end, its successor has everything still to come. *)
LEMMA NextSourceHasIt ==
    ASSUME CacheInv, UNCHANGED <<favorites, playlist>>, stage \in Sources \cup {"idle"},
           stage' = After(stage), listing' = Unread, NEW t, NEW k \in Ahead(stage), Via(k, t)
    PROVE  Pending(t)'
<1>1. Via(k, t)'
  BY DEF Via, Holds, Items
<1>2. CASE k \in Ahead(stage')
  BY <1>1, <1>2 DEF Pending, Coming, Ahead
<1>3. CASE k \notin Ahead(stage')
  <2>1. stage' = k /\ k \in Sources
    BY <1>3, NextSource DEF Ahead, Sources
  <2>2. PICK x \in ToSet(favorites[k]) : t \in Holds(k, x)
    BY DEF Via
  <2>3. x \in Rest(favorites[k], 0)
    BY <2>1, <2>2, FavoritesWhole
  <2>4. ~listing'.last /\ listing'.offset = 0
    BY DEF Unread
  <2>5. t \in Holds(k, x)'
    BY <2>2 DEF Holds, Items
  <2>6. Unlisted(t)'
    BY <2>1, <2>3, <2>4, <2>5 DEF Unlisted, Holds, Items
  <2>7. QED BY <2>6 DEF Pending
<1>4. QED BY <1>2, <1>3

(* What is pending after a step that only reads on. *)
LEMMA SameToCome ==
    ASSUME UNCHANGED <<favorites, playlist, stage>>, NEW t, Coming(t)
    PROVE  Pending(t)'
BY DEF Coming, Via, Holds, Items, Pending, Ahead

LEMMA SameUnlisted ==
    ASSUME UNCHANGED <<favorites, playlist, stage>>,
           listing'.offset = listing.offset, listing'.last = listing.last, NEW t, Unlisted(t)
    PROVE  Pending(t)'
BY DEF Unlisted, Holds, Items, Pending

LEMMA SameOnPage ==
    ASSUME UNCHANGED <<playlist, cache, stage>>, NEW t, stage \in Listings,
           NEW i, NEW j \in DOMAIN listing'.page, listing'.page[j] = listing.page[i],
           t \in ToSet(Items(listing.page[i].of)),
           Valid(listing.page[i]) => t \in cache[listing.page[i].of].ids
    PROVE  Pending(t)'
<1> DEFINE e == listing.page[i]
<1>1. PICK d : d = e
  OBVIOUS
<1>2. t \in ToSet(Items(d.of)) /\ (Valid(d) => t \in cache[d.of].ids)
  BY <1>1
<1>3. t \in ToSet(Items(d.of))' /\ (Valid(d)' => t \in cache'[d.of].ids)
  BY <1>2 DEF Items, Valid, LastUpdated
<1>4. listing'.page[j] = d
  BY <1>1
<1>5. OnPage(t)'
  BY <1>3, <1>4 DEF OnPage, Items, Valid, LastUpdated
<1>6. QED BY <1>5 DEF Pending

(* The steps of a cycle, one by one: what leaves the list it was to come by is     *)
(* desired from then on.                                                           *)
LEMMA BeginPends ==
    ASSUME CacheInv, IdleIsReset, Begin, stage' \in Gathering
    PROVE  StillPending'
<1>1. /\ UNCHANGED <<favorites, playlist>> /\ steady' = Wanted /\ stage' = After(stage)
      /\ stage \in Sources \cup {"idle"} /\ stage = "idle" /\ listing' = Unread
  BY DEF Begin, remoteVars, streamVars, IdleIsReset
<1>2. ASSUME NEW t \in Wanted PROVE Pending(t)'
  <2>1. PICK k \in Scope : Via(k, t)
    BY WantedIsVia
  <2>2. k \in Ahead(stage)
    BY <1>1 DEF Ahead
  <2>3. QED BY <1>1, <2>1, <2>2, NextSourceHasIt
<1>3. QED BY <1>1, <1>2 DEF StillPending

LEMMA EndListingPends ==
    ASSUME CacheInv, TypeOK, StillPending, EndListing
    PROVE  StillPending'
<1>1. /\ UNCHANGED <<favorites, playlist, dst, steady>> /\ stage' = After(stage)
      /\ stage \in Sources \cup {"idle"} /\ listing' = Unread /\ AtEnd
  <2>1. After(stage) \in Sources \cup {"download"}
    BY NextPhase DEF EndListing
  <2>2. QED BY <2>1 DEF EndListing, Go, setVars, history, remoteVars, Sources
<1>2. ASSUME NEW t, Pending(t) PROVE Pending(t)'
  <2>1. Coming(t)
    BY <1>1, <1>2 DEF Pending, Unlisted, OnPage, InHand, AtEnd
  <2>2. PICK k \in Ahead(stage) : Via(k, t)
    BY <2>1 DEF Coming
  <2>3. QED BY <1>1, <2>2, NextSourceHasIt
<1>3. QED BY <1>1, <1>2 DEF StillPending, Desired

(* After the last source nothing is to come, so everything is there.               *)
LEMMA DownloadPends ==
    ASSUME StillPending, Download
    PROVE  StillPending'
<1>1. \A t : ~Pending(t)
  BY DEF Download, Pending, Coming, Ahead, Unlisted, OnPage, InHand, Sources, Listings
<1>2. UNCHANGED <<dst, steady>>
  BY LaterPhases DEF Download, Go, setVars, history
<1>3. QED BY <1>1, <1>2 DEF StillPending, Desired

(* A step of the enumeration that gathers what it takes off the list. *)
LEMMA Gathers ==
    ASSUME StillPending, UNCHANGED steady, TypeOK,
           \A t \in Tracks : dst[t] # "absent" => dst'[t] # "absent",
           \A t \in steady : Pending(t) => t \in Desired' \/ Pending(t)'
    PROVE  StillPending'
BY DEF StillPending, Desired

LEMMA CollectPends ==
    ASSUME CacheInv, TypeOK, StillPending, CollectFavorites
    PROVE  StillPending'
<1> DEFINE list == favorites.tracks
           page == Page(list, listing.offset)
           next == listing.offset + Len(page)
<1>1. /\ UNCHANGED <<favorites, playlist, cache, stage, reading, steady>> /\ stage = "tracks"
      /\ dst' = [t \in Tracks |-> IF t \in ToSet(page) THEN "full" ELSE dst[t]]
      /\ listing' = [offset |-> next, page |-> <<>>, last |-> EndsAt(list, next, page)]
  BY DEF CollectFavorites, remoteVars, diskVars, history
<1>2. list \in Seq(Tracks) /\ listing.offset \in Nat
  BY DEF TypeOK, Favorites
<1> HIDE DEF list
<1>3. \A i \in listing.offset + 1 .. Len(list) :
         \/ i - listing.offset \in DOMAIN page /\ page[i - listing.offset] = list[i]
         \/ i \in next + 1 .. Len(list) /\ ~EndsAt(list, next, page)
  BY <1>2, PageCovers
<1> HIDE DEF page, next
<1>4. ASSUME NEW t, Pending(t) PROVE t \in Desired' \/ Pending(t)'
  <2>1. CASE Coming(t)
    BY <1>1, <2>1, SameToCome
  <2>2. CASE Unlisted(t)
    <3>1. PICK i \in listing.offset + 1 .. Len(list) : t = list[i]
      BY <1>1, <2>2 DEF Unlisted, Holds, Rest, list
    <3>2. t \in Tracks
      BY <1>2, <3>1
    <3>3. CASE i - listing.offset \in DOMAIN page /\ page[i - listing.offset] = list[i]
      <4>1. t \in ToSet(page)
        BY <3>1, <3>3 DEF ToSet
      <4>2. QED BY <1>1, <3>2, <4>1 DEF Desired
    <3>4. CASE i \in next + 1 .. Len(list) /\ ~EndsAt(list, next, page)
      <4>1. t \in Rest(list, next)
        BY <3>1, <3>4 DEF Rest
      <4>2. /\ stage' \in Sources /\ stage' = "tracks" /\ ~listing'.last /\ listing'.offset = next
            /\ favorites'["tracks"] = list
        BY <1>1, <3>4 DEF Sources, list
      <4>3. Unlisted(t)'
        BY <4>1, <4>2 DEF Unlisted, Holds
      <4>4. QED BY <4>3 DEF Pending
    <3>5. QED BY <1>3, <3>3, <3>4
  <2>3. ~OnPage(t) /\ ~InHand(t)
    BY <1>1 DEF OnPage, InHand, Listings
  <2>4. QED BY <1>4, <2>1, <2>2, <2>3 DEF Pending
<1>5. \A t \in Tracks : dst[t] # "absent" => dst'[t] # "absent"
  BY <1>1
<1>6. QED BY <1>1, <1>4, <1>5, Gathers

LEMMA FetchListingPends ==
    ASSUME CacheInv, TypeOK, StillPending, FetchListing, stage \in Listings
    PROVE  StillPending'
<1>1. PICK k \in Listings : k = stage
  OBVIOUS
<1> DEFINE list == favorites[k]
           page == Page(list, listing.offset)
           next == listing.offset + Len(page)
<1>2. /\ UNCHANGED <<favorites, playlist, cache, stage, reading, dst, steady>> /\ AtPage
  BY DEF FetchListing, remoteVars, diskVars, setVars, history
<1>3. /\ listing'.offset = next /\ listing'.last = EndsAt(list, next, page)
      /\ DOMAIN listing'.page = DOMAIN page
      /\ \A j \in DOMAIN page : /\ listing'.page[j] = Entry(page[j]) /\ Entry(page[j]).of = page[j]
                                /\ page[j] \in Collections
      /\ \A i \in listing.offset + 1 .. Len(list) :
            \/ i - listing.offset \in DOMAIN page /\ page[i - listing.offset] = list[i]
            \/ i \in next + 1 .. Len(list) /\ ~EndsAt(list, next, page)
  <2>1. list = favorites[IF stage = "exports" THEN "playlists" ELSE stage]
    BY <1>1 DEF Listings
  <2>2. QED BY <2>1, ListedPage
<1> HIDE DEF list, page, next
<1>4. ASSUME NEW t, Pending(t) PROVE t \in Desired' \/ Pending(t)'
  <2>1. CASE Coming(t)
    BY <1>2, <2>1, SameToCome
  <2>2. CASE Unlisted(t)
    <3>1. PICK i \in listing.offset + 1 .. Len(list) : t \in Holds(k, list[i])
      BY <1>1, <2>2 DEF Unlisted, Rest, list
    <3>2. t \in ToSet(Items(list[i]))
      BY <3>1 DEF Holds, Listings
    <3>3. CASE i - listing.offset \in DOMAIN page /\ page[i - listing.offset] = list[i]
      <4>1. PICK x \in Collections, j \in DOMAIN listing'.page :
               x = list[i] /\ listing'.page[j] = Entry(x) /\ Entry(x).of = x
        BY <1>3, <3>3
      <4>2. t \in ToSet(Items(x))
        BY <3>2, <4>1
      <4>3. Valid(Entry(x)) => t \in cache[x].ids
        <5>1. SUFFICES ASSUME Valid(Entry(x)) PROVE t \in cache[x].ids
          OBVIOUS
        <5>2. cache[x].cached /\ Unedited(x, cache[x].version)
          BY <4>1, <5>1 DEF Valid, LastUpdated, Unedited, Entry, Collections
        <5>3. QED BY <4>2, <5>2 DEF CacheInv, RowsAreExact
      <4>4. PICK e : e = Entry(x)
        OBVIOUS
      <4>5. e.of = x /\ (Valid(e)' => t \in cache'[x].ids) /\ t \in ToSet(Items(x)')
        BY <1>2, <4>1, <4>2, <4>3, <4>4 DEF Valid, LastUpdated, Items
      <4>6. stage' \in Listings /\ listing'.page[j] = e
        BY <1>2, <4>1, <4>4
      <4>7. OnPage(t)'
        BY <4>5, <4>6 DEF OnPage, Items, Valid, LastUpdated
      <4>8. QED BY <4>7 DEF Pending
    <3>4. CASE i \in next + 1 .. Len(list) /\ ~EndsAt(list, next, page)
      <4>1. list[i] \in Rest(list, next)
        BY <3>4 DEF Rest
      <4>2. /\ stage' \in Sources /\ stage' = k /\ ~listing'.last /\ listing'.offset = next
            /\ favorites'[k] = list
        BY <1>1, <1>2, <1>3, <3>4 DEF Sources, Listings, list
      <4>3. PICK x : x = list[i]
        OBVIOUS
      <4>4. t \in Holds(k, x)' /\ x \in Rest(list, next)
        BY <1>2, <3>1, <4>1, <4>3 DEF Holds, Items
      <4>5. Unlisted(t)'
        BY <4>2, <4>4 DEF Unlisted, Holds, Items
      <4>6. QED BY <4>5 DEF Pending
    <3>5. QED BY <1>3, <3>3, <3>4
  <2>3. ~OnPage(t) /\ ~InHand(t)
    BY <1>2 DEF AtPage, OnPage, InHand
  <2>4. QED BY <1>4, <2>1, <2>2, <2>3 DEF Pending
<1>5. QED BY <1>2, <1>4, Gathers

(* The marker of no reading is none.                                               *)
LEMMA ClosedIsNone == Closed.of \notin Collections
<1>1. Closed.of = {}
  BY DEF Closed
<1>2. QED BY <1>1, NoCollectionIsEmpty

(* The collection at the head of the page is dealt with. *)
LEMMA HeadDealtWith ==
    ASSUME CacheInv, TypeOK, StillPending, AtCollection,
           UNCHANGED <<favorites, playlist, cache, stage, steady>>,
           listing' = [listing EXCEPT !.page = Tail(@)],
           \A t \in Tracks : dst[t] # "absent" => dst'[t] # "absent",
           \A t \in Tracks :
              stage \in Listings /\ t \in ToSet(Items(listing.page[1].of))
              /\ (Valid(listing.page[1]) => t \in cache[listing.page[1].of].ids)
                 => t \in Desired' \/ Pending(t)'
    PROVE  StillPending'
<1>1. /\ listing'.offset = listing.offset /\ listing'.last = listing.last
      /\ \A i \in DOMAIN listing.page :
            i # 1 => i - 1 \in DOMAIN listing'.page /\ listing'.page[i - 1] = listing.page[i]
      /\ listing.page[1] \in Entries
  BY HeadAndTail DEF AtCollection
<1>2. ASSUME NEW t, Pending(t) PROVE t \in Desired' \/ Pending(t)'
  <2>1. CASE Coming(t)
    BY <2>1, SameToCome
  <2>2. CASE Unlisted(t)
    BY <1>1, <2>2, SameUnlisted
  <2>3. CASE OnPage(t)
    <3>1. PICK i \in DOMAIN listing.page :
             /\ t \in ToSet(Items(listing.page[i].of))
             /\ Valid(listing.page[i]) => t \in cache[listing.page[i].of].ids
      BY <2>3 DEF OnPage
    <3>2. stage \in Listings
      BY <2>3 DEF OnPage
    <3>3. CASE i = 1
      <4>1. listing.page[1].of \in Collections
        BY <1>1 DEF Entries
      <4>2. Items(listing.page[1].of) \in Seq(Tracks)
        BY <4>1, ItemsTyped
      <4>3. t \in Tracks
        BY <3>1, <3>3, <4>2 DEF ToSet
      <4>4. QED BY <3>1, <3>2, <3>3, <4>3
    <3>4. CASE i # 1
      <4>1. PICK j \in DOMAIN listing'.page : listing'.page[j] = listing.page[i]
        BY <1>1, <3>4
      <4>2. QED BY <3>1, <3>2, <4>1, SameOnPage
    <3>5. QED BY <3>3, <3>4
  <2>4. ~InHand(t)
    BY DEF AtCollection, InHand
  <2>5. QED BY <1>2, <2>1, <2>2, <2>3, <2>4 DEF Pending
<1>3. QED BY <1>2, Gathers

(* From the cache: a row that is valid at the present version holds all the items. *)
LEMMA ServeCachedPends ==
    ASSUME CacheInv, TypeOK, StillPending, ServeCached
    PROVE  StillPending'
<1> DEFINE e == listing.page[1]
<1>1. /\ AtCollection /\ listing' = [listing EXCEPT !.page = Tail(@)]
      /\ UNCHANGED <<favorites, playlist, cache, stage, steady>>
  BY DEF ServeCached, remoteVars, diskVars, history
<1>2. Head(listing.page) = e
  BY <1>1, HeadAndTail DEF AtCollection
<1>3. /\ Valid(e)
      /\ dst' = [t \in Tracks |-> IF t \in cache[e.of].ids /\ dst[t] = "absent" THEN "stub" ELSE dst[t]]
  BY <1>2 DEF ServeCached, FromCache
<1> HIDE DEF e
<1>4. \A t \in Tracks : t \in cache[e.of].ids => t \in Desired'
  BY <1>3 DEF Desired
<1>5. \A t \in Tracks : dst[t] # "absent" => dst'[t] # "absent"
  BY <1>3
<1>6. QED BY <1>1, <1>3, <1>4, <1>5, HeadDealtWith DEF e

(* From TIDAL: the items are to be read from their beginning.                      *)
LEMMA OpenCollectionPends ==
    ASSUME CacheInv, TypeOK, StillPending, OpenCollection
    PROVE  StillPending'
<1>1. /\ AtCollection /\ listing' = [listing EXCEPT !.page = Tail(@)]
      /\ UNCHANGED <<favorites, playlist, cache, stage, dst, steady>>
  BY DEF OpenCollection, remoteVars, diskVars, setVars, history
<1>2. Head(listing.page) = listing.page[1] /\ listing.page[1] \in Entries
  BY <1>1, HeadAndTail DEF AtCollection
<1>3. PICK c \in Collections : c = listing.page[1].of
  BY <1>2 DEF Entries
<1>4. reading'.of = c /\ reading'.offset = 0 /\ ~reading'.done
  BY <1>2, <1>3 DEF OpenCollection
<1>5. reading' # Closed
  BY <1>4, ClosedIsNone
<1>6. ASSUME NEW t \in Tracks, stage \in Listings, t \in ToSet(Items(listing.page[1].of))
      PROVE  Pending(t)'
  <2>1. t \in Rest(Items(c), 0)
    BY <1>3, <1>6, ItemsWhole
  <2>2. InHand(t)'
    BY <1>1, <1>4, <1>5, <1>6, <2>1 DEF InHand, Items
  <2>3. QED BY <2>2 DEF Pending
<1>7. QED BY <1>1, <1>6, HeadDealtWith

(* A page of the items is desired, and the next one begins where it ended.         *)
LEMMA FetchItemsPends ==
    ASSUME CacheInv, TypeOK, OneAtATime, StillPending, FetchItems, stage \in Gathering
    PROVE  StillPending'
<1>1. reading # Closed /\ stage \in Listings /\ stage # "exports"
  BY DEF FetchItems, OneAtATime, Gathering, Listings, Sources
<1>2. PICK c \in Collections : c = reading.of
  BY <1>1 DEF CacheInv, ReadingIsPrefix
<1> DEFINE list == Items(c)
           page == Page(list, reading.offset)
           next == reading.offset + Len(page)
<1>3. /\ UNCHANGED <<favorites, playlist, cache, stage, listing, steady>>
      /\ reading' = [reading EXCEPT !.offset = next, !.got = @ \o page, !.done = EndsAt(list, next, page)]
      /\ dst' = [t \in Tracks |-> IF t \in ToSet(page) THEN "full" ELSE dst[t]]
  BY <1>1, <1>2 DEF FetchItems, remoteVars, diskVars, history
<1>4. list \in Seq(Tracks) /\ reading \in Reading /\ reading.offset \in Nat
  BY ItemsTyped DEF CacheInv, LibraryTyped, Reading
<1>5. list = Items(c)' /\ \A t \in ToSet(list) : t \in Tracks
  BY <1>3, <1>4 DEF Items, ToSet
<1> HIDE DEF list
<1>6. \A i \in reading.offset + 1 .. Len(list) :
         \/ i - reading.offset \in DOMAIN page /\ page[i - reading.offset] = list[i]
         \/ i \in next + 1 .. Len(list) /\ ~EndsAt(list, next, page)
  BY <1>4, PageCovers
<1> HIDE DEF page, next
<1>7. reading'.of = c /\ reading'.offset = next /\ reading'.done = EndsAt(list, next, page)
  BY <1>2, <1>3, <1>4 DEF Reading
<1>8. reading' # Closed
  BY <1>7, ClosedIsNone
<1>9. ASSUME NEW t, Pending(t) PROVE t \in Desired' \/ Pending(t)'
  <2>1. CASE Coming(t)
    BY <1>3, <2>1, SameToCome
  <2>2. CASE Unlisted(t)
    BY <1>3, <2>2, SameUnlisted
  <2>3. CASE OnPage(t)
    <3>1. OnPage(t)'
      BY <1>3, <2>3 DEF OnPage, Items, Valid, LastUpdated
    <3>2. QED BY <3>1 DEF Pending
  <2>4. CASE InHand(t)
    <3>1. PICK i \in reading.offset + 1 .. Len(list) : t = list[i]
      BY <1>2, <2>4 DEF InHand, Rest, list
    <3>2. t \in Tracks
      BY <1>4, <3>1
    <3>3. CASE i - reading.offset \in DOMAIN page /\ page[i - reading.offset] = list[i]
      <4>1. t \in ToSet(page)
        BY <3>1, <3>3 DEF ToSet
      <4>2. QED BY <1>3, <3>2, <4>1 DEF Desired
    <3>4. CASE i \in next + 1 .. Len(list) /\ ~EndsAt(list, next, page)
      <4>1. t \in Rest(list, next)
        BY <3>1, <3>4 DEF Rest
      <4>2. t \in Rest(Items(c)', next) /\ ~reading'.done /\ stage' \in Listings
        BY <1>1, <1>3, <1>5, <1>7, <3>4, <4>1
      <4>3. InHand(t)'
        BY <1>7, <1>8, <4>2 DEF InHand, Items
      <4>4. QED BY <4>3 DEF Pending
    <3>5. QED BY <1>6, <3>3, <3>4
  <2>5. QED BY <1>9, <2>1, <2>2, <2>3, <2>4 DEF Pending
<1>10. \A t \in Tracks : dst[t] # "absent" => dst'[t] # "absent"
  BY <1>3
<1>11. QED BY <1>3, <1>9, <1>10, Gathers

(* The row that is written is of a collection that is not on the page. *)
LEMMA PutCollectionPends ==
    ASSUME CacheInv, TypeOK, OneAtATime, StillPending, PutCollection
    PROVE  StillPending'
<1>1. UNCHANGED <<favorites, playlist, stage, listing, dst, steady>> /\ reading.done /\ reading # Closed
  BY DEF PutCollection, remoteVars, setVars, history, Closed
<1>2. \A c \in Collections : c # reading.of => cache'[c] = cache[c]
  BY DEF PutCollection, CacheInv, LibraryTyped
<1>3. ASSUME NEW t, Pending(t) PROVE t \in Desired' \/ Pending(t)'
  <2>1. CASE Coming(t)
    BY <1>1, <2>1, SameToCome
  <2>2. CASE Unlisted(t)
    BY <1>1, <2>2, SameUnlisted
  <2>3. CASE OnPage(t)
    <3>1. PICK i \in DOMAIN listing.page :
             /\ t \in ToSet(Items(listing.page[i].of))
             /\ Valid(listing.page[i]) => t \in cache[listing.page[i].of].ids
      BY <2>3 DEF OnPage
    <3>2. PICK e \in Entries : e = listing.page[i]
      BY DEF CacheInv, LibraryTyped, Listing
    <3>3. e.of \in Collections /\ e.of # reading.of
      BY <1>1, <3>2 DEF OneAtATime, Entries
    <3>4. cache'[e.of] = cache[e.of]
      BY <1>2, <3>3
    <3>5. t \in ToSet(Items(e.of)') /\ (Valid(e)' => t \in cache'[e.of].ids)
      BY <1>1, <3>1, <3>2, <3>4 DEF Items, Valid, LastUpdated
    <3>6. i \in DOMAIN listing'.page /\ e = listing'.page[i] /\ stage' \in Listings
      BY <1>1, <2>3, <3>2 DEF OnPage
    <3>7. OnPage(t)'
      BY <3>5, <3>6 DEF OnPage, Items, Valid, LastUpdated
    <3>8. QED BY <3>7 DEF Pending
  <2>4. ~InHand(t)
    BY <1>1 DEF InHand
  <2>5. QED BY <1>3, <2>1, <2>2, <2>3, <2>4 DEF Pending
<1>4. QED BY <1>1, <1>3, Gathers

(* An edit during the enumeration either grows the library or is known as "shrunk".*)
LEMMA UserPends ==
    ASSUME CacheInv, CacheInv', IdleIsReset, SteadyIsPending, UserStep,
           stage' \in Gathering, changed' # "shrunk"
    PROVE  StillPending'
<1>1. stage # "idle"
  BY DEF UserStep, Unfavorite, Favorite, AddToPlaylist, TakeFromPlaylist, Rename, RaiseTier,
     Grow, Shrink,
         Gathering, Sources
<1>2. ~Shrink /\ ~RaiseTier
  BY <1>1 DEF Shrink, RaiseTier
<1>3. Growth
  BY <1>2 DEF UserStep, Growth, Unfavorite, TakeFromPlaylist
<1>4. Grow
  BY <1>3 DEF Growth, Favorite, AddToPlaylist, Rename
<1>5. UNCHANGED <<stage, dst, steady>> /\ changed # "shrunk"
  BY <1>4 DEF Grow, setVars
<1>6. StillPending
  BY <1>5 DEF SteadyIsPending
<1>7. QED BY <1>3, <1>5, <1>6, PendingOnward DEF StillPending, Desired

LEMMA SteadyStep == LibraryInv /\ CacheInv' /\ [Next]_vars => SteadyIsPending'
<1> SUFFICES ASSUME LibraryInv, CacheInv', [Next]_vars, stage' \in Gathering, changed' # "shrunk"
             PROVE  StillPending'
  BY DEF SteadyIsPending
<1>1. CacheInv /\ TypeOK /\ IdleIsReset /\ OneAtATime /\ SteadyIsPending
  BY DEF LibraryInv, CourseInv
<1>2. stage \in Gathering /\ changed # "shrunk" => StillPending
  BY <1>1 DEF SteadyIsPending
<1>3. ~Go("exports") /\ ~Go("favorites") /\ ~Go("idle")
  BY DEF Go, Gathering, Sources
<1>4. CASE UserStep
  BY <1>1, <1>4, UserPends
<1>5. CASE Begin
  BY <1>1, <1>5, BeginPends
<1>6. CASE EndListing
  <2>1. stage \in Gathering /\ changed' = changed
    BY <1>3, <1>6 DEF EndListing, Go, history, Gathering, Sources
  <2>2. QED BY <1>1, <1>2, <1>6, <2>1, EndListingPends
<1>7. CASE Download
  <2>1. stage \in Gathering /\ changed' = changed
    BY <1>3, <1>7 DEF Download, Go, history, Gathering, Sources
  <2>2. QED BY <1>1, <1>2, <1>7, <2>1, DownloadPends
<1>8. CASE CollectFavorites \/ FetchListing \/ ServeCached \/ OpenCollection \/ FetchItems
           \/ PutCollection
  <2>1. stage' = stage /\ changed' = changed
    BY <1>8 DEF CollectFavorites, FetchListing, ServeCached, OpenCollection, FetchItems,
       PutCollection, history
  <2>2. StillPending /\ stage \in Gathering
    BY <1>2, <2>1
  <2>3. FetchListing => stage \in Listings
    BY <2>2 DEF FetchListing, Gathering, Listings, Sources
  <2>4. QED
    BY <1>1, <1>8, <2>2, <2>3, CollectPends, FetchListingPends, ServeCachedPends,
       OpenCollectionPends,
       FetchItemsPends, PutCollectionPends
<1>9. ~WriteExport
  BY DEF WriteExport, Gathering, Sources
<1>10. ~PutCollectionFails /\ ~Abort /\ ~Reconcile /\ ~PruneOrphans /\ ~WriteFavorites
  BY <1>3, LaterPhases DEF PutCollectionFails, Abort, Reconcile, PruneOrphans, WriteFavorites
<1>11. CASE UNCHANGED vars
  <2>1. UNCHANGED <<favorites, playlist, cache, stage, listing, reading, dst, steady, changed>>
    BY <1>11 DEF vars, remoteVars, diskVars, streamVars, setVars, history
  <2>2. \A t : Pending(t) => Pending(t)'
    BY <2>1 DEF Pending, Coming, Via, Holds, Items, Unlisted, OnPage, Valid, LastUpdated, InHand
  <2>3. QED BY <1>2, <2>1, <2>2 DEF StillPending, Desired
<1>12. QED
  BY <1>4, <1>5, <1>6, <1>7, <1>8, <1>9, <1>10, <1>11 DEF Next, CycleStep

-------------------------------------------------------------------------------
(* The theorems.                                                                   *)

LEMMA WholeInit == Init => LibraryInv
<1> SUFFICES ASSUME Init PROVE LibraryInv
  OBVIOUS
<1>1. CacheInv
  BY LibraryInitInv
<1>2. IdleIsReset /\ InScope
  BY DEF Init, IdleIsReset, InScope, Sources
<1>3. OneAtATime
  BY FavoritesAreDistinct DEF Init, OneAtATime, Unread, Closed
<1>4. StubsAreSettled /\ ListedIsPresent /\ NothingElse /\ SteadyIsPending
  BY DEF Init, StubsAreSettled, ListedIsPresent, NothingElse, SteadyIsPending, Gathering,
         Sources, Listings
<1>5. TypeOK
  <2>1. favorites \in Favorites /\ playlist \in [Playlists -> Playlist] /\ cache \in [Collections -> Row]
        /\ listing \in Listing /\ reading \in Reading
    BY <1>1 DEF CacheInv, LibraryTyped
  <2>2. \A c \in Collections : cache[c].cached \in BOOLEAN /\ cache[c].ids \subseteq Tracks
    BY <2>1 DEF Row
  <2>3. /\ listing.offset \in Nat /\ listing.last \in BOOLEAN
        /\ reading.of \in Collections \cup {{}} /\ reading.got \in Seq(Tracks)
    BY <2>1 DEF Listing, Reading
  <2>4. /\ row \in [Tracks -> {"none", "stale", "settled", "refused"}] /\ files \subseteq Tracks
        /\ snapshot \in [Tracks -> {"absent", "undated", "dated"}]
        /\ dst \in [Tracks -> {"absent", "stub", "full"}] /\ dates \subseteq Tracks
        /\ stage = "idle" /\ dst = Nothing /\ dates = {}
        /\ edits \in 0 .. MaxEdits /\ faults \in 0 .. MaxFaults
    BY DEF Init, Nothing
  <2>5. QED BY <2>1, <2>2, <2>3, <2>4 DEF TypeOK
<1>6. QED BY <1>1, <1>2, <1>3, <1>4, <1>5 DEF LibraryInv, CourseInv

LEMMA WholeStep == LibraryInv /\ [Next]_vars => LibraryInv'
<1> SUFFICES ASSUME LibraryInv, [Next]_vars PROVE LibraryInv'
  OBVIOUS
<1>1. CacheInv /\ CourseInv /\ ListedIsPresent /\ NothingElse
      /\ TypeOK /\ IdleIsReset /\ InScope /\ OneAtATime /\ StubsAreSettled
  BY DEF LibraryInv, CourseInv
<1>2. CacheInv'
  BY <1>1, LibraryNextInv
<1>3. CourseInv'
  BY <1>1, <1>2, TypeStep, IdleStep, ScopeStep, OneStep, StubStep DEF CourseInv
<1>4. ListedIsPresent'
  BY <1>1, PresentStep
<1>5. NothingElse'
  BY <1>1, NothingElseStep
<1>6. SteadyIsPending'
  BY <1>2, SteadyStep
<1>7. QED BY <1>2, <1>3, <1>4, <1>5, <1>6 DEF LibraryInv

(* However edits, failures and cycles fall: everything the library kept since the   *)
(* cycle began is desired or still to come (enumerateFavorites), rows are exact,    *)
(* and the state of a cycle is what its phase says.                                 *)
THEOREM LibraryInvariant == Spec => []LibraryInv
BY WholeInit, WholeStep, PTL DEF Spec

(* Every variable keeps its type, and between two cycles no desired track is held.  *)
THEOREM LibraryTypeCorrect == Spec => []TypeOK
<1>1. LibraryInv => TypeOK
  BY DEF LibraryInv, CourseInv
<1>2. QED BY <1>1, LibraryInvariant, PTL

(* A track emitStubs put among the desired ones without metadata is one shouldSkip  *)
(* skips, until downloadAll is over: for any cache, scope and page size.            *)
THEOREM StubsStaySettled == Spec => []StubsAreSettled
<1>1. LibraryInv => StubsAreSettled
  BY DEF LibraryInv, CourseInv
<1>2. QED BY <1>1, LibraryInvariant, PTL

(* When every listing is read, no track is still to come.                           *)
LEMMA NothingPends == stage \in {"download", "reconcile"} => \A t : ~Pending(t)
BY DEF Pending, Coming, Ahead, Unlisted, OnPage, InHand, Sources, Listings

(* ... so the steady tracks are all desired.                                        *)
LEMMA GatheredAll == LibraryInv => NothingLost
BY NothingPends DEF LibraryInv, SteadyIsPending, StillPending, NothingLost, Gathering

(* Paging by offset while the user adds to the library loses no track that was in   *)
(* it when the cycle began: what downloadAll and Reconcile see holds all of them.   *)
THEOREM NothingIsLost == Spec => []NothingLost
BY GatheredAll, LibraryInvariant, PTL

(* An enumeration no edit fell into ends with exactly the tracks the scope asks for,*)
(* whichever collections were served from the cache.                                *)
THEOREM DesiredIsTheLibrary == Spec => []DesiredIsLibrary
<1>1. LibraryInv => DesiredIsLibrary
  BY GatheredAll DEF LibraryInv, NothingElse, NothingLost, DesiredIsLibrary, Gathering
<1>2. QED BY <1>1, LibraryInvariant, PTL

(* Only Reconcile removes files, and unless something was taken out of the library  *)
(* since the cycle began, never of a track that was in it all along.                *)
THEOREM RemovalsSpareTheSteady ==
    Spec => [][changed # "shrunk" => \A t \in files \ files' : t \notin steady]_vars
<1>1. LibraryInv /\ [Next]_vars => [changed # "shrunk" => \A t \in files \ files' : t \notin steady]_vars
  <2>1. SUFFICES ASSUME LibraryInv, Next, changed # "shrunk", NEW t \in files \ files' PROVE t \notin steady
    OBVIOUS
  <2>2. Reconcile
    <3>1. UserStep \/ Abort => UNCHANGED files
      BY DEF UserStep, Unfavorite, Favorite, AddToPlaylist, TakeFromPlaylist, Rename, RaiseTier,
         Grow, Shrink,
             Abort, diskVars
    <3>2. Download => files \subseteq files'
      BY DEF Download
    <3>3. CycleStep /\ ~Download /\ ~Reconcile => UNCHANGED files
      BY DEF CycleStep, Begin, CollectFavorites, FetchListing, ServeCached, OpenCollection,
         FetchItems,
        PutCollection, PutCollectionFails, EndListing, WriteExport, PruneOrphans, WriteFavorites, diskVars
    <3>4. QED BY <2>1, <3>1, <3>2, <3>3 DEF Next
  <2>3. t \notin Desired /\ stage = "reconcile"
    BY <2>1, <2>2 DEF Reconcile
  <2>4. steady \subseteq Desired
    BY <2>1, <2>3, GatheredAll DEF NothingLost
  <2>5. QED BY <2>3, <2>4
<1>2. QED BY <1>1, LibraryInvariant, PTL DEF Spec
===============================================================================
