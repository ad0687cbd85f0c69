------------------------------- MODULE Library -------------------------------
(***************************************************************************)
(* What one process reads of the user's TIDAL library, cycle after cycle,  *)
(* and what it leaves on disk for it: the paged favorites listings, the    *)
(* store-backed expansion cache of albums and playlists, the set of        *)
(* desired tracks, the removals it leads to and the .m3u8 exports          *)
(* (internal/sync/enumerate.go, collection_cache.go, playlist.go,          *)
(* favorites.go, internal/store/collection.go, pkg/tidal/favorites.go).    *)
(* The user edits the library between any two requests (at most MaxEdits   *)
(* times) and any request or write may fail (at most MaxFaults times).     *)
(*                                                                         *)
(* Abstractions.  Cycles do not overlap (SyncCycle models the lock).  The  *)
(* download of all desired tracks is one step, and so is the removal:      *)
(* SyncCycle models both.  A row is kept as what it decides here: whether  *)
(* it names a path and whether shouldSkip answers true.  A title matters   *)
(* only through the stem Sanitize gives it.                                *)
(***************************************************************************)
EXTENDS Naturals, FiniteSets, SequencesExt

CONSTANTS
    Tracks, Albums, Playlists,
    Songs,          \* Songs[a]: the tracks of album a, which never change
    Titles,         \* playlist titles
    Stem,           \* Stem[n]: the file stem Sanitize makes of title n
    FavoriteStem,   \* the stem of the favorites export, "Favorite Tracks"
    Scope,          \* the sources in scope
    Start,          \* the library before the first cycle
    PageSize,       \* items per page of a listing
    Unversioned,    \* playlists TIDAL reports without a lastUpdated
    Repeats,        \* whether a playlist may hold a track twice
    MaxEdits,       \* bound: edits of the library in one behavior
    MaxFaults       \* bound: faults in one behavior

Sources == {"tracks", "albums", "playlists"}
Collections == Albums \cup Playlists

Favorites == [tracks : Seq(Tracks), albums : Seq(Albums), playlists : Seq(Playlists)]
Playlist == [title : Titles, version : Nat, items : Seq(Tracks)]

ASSUME LibraryAssumption ==
    /\ Albums \cap Playlists = {}
    /\ Songs \in [Albums -> Seq(Tracks)]
    /\ Scope \subseteq Sources
    /\ Start.favorites \in Favorites
    /\ Start.playlist \in [Playlists -> Playlist]
    /\ PageSize \in Nat \ {0}
    /\ Repeats \in BOOLEAN
    /\ MaxEdits \in Nat /\ MaxFaults \in Nat

ASSUME OnlyPlaylistsAreVersioned == Unversioned \subseteq Playlists

(* TIDAL lists a favorite once. *)
ASSUME FavoritesAreDistinct == \A k \in Sources : IsInjective(Start.favorites[k])

(* The empty set stands for no collection (Closed). *)
ASSUME NoCollectionIsEmpty == {} \notin Collections

VARIABLES
    favorites,  \* favorites[k]: the user's favorites of source k, as TIDAL lists them
    playlist,   \* playlist[p]: its title, version (counting its edits) and items
    cache,      \* the rows of collection_cache and collection_track
    row,        \* row[t]: "none"; "stale", a path to be downloaded again; "settled";
                \* "refused", a permanent failure without a path
    files,      \* tracks whose audio file is in the music root
    snapshot,   \* the favorites_snapshot rows: "absent", "undated", "dated"
    exports,    \* exports[s]: what Playlists/s.m3u8 holds
    stage,      \* where the cycle stands
    listing,    \* the favorites stream being read
    reading,    \* the collection whose items are being read
    seen,       \* collections met in this listing, or stems written by this export
    dst,        \* the desired tracks: "absent", "stub" or "full" metadata
    dates,      \* tracks enumerated with a favorite-add date
    steady,     \* history: tracks in the library ever since the cycle began
    changed,    \* history: what became of the library since the cycle began
    edits, faults

remoteVars == <<favorites, playlist>>
diskVars == <<cache, row, files, snapshot, exports>>
streamVars == <<listing, reading, seen>>
setVars == <<dst, dates>>
history == <<steady, changed>>
vars == <<remoteVars, diskVars, stage, streamVars, setVars, history, edits, faults>>

Items(c) == IF c \in Albums THEN Songs[c] ELSE playlist[c].items
NotCached == [version |-> 0, ids |-> {}, cached |-> FALSE]
NoFile == [of |-> {}, items |-> <<>>]
Unread == [offset |-> 0, page |-> <<>>, last |-> FALSE]
Closed == [of |-> {}, version |-> 0, title |-> {}, offset |-> 0, got |-> <<>>, done |-> FALSE]
Settled == {t \in Tracks : row[t] \in {"settled", "refused"}}
Nothing == [t \in Tracks |-> "absent"]
Desired == {t \in Tracks : dst[t] # "absent"}

(* The tracks the scope asks for. *)
Wanted ==
    UNION {IF k = "tracks" THEN ToSet(favorites.tracks)
           ELSE UNION {ToSet(Items(c)) : c \in ToSet(favorites[k])} : k \in Scope}

TypeOK ==
    /\ favorites \in Favorites
    /\ playlist \in [Playlists -> Playlist]
    /\ DOMAIN cache = Collections
    /\ \A c \in Collections : cache[c].cached \in BOOLEAN /\ cache[c].ids \subseteq Tracks
    /\ row \in [Tracks -> {"none", "stale", "settled", "refused"}]
    /\ files \subseteq Tracks
    /\ snapshot \in [Tracks -> {"absent", "undated", "dated"}]
    /\ stage \in {"idle", "download", "reconcile", "exports", "favorites"} \cup Sources
    /\ listing.offset \in Nat /\ listing.last \in BOOLEAN
    /\ reading.of \in Collections \cup {{}} /\ reading.got \in Seq(Tracks)
    /\ dst \in [Tracks -> {"absent", "stub", "full"}] /\ dates \subseteq Tracks
    /\ stage = "idle" => dst = Nothing /\ dates = {}
    /\ edits \in 0 .. MaxEdits /\ faults \in 0 .. MaxFaults

Init ==
    /\ favorites = Start.favorites /\ playlist = Start.playlist
    /\ cache = [c \in Collections |-> NotCached]
    /\ row = [t \in Tracks |-> "none"] /\ files = {} /\ snapshot = Nothing
    /\ exports = [s \in Range(Stem) \cup {FavoriteStem} |-> NoFile]
    /\ stage = "idle"
    /\ listing = Unread /\ reading = Closed /\ seen = {}
    /\ dst = Nothing /\ dates = {}
    /\ steady = {} /\ changed = "no"
    /\ edits = 0 /\ faults = 0

(***************************************************************************)
(* The user's edits.  TIDAL gives a playlist a new lastUpdated with every  *)
(* edit; where a listing puts a new favorite is its own affair.            *)
(***************************************************************************)
Edit == edits < MaxEdits /\ edits' = edits + 1

(* Nothing that was in the library left it. *)
Grow ==
    /\ Edit
    /\ changed' = IF changed = "no" /\ stage # "idle" THEN "grown" ELSE changed
    /\ UNCHANGED <<diskVars, stage, streamVars, setVars, steady, faults>>

Shrink ==
    /\ Edit
    /\ changed' = IF stage = "idle" THEN "no" ELSE "shrunk"
    /\ steady' = steady \cap Wanted'
    /\ UNCHANGED <<diskVars, stage, streamVars, setVars, faults>>

Favorite(k, x) ==
    /\ x \notin ToSet(favorites[k])
    /\ \E i \in 1 .. Len(favorites[k]) + 1 :
          favorites' = [favorites EXCEPT ![k] = InsertAt(@, i, x)]
    /\ UNCHANGED playlist
    /\ Grow

Unfavorite(k) ==
    /\ \E i \in DOMAIN favorites[k] :
          favorites' = [favorites EXCEPT ![k] = RemoveAt(@, i)]
    /\ UNCHANGED playlist
    /\ Shrink

Revise(p, title, items) ==
    /\ playlist' = [playlist EXCEPT
          ![p] = [title |-> title, version |-> @.version + 1, items |-> items]]
    /\ UNCHANGED favorites

AddToPlaylist(p, t) ==
    /\ Repeats \/ t \notin ToSet(playlist[p].items)
    /\ \E i \in 1 .. Len(playlist[p].items) + 1 :
          Revise(p, playlist[p].title, InsertAt(playlist[p].items, i, t))
    /\ Grow

TakeFromPlaylist(p) ==
    /\ \E i \in DOMAIN playlist[p].items :
          Revise(p, playlist[p].title, RemoveAt(playlist[p].items, i))
    /\ Shrink

Rename(p, title) ==
    /\ title # playlist[p].title
    /\ Revise(p, title, playlist[p].items)
    /\ Grow

(* The user raises quality.request: no track is settled at the new tier.  The
   file is read when a cycle starts. *)
RaiseTier ==
    /\ stage = "idle"
    /\ Settled # {}
    /\ row' = [t \in Tracks |-> CASE row[t] = "settled" -> "stale"
                                  [] row[t] = "refused" -> "none"
                                  [] OTHER -> row[t]]
    /\ Edit
    /\ UNCHANGED <<remoteVars, cache, files, snapshot, exports, stage, streamVars, setVars,
                   history, faults>>

(***************************************************************************)
(* The course of a cycle.                                                  *)
(***************************************************************************)
Course == <<"tracks", "albums", "playlists", "download", "reconcile", "exports", "favorites", "idle">>

(* enumerateFavorites and executeSync skip what the scope leaves out. *)
InCourse(s) ==
    CASE s \in Sources -> s \in Scope
      [] s = "exports" -> "playlists" \in Scope
      [] s = "favorites" -> "tracks" \in Scope
      [] OTHER -> TRUE

After(s) ==
    LET at == IF s = "idle" THEN 0 ELSE CHOOSE i \in DOMAIN Course : Course[i] = s
    IN Course[Min({i \in at + 1 .. Len(Course) : InCourse(Course[i])})]

(* The desired tracks as a field of the engine. *)
GoKeepingTracks(s) ==
    /\ stage' = s
    /\ listing' = Unread /\ reading' = Closed /\ seen' = {}
    /\ UNCHANGED setVars
    /\ IF s = "idle" THEN steady' = {} /\ changed' = "no" ELSE UNCHANGED history

(* Nothing is read of the desired tracks once the snapshot is replaced. *)
Go(s) ==
    /\ stage' = s
    /\ listing' = Unread /\ reading' = Closed /\ seen' = {}
    /\ IF s \in {"exports", "favorites", "idle"}
          THEN dst' = Nothing /\ dates' = {} /\ steady' = {} /\ changed' = "no"
          ELSE UNCHANGED <<setVars, history>>

Begin ==
    /\ stage = "idle"
    /\ stage' = After("idle")
    /\ steady' = Wanted /\ changed' = "no"
    /\ UNCHANGED <<remoteVars, diskVars, streamVars, setVars, edits, faults>>

Fault == faults < MaxFaults /\ faults' = faults + 1

(* A request, a statement or a write fails, the cycle is cancelled or the
   process dies: what the cycle gathered is lost. *)
Abort ==
    /\ stage # "idle"
    /\ Fault
    /\ Go("idle")
    /\ UNCHANGED <<remoteVars, diskVars, edits>>

(***************************************************************************)
(* emitFavorites: one request for the page at the offset.  The stream ends *)
(* with an empty page or once the total this page reports is reached.      *)
(***************************************************************************)
Page(list, offset) == SubSeq(list, offset + 1, Min({offset + PageSize, Len(list)}))

StopsShort(list, next, page) == page = <<>> \/ next + 1 >= Len(list)
EndsAt(list, next, page) == page = <<>> \/ next >= Len(list)

Entry(x) ==
    IF x \in Playlists
    THEN [of |-> x, version |-> playlist[x].version, title |-> playlist[x].title]
    ELSE [of |-> x, version |-> 0, title |-> {}]

AtPage == listing.page = <<>> /\ ~listing.last /\ reading = Closed

(* collectFavoriteTracks *)
CollectFavorites ==
    /\ stage = "tracks" /\ AtPage
    /\ LET list == favorites.tracks
           page == Page(list, listing.offset)
           next == listing.offset + Len(page)
       IN /\ dst' = [t \in Tracks |-> IF t \in ToSet(page) THEN "full" ELSE dst[t]]
          /\ dates' = dates \cup ToSet(page)
          /\ listing' = [offset |-> next, page |-> <<>>, last |-> EndsAt(list, next, page)]
    /\ UNCHANGED <<remoteVars, diskVars, stage, reading, seen, history, edits, faults>>

(* FavoriteAlbums, FavoritePlaylists: a page of collections to go through. *)
FetchListing ==
    /\ stage \in {"albums", "playlists", "exports"} /\ AtPage
    /\ LET list == favorites[IF stage = "exports" THEN "playlists" ELSE stage]
           page == Page(list, listing.offset)
           next == listing.offset + Len(page)
       IN listing' = [offset |-> next, page |-> [i \in DOMAIN page |-> Entry(page[i])],
                      last |-> EndsAt(list, next, page)]
    /\ UNCHANGED <<remoteVars, diskVars, stage, reading, seen, setVars, history, edits, faults>>

(***************************************************************************)
(* expandCollection.                                                       *)
(***************************************************************************)
AnySettled(ids) == ids = {} \/ ids \cap Settled # {}
AllSettled(ids) == ids \subseteq Settled

(* The lastUpdated TIDAL reports of playlist p in its version v; 0 is the empty one. *)
LastUpdated(p, v) == IF p \in Unversioned THEN 0 ELSE v

(* valid: albums are immutable; a playlist needs a version that is not empty. *)
ValidUnversioned(e) ==
    /\ cache[e.of].cached
    /\ e.of \in Albums \/ LastUpdated(e.of, e.version) = LastUpdated(e.of, cache[e.of].version)
Valid(e) ==
    /\ cache[e.of].cached
    /\ \/ e.of \in Albums
       \/ /\ LastUpdated(e.of, e.version) # 0
          /\ LastUpdated(e.of, e.version) = LastUpdated(e.of, cache[e.of].version)

AtCollection == listing.page # <<>> /\ reading = Closed
FromCache(e) == stage \in {"albums", "playlists"} /\ Valid(e) /\ AllSettled(cache[e.of].ids)

(* emitStubs never replaces full metadata. *)
ServeCached ==
    /\ AtCollection
    /\ LET e == Head(listing.page) IN
          /\ FromCache(e)
          /\ dst' = [t \in Tracks |-> IF t \in cache[e.of].ids /\ dst[t] = "absent"
                                      THEN "stub" ELSE dst[t]]
          /\ seen' = seen \cup {e.of}
    /\ listing' = [listing EXCEPT !.page = Tail(@)]
    /\ UNCHANGED <<remoteVars, diskVars, stage, reading, dates, history, edits, faults>>

(* c.fetch(), or the export's own PlaylistTracks. *)
OpenCollection ==
    /\ AtCollection
    /\ LET e == Head(listing.page) IN
          /\ ~FromCache(e)
          /\ reading' = [of |-> e.of, version |-> e.version, title |-> e.title,
                         offset |-> 0, got |-> <<>>, done |-> FALSE]
          /\ seen' = IF stage = "exports" THEN seen ELSE seen \cup {e.of}
    /\ listing' = [listing EXCEPT !.page = Tail(@)]
    /\ UNCHANGED <<remoteVars, diskVars, stage, setVars, history, edits, faults>>

(* fetchCollectionTracks: full metadata replaces a stub. *)
FetchItems ==
    /\ reading # Closed /\ ~reading.done
    /\ LET list == Items(reading.of)
           page == Page(list, reading.offset)
           next == reading.offset + Len(page)
       IN /\ reading' = [reading EXCEPT !.offset = next, !.got = @ \o page,
                                        !.done = EndsAt(list, next, page)]
          /\ dst' = [t \in Tracks |-> IF stage # "exports" /\ t \in ToSet(page)
                                      THEN "full" ELSE dst[t]]
    /\ UNCHANGED <<remoteVars, diskVars, stage, listing, seen, dates, history, edits, faults>>

(* The version as it is when the row is written. *)
PutAsOfNow ==
    /\ reading.done /\ stage # "exports"
    /\ IsInjective(reading.got)
    /\ cache' = [cache EXCEPT ![reading.of] =
          [version |-> IF reading.of \in Playlists THEN playlist[reading.of].version ELSE 0,
           ids |-> ToSet(reading.got), cached |-> TRUE]]
    /\ reading' = Closed
    /\ UNCHANGED <<remoteVars, row, files, snapshot, exports, stage, listing, seen, setVars,
                   history, edits, faults>>

(* PutCollection: one transaction; the primary key admits a track once. *)
PutCollection ==
    /\ reading.done /\ stage # "exports"
    /\ IsInjective(reading.got)
    /\ cache' = [cache EXCEPT ![reading.of] =
          [version |-> reading.version, ids |-> ToSet(reading.got), cached |-> TRUE]]
    /\ reading' = Closed
    /\ UNCHANGED <<remoteVars, row, files, snapshot, exports, stage, listing, seen, setVars,
                   history, edits, faults>>

(* "insert collection track": the error ends the enumeration and the cycle. *)
PutCollectionFails ==
    /\ reading.done /\ stage # "exports"
    /\ ~IsInjective(reading.got)
    /\ Go("idle")
    /\ UNCHANGED <<remoteVars, diskVars, edits, faults>>

(* PruneCollections after a listing read to its end. *)
KindOf(s) == IF s = "albums" THEN Albums ELSE Playlists
AtEnd == listing.last /\ listing.page = <<>> /\ reading = Closed

EndListing ==
    /\ stage \in Sources /\ AtEnd
    /\ cache' = IF stage = "tracks" THEN cache
                ELSE [c \in Collections |->
                        IF c \in KindOf(stage) \ seen THEN NotCached ELSE cache[c]]
    /\ Go(After(stage))
    /\ UNCHANGED <<remoteVars, row, files, snapshot, exports, edits, faults>>

(***************************************************************************)
(* downloadAll; Reconcile (mirror) with ReplaceSnapshot.                   *)
(***************************************************************************)
(* A stub has no album: were it not skipped, it could only fail. *)
Download ==
    /\ stage = "download"
    /\ \E failed \in SUBSET (Desired \ Settled), permanent \in BOOLEAN :
          /\ IF failed = {} THEN UNCHANGED faults ELSE Fault
          /\ LET done == {t \in Desired \ Settled : dst[t] = "full"} \ failed IN
                /\ files' = files \cup done
                /\ row' = [t \in Tracks |->
                      CASE t \in done -> "settled"
                        [] t \in failed /\ permanent ->
                              IF row[t] = "none" THEN "refused" ELSE "settled"
                        [] OTHER -> row[t]]
    /\ Go(After("download"))
    /\ UNCHANGED <<remoteVars, cache, snapshot, exports, edits>>

Membership == [t \in Tracks |->
    IF t \notin Desired THEN "absent" ELSE IF t \in dates THEN "dated" ELSE "undated"]

Reconcile ==
    /\ stage = "reconcile"
    /\ files' = {t \in files : t \in Desired \/ snapshot[t] = "absent"}
    /\ snapshot' = Membership
    /\ Go(After("reconcile"))
    /\ UNCHANGED <<remoteVars, cache, row, exports, edits, faults>>

(***************************************************************************)
(* The exports.                                                            *)
(***************************************************************************)
(* writeOne: writeM3U8 stages the file and renames it over the former one. *)
WriteExport ==
    /\ reading.done /\ stage = "exports"
    /\ LET stem == Stem[reading.title] IN
          /\ exports' = [exports EXCEPT ![stem] = [of |-> reading.of, items |-> reading.got]]
          /\ seen' = seen \cup {stem}
    /\ reading' = Closed
    /\ UNCHANGED <<remoteVars, cache, row, files, snapshot, stage, listing, setVars, history,
                   edits, faults>>

PruneNothing ==
    /\ stage = "exports" /\ AtEnd
    /\ Go(After("exports"))
    /\ UNCHANGED <<remoteVars, diskVars, edits, faults>>

(* pruneOrphans: best effort, and the favorites export is never an orphan. *)
PruneOrphans ==
    /\ stage = "exports" /\ AtEnd
    /\ \E stuck \in SUBSET DOMAIN exports :
          /\ IF stuck = {} THEN UNCHANGED faults ELSE Fault
          /\ exports' = [s \in DOMAIN exports |->
                IF s \in seen \cup stuck \cup {FavoriteStem} THEN exports[s] ELSE NoFile]
    /\ Go(After("exports"))
    /\ UNCHANGED <<remoteVars, cache, row, files, snapshot, edits>>

(* WriteFavorites: with no downloaded favorite the former export stays.  Which
   files it lists, and in which order, is SyncCycle's matter. *)
WriteFavorites ==
    /\ stage = "favorites"
    /\ exports' = IF \E t \in Tracks : snapshot[t] = "dated" /\ row[t] \in {"stale", "settled"}
                  THEN [exports EXCEPT ![FavoriteStem] = [of |-> {FavoriteStem}, items |-> <<>>]]
                  ELSE exports
    /\ Go(After("favorites"))
    /\ UNCHANGED <<remoteVars, cache, row, files, snapshot, edits, faults>>

CycleStep ==
    \/ Begin \/ CollectFavorites \/ FetchListing \/ ServeCached \/ OpenCollection
    \/ FetchItems \/ PutCollection \/ PutCollectionFails \/ EndListing
    \/ Download \/ Reconcile \/ WriteExport \/ PruneOrphans \/ WriteFavorites

UserStep ==
    \/ \E k \in Sources : Unfavorite(k)
    \/ \E t \in Tracks : Favorite("tracks", t)
    \/ \E a \in Albums : Favorite("albums", a)
    \/ \E p \in Playlists :
          \/ Favorite("playlists", p)
          \/ \E t \in Tracks : AddToPlaylist(p, t)
          \/ TakeFromPlaylist(p)
          \/ \E n \in Titles : Rename(p, n)
    \/ RaiseTier

Next == CycleStep \/ Abort \/ UserStep

Spec == Init /\ [][Next]_vars

(* The daemon starts a cycle at every tick and a cycle goes on step by step. *)
FairSpec == Spec /\ WF_vars(CycleStep)

(***************************************************************************)
(* Properties.                                                             *)
(***************************************************************************)
(* A cached expansion of the version a collection has now is the collection as
   it is now: however an edit falls between the listing, the pages of the
   items and the store's transaction, a row never vouches for other tracks. *)
CacheIsExact ==
    \A c \in Collections :
       cache[c].cached /\ (c \in Albums \/ cache[c].version = playlist[c].version)
          => cache[c].ids = ToSet(Items(c))

(* Pages are read by offset while the user edits: as long as nothing is taken
   out of the library, every track that was in it when the cycle began is
   desired when the listings are read, so none of their files is removed. *)
NothingLost ==
    stage \in {"download", "reconcile"} /\ changed # "shrunk" => steady \subseteq Desired

(* When the library did not change during the enumeration, the desired tracks
   are exactly those the scope asks for, cache or no cache. *)
DesiredIsLibrary ==
    stage \in {"download", "reconcile"} /\ changed = "no" => Desired = Wanted

(* A track served from the cache has no metadata to be downloaded with: it is
   one that will be skipped, until the downloads are over. *)
StubsAreSettled ==
    stage \in Sources \cup {"download"} => {t \in Tracks : dst[t] = "stub"} \subseteq Settled

(* No cycle removes the file of a track that was in the library ever since the
   cycle began: Reconcile deletes what is "no longer favorited". *)
UnfavoritedOnly == [][\A t \in files \ files' : t \notin steady]_vars

(* Liveness: once the edits and the failures stop, Playlists/ comes to hold one
   export of every favorite playlist, whole and under its present title, and
   nothing else but the favorites export. *)
Mirrors ==
    <>[](\A s \in DOMAIN exports :
            LET titled == {p \in ToSet(favorites.playlists) : Stem[playlist[p].title] = s} IN
            \/ s = FavoriteStem
            \/ titled = {} /\ exports[s] = NoFile
            \/ \E p \in titled : exports[s] = [of |-> p, items |-> playlist[p].items])
=============================================================================
