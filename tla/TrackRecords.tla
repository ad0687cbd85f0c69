---------------------------- MODULE TrackRecords ----------------------------
(***************************************************************************)
(* The rows of the tracks and favorites_snapshot tables and the decisions  *)
(* the engine takes from them: what MarkTrack and MarkFailed leave in a    *)
(* row, when processTrack skips a track, what DiffSnapshot reports and     *)
(* which files the favorites export lists.  Pure operators, no state.      *)
(*                                                                         *)
(* A quality tier is its rank (tidal.Quality.Rank); ISRC, album id,        *)
(* obtained quality, genre and timestamps decide nothing and are left out. *)
(***************************************************************************)
EXTENDS Integers

CONSTANTS
    Tracks,     \* TIDAL track ids
    Paths,      \* files below paths.music a track can be rendered to
    NoPath,     \* the empty path column
    MaxTier     \* the highest rank

ASSUME NoPathIsNoFile == NoPath \notin Paths
ASSUME MaxTierIsNat == MaxTier \in Nat

Ranks == 0 .. MaxTier

(* A row of the tracks table; status "none" stands for the missing row that
   GetTrack reports as ErrNotFound. *)
Row == [status    : {"none", "done", "failed"},
        path      : Paths \cup {NoPath},
        tier      : Ranks,
        permanent : BOOLEAN]

NoRow == [status |-> "none", path |-> NoPath, tier |-> 0, permanent |-> FALSE]

(* markDone + MarkTrack: the whole row is replaced, permanent is reset. *)
DoneRowOfAnyTier(path, tier) ==
    [status |-> "done", path |-> path, tier |-> tier + 1, permanent |-> FALSE]
DoneRow(path, tier) ==
    [status |-> "done", path |-> path, tier |-> tier, permanent |-> FALSE]

(* markFailed + MarkFailed: the path of an earlier download is preserved, a
   first record has the empty one. *)
PathlessFailedRow(row, tier, permanent) ==
    [row EXCEPT !.status = "failed", !.path = NoPath, !.tier = tier, !.permanent = permanent]
FailedRow(row, tier, permanent) ==
    [row EXCEPT !.status = "failed", !.tier = tier, !.permanent = permanent]

(* skipPermanentFailure. *)
SkipAnyFailure(row, tier, retryFailed) == ~retryFailed /\ row.tier >= tier
SkipPermanentFailure(row, tier, retryFailed) ==
    ~retryFailed /\ row.permanent /\ row.tier >= tier

(* shouldSkip: the requested tier is compared, never the obtained one. *)
ShouldSkip(row, tier, retryFailed) ==
    \/ row.status = "failed" /\ SkipPermanentFailure(row, tier, retryFailed)
    \/ row.status = "done" /\ row.tier >= tier

(* A favorites snapshot: what a track's row in it carries.  "dated" came from
   the favorite-tracks listing, "undated" only through an album or playlist, or
   was retained because its removal is pending. *)
Membership == {"absent", "dated", "undated"}
Listed(snap) == {t \in Tracks : snap[t] # "absent"}

(* DiffSnapshot's second result: stored before, not enumerated now. *)
Removed(stored, current) == Listed(stored) \ Listed(current)

(* OrderedFavoriteFiles: the snapshot joined with the rows that have a path. *)
OrderedFavoriteFiles(snap, rows) ==
    {t \in Tracks : snap[t] = "dated" /\ rows[t].path # NoPath}
=============================================================================
