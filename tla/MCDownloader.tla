---------------------------- MODULE MCDownloader ----------------------------
(* Instances of Downloader for TLC. *)
EXTENDS Downloader, TLC

CONSTANTS c1, c2, f1

OneCall == c1 :> f1
(* Two tracks rendered to one path. *)
OneDestination == c1 :> f1 @@ c2 :> f1

(* Two calls with one destination are alike. *)
Alike == Permutations(Calls)
=============================================================================
