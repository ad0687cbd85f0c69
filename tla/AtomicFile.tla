------------------------------ MODULE AtomicFile ------------------------------
(***************************************************************************)
(* What Download promises (pkg/tidal/download/download.go): a destination  *)
(* holds the complete stream of some call or nothing new, a call that      *)
(* returns success has made a complete file survive a power loss, and a    *)
(* call that ends without publishing has not touched its destination.  How *)
(* streams are fetched and staged is in Downloader, which implements this. *)
(***************************************************************************)
CONSTANTS
    Calls,      \* calls of Download in one cycle, each for a track of its own
    Paths,      \* destination files
    Dest,       \* the destination of a call
    NoFile      \* what a path without a file holds

VARIABLES
    file,       \* file[f]: the call whose complete stream lies at f, or NoFile
    lasting,    \* lasting[f]: what a power loss may leave at f
    result      \* result[c]: what c returned in this cycle

vars == <<file, lasting, result>>

NoResults == [c \in Calls |-> "none"]

Init ==
    /\ file = [f \in Paths |-> NoFile]
    /\ lasting = [f \in Paths |-> {NoFile}]
    /\ result = NoResults

(* The rename puts the complete stream in place, not yet for good. *)
Publish(c) ==
    /\ result[c] = "none"
    /\ file' = [file EXCEPT ![Dest[c]] = c]
    /\ lasting' = [lasting EXCEPT ![Dest[c]] = @ \cup {c}]
    /\ UNCHANGED result

(* Success is returned for a file that is there and stays there. *)
Succeed(c) ==
    /\ result[c] = "none"
    /\ file[Dest[c]] # NoFile
    /\ lasting' = [lasting EXCEPT ![Dest[c]] = {file[Dest[c]]}]
    /\ result' = [result EXCEPT ![c] = "ok"]
    /\ UNCHANGED file

(* An error changes no file.  It may follow a publication whose directory
   could not be synced. *)
Fail(c) ==
    /\ result[c] = "none"
    /\ result' = [result EXCEPT ![c] = "error"]
    /\ UNCHANGED <<file, lasting>>

(* The cycle ends or its process dies: what was returned is forgotten. *)
Forget == result' = NoResults /\ UNCHANGED <<file, lasting>>

(* Between cycles, the removal of a track's file. *)
Remove(f) ==
    /\ file' = [file EXCEPT ![f] = NoFile]
    /\ lasting' = [lasting EXCEPT ![f] = @ \cup {NoFile}]
    /\ UNCHANGED result

PowerLoss ==
    /\ file' \in [Paths -> Calls \cup {NoFile}]
    /\ \A f \in Paths : file'[f] \in lasting[f]
    /\ lasting' = [f \in Paths |-> {file'[f]}]
    /\ result' = NoResults

Next ==
    \/ \E c \in Calls : Publish(c) \/ Succeed(c) \/ Fail(c)
    \/ \E f \in Paths : Remove(f)
    \/ Forget
    \/ PowerLoss

Spec == Init /\ [][Next]_vars
=============================================================================
