------------------------------ MODULE Timeline ------------------------------
(***************************************************************************)
(* The URLs a DASH manifest stands for (pkg/tidal/manifest/dash.go): the   *)
(* first representation of the document, its segment timeline summed, the  *)
(* media template numbered.  Pure operators.                               *)
(*                                                                         *)
(* A document is a sequence of periods, a period a sequence of adaptation  *)
(* sets, a set a sequence of representations; a representation is its      *)
(* segment template.  A URL is "init" or its segment's number.             *)
(***************************************************************************)
EXTENDS Integers, SequencesExt

(* The template's start number when the document gives none. *)
CONSTANT NoStart
DefaultStart == 1

(* firstRepresentation: sets and periods without one are passed over. *)
Representations(doc) == FlattenSeq(FlattenSeq(doc))

(* totalSegments: each <S> contributes one segment plus its repeat count. *)
RepeatsOnly(repeats) == FoldLeft(LAMBDA total, r : total + r, 0, repeats)
TotalSegments(repeats) == FoldLeft(LAMBDA total, r : total + 1 + r, 0, repeats)

(* toDASH *)
Parses(doc) ==
    /\ Representations(doc) # <<>>
    /\ LET template == Head(Representations(doc)) IN
          template.complete /\ TotalSegments(template.repeats) # 0

(* SegmentURLs' make() panics on a negative capacity; ranging over a negative
   count yields nothing. *)
Panics(doc) == 1 + TotalSegments(Head(Representations(doc)).repeats) < 0

SegmentURLs(doc) ==
    LET template == Head(Representations(doc))
        start == IF template.start = NoStart THEN DefaultStart ELSE template.start
        count == TotalSegments(template.repeats)
    IN <<"init">> \o [i \in 1 .. (IF count < 0 THEN 0 ELSE count) |-> start + i - 1]
=============================================================================
