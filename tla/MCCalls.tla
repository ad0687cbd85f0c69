------------------------------ MODULE MCCalls ------------------------------
(* Instances of Calls for TLC. *)
EXTENDS Calls, TLC

KnownNames == {"title", "ext", "disc"}
IllegalChars == {"/", ":"}
Device == { <<"C">> }

(* "C" is the device name, "w" a character of two bytes. *)
Chars == {"a", "C", "w", "/", ".", " "}
ByteSizes == [ch \in {"a", "C", "w", "/", ":", ".", " ", "_", "{", "}", "x", "1", "2", "flac",
                      "Disc "} \cup KnownNames |-> IF ch = "w" THEN 2 ELSE 1]
ShortStrings == UNION {[1 .. n -> Chars] : n \in 0 .. 5}

(* Up to four pieces of a template, with both required placeholders. *)
Pieces == {<<"{", "title", "}">>, <<"{", "ext", "}">>, <<"{", "disc", "}">>, <<"{", "x", "}">>,
           <<"{">>, <<"}">>, <<"/">>, <<"x">>, <<"title", "}">>}
SomeTemplates == {FlattenSeq(pieces) : pieces \in UNION {[1 .. n -> Pieces] : n \in 2 .. 4}}

Values == {<<>>, <<"a">>, <<".", ".">>}
SomeMetas ==
    {[value |-> ("title" :> t @@ "ext" :> <<"flac">> @@ "disc" :> d), discs |-> n] :
       t \in Values, d \in {<<"1">>, <<"2">>}, n \in {1, 2}}

Ranges == [min : {-1, 0, 1, 3}, max : {0, 1, 3}]
SomeConfigs ==
    [mode : {"", "polling", "time_window", "other"}, interval : {0, 1, 2},
     polling : Ranges, start : {0, 4, Malformed}, end : {4},
     delay : Ranges, worker : {Unset, [min |-> 1, max |-> 2]}, concurrency : {0, 3},
     floor : {1, 2}, request : {0, 1}]

Representation(start, repeats, complete) ==
    [start |-> start, repeats |-> repeats, complete |-> complete]
SomeRepresentations ==
    {Representation(s, r, c) : s \in {NoStart, 0, 7}, c \in BOOLEAN,
       r \in UNION {[1 .. n -> -2 .. 2] : n \in 0 .. 3}}
SomeDocuments ==
    {<<>>, << <<>> >>} \cup {<< << <<>>, <<r>> >> >> : r \in SomeRepresentations}
=============================================================================
