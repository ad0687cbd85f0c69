------------------------------- MODULE Naming -------------------------------
(***************************************************************************)
(* From a path template and a track's metadata to a relative path: the     *)
(* template check at configuration load, Compile, Render and Sanitize      *)
(* (internal/config/validate.go, internal/namer).  Pure operators.         *)
(*                                                                         *)
(* A string is a sequence of symbols.  In a template a placeholder's name  *)
(* is one symbol; in a value a symbol stands for a class of characters     *)
(* Sanitize treats alike.  A path is the sequence of its components.       *)
(***************************************************************************)
EXTENDS Naturals, SequencesExt

CONSTANTS
    Known,      \* the names Compile knows, among them "title", "ext" and "disc"
    Illegal,    \* characters illegal in a component, the separator among them
    Bytes,      \* Bytes[ch]: the bytes of a character in UTF-8
    MaxBytes,   \* maxComponentBytes, 255
    Reserved    \* the stems of Windows device names

ASSUME NamingAssumption ==
    /\ {"title", "ext", "disc"} \subseteq Known
    /\ {"{", "}", "/"} \cap Known = {}
    /\ "/" \in Illegal /\ "_" \notin Illegal
    /\ MaxBytes \in Nat \ {0}

(* UTF-8: every character has a byte, the underscore no more. *)
ASSUME CharactersAreEncoded ==
    /\ \A ch \in DOMAIN Bytes : Bytes[ch] \in Nat \ {0}
    /\ "_" \in DOMAIN Bytes /\ Bytes["_"] = 1

First(s, ch) == IF ch \in ToSet(s) THEN SelectInSeq(s, LAMBDA x : x = ch) ELSE Len(s) + 1

(***************************************************************************)
(* Sanitize.                                                               *)
(***************************************************************************)
(* sanitizeRune; NFC changes no character the rest of Sanitize looks at. *)
SanitizeRunes(s) == [i \in DOMAIN s |-> IF s[i] \in Illegal THEN "_" ELSE s[i]]

TrimRight(s) ==
    LET kept == {i \in DOMAIN s : s[i] \notin {".", " "}}
    IN SubSeq(s, 1, IF kept = {} THEN 0 ELSE Max(kept))

StemOf(s) == SubSeq(s, 1, First(s, ".") - 1)
SuffixIfReserved(s) ==
    LET stem == StemOf(s) IN
    IF stem \in Reserved THEN stem \o <<"_">> \o SubSeq(s, Len(stem) + 1, Len(s)) ELSE s

Size(s) == FoldLeft(LAMBDA n, ch : n + Bytes[ch], 0, s)

(* reservedNames: each is far shorter than a component may be, and is all letters
   and digits. *)
ASSUME DevicesAreShort ==
    \A stem \in Reserved :
       /\ stem \in Seq(DOMAIN Bytes) /\ stem # <<>> /\ Size(stem) < MaxBytes
       /\ "." \notin ToSet(stem) /\ stem[Len(stem)] # "_"

(* truncateToBytes: the longest whole-character prefix that fits. *)
Truncate(s) == SubSeq(s, 1, Max({n \in 0 .. Len(s) : Size(SubSeq(s, 1, n)) <= MaxBytes}))

SanitizeOnce(s) ==
    LET cleaned == Truncate(SuffixIfReserved(TrimRight(SanitizeRunes(s))))
    IN IF cleaned = <<>> THEN <<"_">> ELSE cleaned
Sanitize(s) ==
    LET cleaned == TrimRight(Truncate(SuffixIfReserved(TrimRight(SanitizeRunes(s)))))
    IN IF cleaned = <<>> THEN <<"_">> ELSE cleaned

(***************************************************************************)
(* parseTemplate, one symbol at a time.                                    *)
(***************************************************************************)
Outside == [open |-> FALSE, name |-> <<>>, found |-> <<>>, ok |-> TRUE]

ParseSymbol(p, ch) ==
    IF ~p.ok THEN p ELSE
    CASE ch = "{" -> [p EXCEPT !.ok = ~p.open, !.open = TRUE, !.name = <<>>]
      [] ch = "}" -> [p EXCEPT !.ok = p.open /\ p.name # <<>>, !.open = FALSE,
                               !.found = Append(@, p.name)]
      [] OTHER -> IF p.open THEN [p EXCEPT !.name = Append(@, ch)] ELSE p

Parse(template) == FoldLeft(ParseSymbol, Outside, template)

(* validatePathTemplate *)
AcceptedLeniently(template) == \A required \in {"title", "ext"} : required \in ToSet(template)
Accepted(template) ==
    LET p == Parse(template) IN
    /\ p.ok /\ ~p.open
    /\ {<<"title">>, <<"ext">>} \subseteq ToSet(p.found)

(***************************************************************************)
(* Compile and Render.  A part of a segment is <<ch>>, a literal, or       *)
(* <<"{", name, "}">>, a token.                                            *)
(***************************************************************************)
(* tokenIDAt: the brace at i and the next closing one enclose a known name. *)
OpensToken(s, i) == s[i] = "{" /\ i + 2 <= Len(s) /\ s[i + 1] \in Known /\ s[i + 2] = "}"

(* compileSegment, left to right; `skip` is what is left of a token's width. *)
Put(c, part) == [c EXCEPT !.segments[Len(c.segments)] = Append(@, part)]
CompileSymbol(template, c, i) ==
    IF c.skip > 0 THEN [c EXCEPT !.skip = @ - 1] ELSE
    CASE template[i] = "/" -> [c EXCEPT !.segments = Append(@, <<>>)]
      [] OpensToken(template, i) -> [Put(c, SubSeq(template, i, i + 2)) EXCEPT !.skip = 2]
      [] OTHER -> Put(c, <<template[i]>>)

(* Compile splits at every separator, known tokens or not. *)
Compile(template) ==
    FoldLeftDomain(LAMBDA c, i : CompileSymbol(template, c, i),
                   [segments |-> << <<>> >>, skip |-> 0], template).segments

(* expand *)
ValueOf(part, m) == IF Len(part) = 1 THEN part ELSE m.value[part[2]]
Expand(segment, m) == FoldLeft(LAMBDA text, part : text \o ValueOf(part, m), <<>>, segment)

(* insertDiscDir, before the file's name. *)
InsertNoDir(components, disc) == components
InsertDiscDir(components, disc) ==
    InsertAt(components, Len(components), Sanitize(<<"Disc ">> \o disc))

(* Render; the empty path stands for ErrEmptyTemplate. *)
Kept(components, text) ==
    IF text = <<>> THEN components ELSE Append(components, Sanitize(text))
Render(template, m) ==
    LET components == FoldLeft(LAMBDA kept, segment : Kept(kept, Expand(segment, m)),
                               <<>>, Compile(template))
    IN IF components # <<>> /\ m.discs > 1 THEN InsertDiscDir(components, m.value["disc"])
                                           ELSE components
=============================================================================
