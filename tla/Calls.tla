------------------------------- MODULE Calls -------------------------------
(***************************************************************************)
(* One call of a pure function of the program with any of its inputs, to   *)
(* check what Naming, Settings and Timeline compute: a question is asked,  *)
(* the function answers, and the properties relate the two.                *)
(***************************************************************************)
EXTENDS Naming, Settings, Timeline, FiniteSets

CONSTANTS
    Strings,    \* what Sanitize is asked to clean
    Templates,  \* what path_template is set to
    Metas,      \* the metadata of tracks
    Configs,    \* configurations as written in the file
    Documents   \* DASH manifests

ASSUME CallsAssumption == Configs \subseteq Config

(* Texts are of characters UTF-8 encodes, the extension is a constant, and a disc's number
   is written in digits; a manifest's numbers are numbers. *)
ASSUME TextsAreEncoded ==
    /\ Strings \subseteq Seq(DOMAIN Bytes) /\ Templates \subseteq Seq(DOMAIN Bytes)
    /\ \A m \in Metas : \A name \in Known : m.value[name] \in Seq(DOMAIN Bytes)
ASSUME MetadataIsPlain ==
    \A m \in Metas :
       LET dir == <<"Disc ">> \o m.value["disc"]
       IN /\ m.value["ext"] # <<>>
          /\ dir \in Seq(DOMAIN Bytes \ (Illegal \cup {".", " "}))
          /\ dir \notin Reserved /\ Size(dir) <= MaxBytes
ASSUME ManifestsAreNumbered ==
    \A doc \in Documents : Representations(doc) # <<>> =>
       LET template == Head(Representations(doc))
       IN /\ template.repeats \in Seq(Int)
          /\ template.start = NoStart \/ template.start \in Int

VARIABLES question, answer, answered

vars == <<question, answer, answered>>

Questions ==
         [fn : {"sanitize"}, text : Strings]
    \cup [fn : {"render"}, template : Templates, meta : Metas]
    \cup [fn : {"load"}, config : Configs]
    \cup [fn : {"next"}, now : 0 .. Day * Minute - 1, start : Clocks, end : Clocks]
    \cup [fn : {"segments"}, doc : Documents]

Init == question \in Questions /\ answer = <<>> /\ answered = FALSE

Answer(fn, value) ==
    /\ question.fn = fn /\ ~answered
    /\ answered' = TRUE
    /\ answer' = value
    /\ UNCHANGED question

CallSanitize == Answer("sanitize", Sanitize(question.text))

CallRender ==
    /\ question.fn = "render" /\ Accepted(question.template)
    /\ Answer("render", Render(question.template, question.meta))

CallLoad ==
    /\ question.fn = "load" /\ Valid(Derived(question.config))
    /\ Answer("load", Derived(question.config))

(* validateTimeWindow admits no window whose ends are one minute. *)
CallNextStart ==
    /\ question.fn = "next" /\ question.start # question.end
    /\ Answer("next", NextStart(question.now, question.start, question.end))

CallSegmentURLs ==
    /\ question.fn = "segments" /\ Parses(question.doc) /\ ~Panics(question.doc)
    /\ Answer("segments", SegmentURLs(question.doc))

Next == CallSanitize \/ CallRender \/ CallLoad \/ CallNextStart \/ CallSegmentURLs

Spec == Init /\ [][Next]_vars

Asked(fn) == answered /\ question.fn = fn

(* Whatever the title, artist or album is called, a component is never empty,
   never "." or "..", holds no separator or illegal character, fits the file
   system and ends in no dot or space; and it is no Windows device name, unless
   truncation and the second trim brought one about (sanitize.go). *)
ComponentIsSafe ==
    Asked("sanitize") =>
       /\ answer # <<>>
       /\ ToSet(answer) \cap Illegal = {}
       /\ Size(answer) <= MaxBytes
       /\ answer[Len(answer)] \notin {".", " "}
       /\ StemOf(answer) \in Reserved => Size(question.text) > MaxBytes

(* The tokens Compile found, segment after segment. *)
TokenOf(part) == IF Len(part) = 3 THEN <<part[2]>> ELSE <<>>
TokensIn(segment) == FlattenSeq([i \in DOMAIN segment |-> TokenOf(segment[i])])
Tokens(segments) == FlattenSeq([k \in DOMAIN segments |-> TokensIn(segments[k])])

(* The known names among those the check found. *)
KnownOf(name) == IF Len(name) = 1 /\ name[1] \in Known THEN name ELSE <<>>
KnownAmong(found) == FlattenSeq([i \in DOMAIN found |-> KnownOf(found[i])])

(* In a template the configuration accepts, Compile finds exactly the known
   placeholders the check found, in the same order: validate.go and template.go
   read the same text with different code. *)
TemplatesAgree ==
    Asked("render") =>
       Tokens(Compile(question.template)) = KnownAmong(Parse(question.template).found)

(* On an album of several discs, tracks that differ in nothing but their disc
   never share a path, whether the template names the disc or not. *)
DiscsStayApart ==
    Asked("render") =>
       \A m \in Metas :
          /\ m.discs > 1 /\ m.discs = question.meta.discs
          /\ \A name \in Known \ {"disc"} : m.value[name] = question.meta.value[name]
          /\ m.value["disc"] # question.meta.value["disc"]
          => Render(question.template, m) # answer

(* Settings the program accepts never make the daemon spin: each wait between
   two cycles is at least minInterval and within the range the mode uses, also
   when only the legacy interval is set; workers' jitter is never negative. *)
AcceptedSettingsHold ==
    Asked("load") =>
       /\ \A d \in Waits(answer) : d >= MinInterval
       /\ \A d \in Random(answer.worker) : d >= 0 /\ d <= answer.worker.max
       /\ answer.mode = "time_window" => answer.start # answer.end
       /\ answer.mode = "polling" => answer.polling # Unset

(* The daemon sleeps until the first instant inside the window, at or after now,
   also when the window wraps midnight; and a day holds as many minutes of the
   window as lie between its ends. *)
WakesAtWindow ==
    Asked("next") =>
       LET inside(t) == WindowContains(t, question.start, question.end) IN
       /\ answer >= question.now /\ inside(answer)
       /\ \A t \in question.now .. answer - 1 : ~inside(t)
       /\ Cardinality({m \in Clocks : inside(m * Minute)}) = (question.end - question.start) % Day

(* Of every manifest answered the URLs are the initialization segment and then
   segments numbered without a gap from the document's start, never more of them
   than the timeline's entries stand for; and entry after entry one more than its
   repeats, unless an entry says -2 or less, which totalSegments takes off the
   others. *)
TimelineIsUnrolled ==
    Asked("segments") =>
       LET template == Head(Representations(question.doc))
           unrolled == FlattenSeq([e \in DOMAIN template.repeats |->
                          [k \in 1 .. template.repeats[e] + 1 |-> e]])
           first == IF template.start = NoStart THEN 1 ELSE template.start
       IN /\ answer[1] = "init"
          /\ \A i \in 2 .. Len(answer) : answer[i] = first + i - 2
          /\ Len(answer) <= Len(unrolled) + 1
          /\ (\A r \in ToSet(template.repeats) : r >= -1) => Len(answer) = Len(unrolled) + 1
=============================================================================
