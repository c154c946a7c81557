------------------------------ MODULE JsonWalk ------------------------------
(* The walk of a JSON document by the control service (json_walk.rs): one   *)
(* pass over the events of a parser, which is external, with the pointer of *)
(* the current value kept in one buffer that is extended and cut back, and  *)
(* an observer that may decline to be shown what is inside a container.     *)
(* The three inspections are such observers: the finder lists the fields of *)
(* a name, the probe says what a pointer pattern matches, the selector cuts *)
(* the value of a pointer out of the text.  A token of the text is a        *)
(* sequence of characters; scalars are not told apart by their value.       *)
EXTENDS Integers, Sequences, SequencesExt, FiniteSets

CONSTANTS
  Inspections,   \* what is asked: [op, keys, size, ...]; the bounds: the keys of the
                 \* document and how many values it has
  CaseFold,      \* the characters that stand for a letter whatever its case
  MaxDepth,      \* MAX_JSON_DEPTH
  MaxPointer,    \* MAX_JSON_POINTER_BYTES
  MaxListed,     \* MAX_JSON_EXAMPLES, MAX_JSON_HINTS
  WireBudget,    \* RETAINED_RESULT_WIRE_BUDGET
  MaxResult,     \* MAX_JSON_RESULT_BYTES
  MaxSelection   \* MAX_JSON_INPUT_BYTES, of what is selected

VARIABLES
  inspection,  \* the request
  walk,        \* the walker: [at, path, frames, root]
  seen,        \* the observer
  text         \* the document so far: its values and its events

walkVars == <<inspection, walk, seen, text>>

(*---------------------------- pointers ------------------------------------*)

(* A pointer is text, a sequence of characters: every segment of a path is  *)
(* written escaped behind a slash, so that the text is a path and only one. *)
(* In a pattern a segment "*" stands for every segment, and "~2" writes a   *)
(* star.                                                                    *)

EscapedChar(c) ==
  CASE c = "~" -> <<"~", "0">>
    [] c = "/" -> <<"~", "1">>
    [] OTHER -> <<c>>

EscapeSegment(segment) == FlattenSeq([i \in DOMAIN segment |-> EscapedChar(segment[i])])

(* Decoding reads one character after the other; behind a tilde only "0",  *)
(* "1" and, in a pattern, "2" are valid.                                    *)
Unescaped(c) == CASE c = "0" -> <<"~">> [] c = "1" -> <<"/">> [] c = "2" -> <<"*">>

DecodeChar(read, c, pattern) ==
  IF ~read.tilde
  THEN IF c = "~" THEN [read EXCEPT !.tilde = TRUE] ELSE [read EXCEPT !.text = Append(@, c)]
  ELSE IF c \in {"0", "1"} \/ (pattern /\ c = "2")
  THEN [read EXCEPT !.tilde = FALSE, !.text = @ \o Unescaped(c)]
  ELSE [read EXCEPT !.tilde = FALSE, !.valid = FALSE]

Decoding(raw, pattern) ==
  FoldLeft(LAMBDA read, c : DecodeChar(read, c, pattern),
           [valid |-> TRUE, tilde |-> FALSE, text |-> << >>], raw)

(* The decoded segment as an option; a tilde at the end escapes nothing. *)
DecodeSegment(raw, pattern) ==
  LET read == Decoding(raw, pattern) IN
  IF read.valid /\ ~read.tilde THEN <<read.text>> ELSE << >>

(* What is behind each slash of a pointer. *)
RawSegments(pointer) ==
  FoldLeft(LAMBDA segments, c :
             IF c = "/" THEN Append(segments, << >>)
             ELSE [segments EXCEPT ![Len(segments)] = Append(@, c)],
           << >>, pointer)

WellFormed(raw) == raw = << >> \/ raw[1] = "/"

ValidPointerText(raw, pattern) ==
  /\ WellFormed(raw)
  /\ \A segment \in Range(RawSegments(raw)) : DecodeSegment(segment, pattern) # << >>

ParsesAsPointer(raw) == ValidPointerText(raw, FALSE)

ParsesAsPattern(raw) ==
  /\ ValidPointerText(raw, TRUE)
  /\ <<"*", "*">> \notin Range(RawSegments(raw))

(* A segment of a pattern: any, or the text a path writes for it. *)
PatternSegment(segment) ==
  IF segment = <<"*">> THEN [any |-> TRUE, text |-> << >>]
  ELSE [any |-> FALSE, text |-> EscapeSegment(DecodeSegment(segment, TRUE)[1])]

ParsePattern(raw) ==
  [i \in DOMAIN RawSegments(raw) |-> PatternSegment(RawSegments(raw)[i])]

SegmentMatches(pattern, i, actual) ==
  i \in DOMAIN pattern /\ (pattern[i].any \/ pattern[i].text = actual)

(* The pointer of the value that holds the one at `raw`. *)
ParentPointer(raw) ==
  LET slashes == {i \in DOMAIN raw : raw[i] = "/"} IN
  IF slashes = {} THEN << >> ELSE SubSeq(raw, 1, Max(slashes) - 1)

(* `prefix` is the pointer `raw` itself, or of a value that holds it. *)
PointerPrefix(prefix, raw) ==
  /\ IsPrefix(prefix, raw)
  /\ prefix \in {<< >>, raw} \/ raw[Len(prefix) + 1] = "/"

(*----------------------------- values -------------------------------------*)

Containers == {"object", "array"}
Kinds == Containers \union {"scalar"}

(* A view of a value: its pointer, its last segment as an option, its depth. *)
PathView(path, value) ==
  [raw |-> path, depth |-> value.depth,
   segment |-> IF value.from = 0 THEN << >> ELSE <<SubSeq(path, value.from, Len(path))>>]

(* A result is cut as its items come: each takes a share of a wire budget. *)
FitsWire(used, item) == used + 1 + Len(item) <= WireBudget
Charged(used, item) == used + 1 + Len(item)

(*--------------------------------- finder ---------------------------------*)

NewFinder == [next |-> FALSE, containers |-> << >>, matches |-> << >>, total |-> 0, used |-> 0]

Folded(key) == [i \in DOMAIN key |-> CaseFold[key[i]]]
KeyMatches(key, name, mode) ==
  IF mode = "exact" THEN key = name ELSE Folded(key) = Folded(name)

Recorded(o, view, kind, count) ==
  IF Len(o.matches) >= inspection.limit \/ ~FitsWire(o.used, view.raw)
  THEN [o EXCEPT !.total = @ + 1]
  ELSE [o EXCEPT !.total = @ + 1, !.used = Charged(@, view.raw),
                 !.matches = Append(@, [pointer |-> view.raw, kind |-> kind, count |-> count])]

FinderScalar(o, view, kind) ==
  IF o.next THEN Recorded([o EXCEPT !.next = FALSE], view, kind, 0) ELSE o

(* A bug: the elements of an array that is such a field count as well. *)
FinderKeepsOn(o) == [o EXCEPT !.containers = Append(@, o.next)]

FinderStarts(o) == [o EXCEPT !.next = FALSE, !.containers = Append(@, o.next)]

(* A container is recorded when it ends, with what it held. *)
FinderEnds(o, view, kind, count) ==
  IF Last(o.containers) THEN Recorded([o EXCEPT !.containers = Front(@)], view, kind, count)
  ELSE [o EXCEPT !.containers = Front(@)]

FinderKey(o, key) == [o EXCEPT !.next = KeyMatches(key, inspection.name, inspection.mode)]

(*---------------------------------- probe ---------------------------------*)

NoHint(prefix) == [prefix |-> prefix, next |-> << >>, omitted |-> 0]

(* prefixes: how many segments of the pattern the open values match; depths: *)
(* where they are; objects: the open objects, with the summary they fill.    *)
NewProbe ==
  [prefixes |-> << >>, depths |-> << >>, objects |-> << >>, longest |-> 0, used |-> 0,
   count |-> 0, kinds |-> [kind \in Kinds |-> 0], examples |-> << >>, omitted |-> 0,
   summaries |-> << >>, omittedSummaries |-> 0, lengths |-> << >>,
   hint |-> <<NoHint(<< >>)>>]

CurrentPrefix(o) == IF o.prefixes = << >> THEN 0 ELSE Last(o.prefixes)

PrefixOf(parent, view, pattern) ==
  IF view.depth = 0 THEN 0
  ELSE IF /\ parent = view.depth - 1
          /\ view.segment # << >> /\ SegmentMatches(pattern, parent + 1, view.segment[1])
  THEN parent + 1 ELSE parent

ProbeValue(o, view) ==
  [o EXCEPT !.prefixes = Append(@, PrefixOf(CurrentPrefix(o), view, inspection.pattern)),
            !.depths = Append(@, view.depth)]

IsMatch(o, view) ==
  /\ view.depth = Len(inspection.pattern)
  /\ CurrentPrefix(o) = Len(inspection.pattern)

Hint(segment, kind) == [segment |-> DecodeSegment(segment, FALSE)[1], kind |-> kind]

HasPlace(listed, o, segment) == Len(listed) < MaxListed /\ FitsWire(o.used, segment)

(* The children of the object that is being summed up, once it is. *)
WithKey(o, i, hint) ==
  IF HasPlace(o.summaries[i].keys, o, hint.segment)
  THEN [o EXCEPT !.summaries[i].keys = Append(@, hint), !.used = Charged(@, hint.segment)]
  ELSE [o EXCEPT !.summaries[i].omitted = @ + 1]

ChildShape(o, view, kind) ==
  IF o.objects = << >> \/ view.segment = << >> THEN o
  ELSE IF Last(o.objects).depth + 1 # view.depth \/ Last(o.objects).index = 0 THEN o
  ELSE WithKey(o, Last(o.objects).index, Hint(view.segment[1], kind))

(* The longest prefix of the pattern met so far, and what is found instead *)
(* of its next segment.                                                     *)
Longest(o, view) ==
  IF CurrentPrefix(o) <= o.longest THEN o
  ELSE [o EXCEPT !.longest = CurrentPrefix(o), !.hint = <<NoHint(view.raw)>>]

WithNext(o, hint) ==
  IF \E i \in DOMAIN o.hint[1].next : o.hint[1].next[i] = hint THEN o
  ELSE IF HasPlace(o.hint[1].next, o, hint.segment)
  THEN [o EXCEPT !.hint[1].next = Append(@, hint), !.used = Charged(@, hint.segment)]
  ELSE [o EXCEPT !.hint[1].omitted = @ + 1]

MissedNext(o, view, kind) ==
  IF CurrentPrefix(o) # o.longest \/ view.depth # o.longest + 1 \/ view.segment = << >> THEN o
  ELSE WithNext(o, Hint(view.segment[1], kind))

ConsiderMiss(o, view, kind) == MissedNext(Longest(o, view), view, kind)

Counted(o, view, kind) ==
  IF ~IsMatch(o, view) THEN o
  ELSE IF HasPlace(o.examples, o, view.raw)
  THEN [o EXCEPT !.count = @ + 1, !.kinds[kind] = @ + 1, !.used = Charged(@, view.raw),
                 !.examples = Append(@, view.raw)]
  ELSE [o EXCEPT !.count = @ + 1, !.kinds[kind] = @ + 1, !.omitted = @ + 1]

ProbeTerminal(o, view, kind) ==
  Counted(ConsiderMiss(ChildShape(o, view, kind), view, kind), view, kind)

ObjectAt(o, view, index) == [o EXCEPT !.objects = Append(@, [depth |-> view.depth, index |-> index])]

Summarize(o, view) ==
  IF ~IsMatch(o, view) THEN ObjectAt(o, view, 0)
  ELSE IF ~HasPlace(o.summaries, o, view.raw)
  THEN ObjectAt([o EXCEPT !.omittedSummaries = @ + 1], view, 0)
  ELSE ObjectAt([o EXCEPT !.used = Charged(@, view.raw),
                          !.summaries = Append(@, [pointer |-> view.raw, count |-> 0,
                                                   keys |-> << >>, omitted |-> 0])],
                view, Len(o.summaries) + 1)

ProbeStarts(o, view, kind) ==
  IF kind = "object" THEN Summarize(ProbeTerminal(o, view, kind), view) ELSE ProbeTerminal(o, view, kind)

EndSummary(o, i, count) == IF i = 0 THEN o ELSE [o EXCEPT !.summaries[i].count = count]

(* The range of the lengths of the arrays that match, as an option. *)
Widened(range, length) ==
  IF range = << >> THEN <<[minimum |-> length, maximum |-> length]>>
  ELSE <<[minimum |-> Min({range[1].minimum, length}), maximum |-> Max({range[1].maximum, length})]>>

ProbeEnds(o, view, kind, count) ==
  IF kind = "object"
  THEN EndSummary([o EXCEPT !.objects = Front(@)], Last(o.objects).index, count)
  ELSE IF IsMatch(o, view) THEN [o EXCEPT !.lengths = Widened(@, count)] ELSE o

ProbeEnded(o) == [o EXCEPT !.prefixes = Front(@), !.depths = Front(@)]

(* Only a value that may lead to a match, or is summed up, is looked into. *)
ProbeDescends(o) ==
  \/ CurrentPrefix(o) = Last(o.depths) /\ Last(o.depths) < Len(inspection.pattern)
  \/ o.objects # << >> /\ Last(o.objects).depth = Last(o.depths) /\ Last(o.objects).index # 0

(*-------------------------------- selector --------------------------------*)

NewSelector ==
  [output |-> << >>, containers |-> << >>, capturing |-> FALSE, selected |-> FALSE,
   error |-> FALSE, longest |-> << >>, longestDepth |-> 0, next |-> << >>, omitted |-> 0]

(* What is selected is bounded; what comes behind the bound is an error. *)
Output(o, token) ==
  IF o.error THEN o
  ELSE IF Len(o.output) + 1 > MaxSelection THEN [o EXCEPT !.error = TRUE]
  ELSE [o EXCEPT !.output = Append(@, token)]

OutputAll(o, tokens) == FoldLeft(LAMBDA out, token : Output(out, token), o, tokens)

(* A comma goes before every value of an array and key of an object but    *)
(* the first.                                                               *)
Separate(o, kind) ==
  IF ~o.capturing \/ o.containers = << >> THEN o
  ELSE IF Last(o.containers).kind # kind THEN o
  ELSE IF Last(o.containers).first
  THEN [o EXCEPT !.containers[Len(o.containers)].first = FALSE]
  ELSE Output(o, <<",">>)

BeginValue(o, view) ==
  IF ~o.capturing /\ ~o.selected /\ view.raw = inspection.target
  THEN [o EXCEPT !.capturing = TRUE, !.selected = TRUE]
  ELSE Separate(o, "array")

NextHint(o, view, kind) ==
  IF view.depth # o.longestDepth + 1 \/ view.segment = << >> THEN o
  ELSE IF ParentPointer(view.raw) # o.longest THEN o
  ELSE IF Len(o.next) >= MaxListed THEN [o EXCEPT !.omitted = @ + 1]
  ELSE [o EXCEPT !.next = Append(@, Hint(view.segment[1], kind))]

(* The deepest value on the way to the target, and what it holds. *)
NoteValue(o, view, kind) ==
  IF PointerPrefix(view.raw, inspection.target) /\ view.depth >= o.longestDepth
  THEN IF view.depth > o.longestDepth \/ o.longest # view.raw
       THEN [o EXCEPT !.longest = view.raw, !.longestDepth = view.depth,
                      !.next = << >>, !.omitted = 0]
       ELSE o
  ELSE NextHint(o, view, kind)

SelectScalar(o, kind) == IF o.capturing THEN Output(o, <<"scalar", kind>>) ELSE o

SelectOpens(o, kind) ==
  IF ~o.capturing THEN o
  ELSE [Output(o, <<"start", kind>>) EXCEPT
          !.containers = Append(@, [kind |-> kind, first |-> TRUE])]

SelectStarts(o, view, kind) == SelectOpens(NoteValue(o, view, kind), kind)

SelectEnds(o, kind) ==
  IF ~o.capturing \/ o.containers = << >> THEN o
  ELSE IF Last(o.containers).kind # kind THEN o
  ELSE [Output(o, <<"end", kind>>) EXCEPT !.containers = Front(@)]

SelectKey(o, key) ==
  IF ~o.capturing \/ o.containers = << >> THEN o
  ELSE IF Last(o.containers).kind # "object" THEN o
  ELSE OutputAll(Separate(o, "object"), <<<<"key", key>>, <<":">>>>)

FinishValue(o) == IF o.capturing /\ o.containers = << >> THEN [o EXCEPT !.capturing = FALSE] ELSE o

(*-------------------------------- observers -------------------------------*)

NewObserver(op) ==
  CASE op = "find" -> NewFinder [] op = "probe" -> NewProbe [] op = "select" -> NewSelector

OnScalar(op, o, view, kind) ==
  CASE op = "find" -> FinderScalar(o, view, kind)
    [] op = "probe" -> ProbeEnded(ProbeTerminal(ProbeValue(o, view), view, kind))
    [] op = "select" ->
         FinishValue(SelectScalar(NoteValue(BeginValue(o, view), view, kind), kind))

OnStart(op, o, view, kind) ==
  CASE op = "find" -> FinderStarts(o)
    [] op = "probe" -> ProbeStarts(ProbeValue(o, view), view, kind)
    [] op = "select" -> SelectStarts(BeginValue(o, view), view, kind)

OnEnd(op, o, view, kind, count) ==
  CASE op = "find" -> FinderEnds(o, view, kind, count)
    [] op = "probe" -> ProbeEnded(ProbeEnds(o, view, kind, count))
    [] op = "select" -> FinishValue(SelectEnds(o, kind))

OnKey(op, o, key) ==
  CASE op = "find" -> FinderKey(o, key) [] op = "probe" -> o [] op = "select" -> SelectKey(o, key)

Descends(op, o) ==
  CASE op = "find" -> TRUE [] op = "probe" -> ProbeDescends(o) [] op = "select" -> ~o.error

(*------------------------------- the document -----------------------------*)

(* What the parser, which is external, may report next: events of a document *)
(* that is well formed so far.  A value is [raw, up, depth, field, key, kind, *)
(* open, count, first, last]: where it is, the value that holds it, and its  *)
(* first and last event.                                                     *)
NoText == [values |-> << >>, events |-> << >>, key |-> << >>]

Inner == Max({0} \union {i \in DOMAIN text.values : text.values[i].open})
InnerKind == IF Inner = 0 THEN "none" ELSE text.values[Inner].kind

CanKey == InnerKind = "object" /\ text.key = << >> /\ Len(text.values) < inspection.size
CanValue ==
  /\ Len(text.values) < inspection.size
  /\ CASE InnerKind = "none" -> text.values = << >>
       [] InnerKind = "array" -> TRUE
       [] InnerKind = "object" -> text.key # << >>
CanEnd == Inner # 0 /\ text.key = << >>
CanEof == text.values # << >> /\ Inner = 0

Digits == <<"0", "1", "2", "3", "4", "5", "6", "7", "8", "9">>
IndexText(i) == <<Digits[i + 1]>>

Extended(path, segment) == path \o <<"/">> \o EscapeSegment(segment)

NewValue(up, kind, event) ==
  [up |-> up, kind |-> kind, open |-> kind \in Containers, count |-> 0,
   depth |-> IF up = 0 THEN 0 ELSE text.values[up].depth + 1,
   field |-> text.key # << >>, key |-> IF text.key = << >> THEN << >> ELSE text.key[1],
   raw |-> IF up = 0 THEN << >>
           ELSE Extended(text.values[up].raw,
                         IF text.key # << >> THEN text.key[1]
                         ELSE IndexText(text.values[up].count)),
   first |-> event, last |-> IF kind \in Containers THEN 0 ELSE event]

Grown(values, up) == IF up = 0 THEN values ELSE [values EXCEPT ![up].count = @ + 1]

TextWith(kind, token) ==
  [values |-> Append(Grown(text.values, Inner), NewValue(Inner, kind, Len(text.events) + 1)),
   events |-> Append(text.events, token), key |-> << >>]

TextEnded ==
  [text EXCEPT !.values[Inner].open = FALSE, !.values[Inner].last = Len(text.events) + 1,
               !.events = Append(@, <<"end", InnerKind>>)]

TextKey(key) == [text EXCEPT !.key = <<key>>, !.events = Append(@, <<"key", key>>)]

(*-------------------------------- the walker ------------------------------*)

(* A frame is [kind, count, pending, value, observed, descend]; the path    *)
(* state of a value is [restore, from, depth]: the length its parent's path *)
(* had, and where its last segment starts, 0 for none.                      *)
PathState(path, depth) == [restore |-> Len(path), from |-> Len(path) + 2, depth |-> depth]
RootState == [restore |-> 0, from |-> 0, depth |-> 0]

(* A key extends the path before its value comes; an index does with it.   *)
ValueState(w) ==
  IF w.frames = << >> THEN RootState
  ELSE IF Last(w.frames).kind = "object" THEN Last(w.frames).pending[1]
  ELSE PathState(w.path, Last(w.frames).value.depth + 1)

ValuePath(w) ==
  IF w.frames = << >> THEN w.path
  ELSE IF Last(w.frames).kind = "object" THEN w.path
  ELSE Extended(w.path, IndexText(Last(w.frames).count))

ValueFrames(w) ==
  IF w.frames = << >> THEN w.frames
  ELSE IF Last(w.frames).kind = "object" THEN [w.frames EXCEPT ![Len(w.frames)].pending = << >>]
  ELSE [w.frames EXCEPT ![Len(w.frames)].count = @ + 1]

Observes(w) == w.frames = << >> \/ Last(w.frames).descend

Restored(path, value) == SubSeq(path, 1, value.restore)

(* Any error drops what was found. *)
FailWalk ==
  /\ walk' = [walk EXCEPT !.at = "failed", !.path = << >>, !.frames = << >>]
  /\ seen' = NewObserver(inspection.op)
  /\ text' = NoText

Proceeds(w, o) == walk' = w /\ seen' = o

NoWalk == [at |-> "idle", path |-> << >>, frames |-> << >>, root |-> FALSE]

WalkInit ==
  /\ inspection = << >>
  /\ walk = NoWalk
  /\ seen = << >>
  /\ text = NoText

(* A body of which not all was decoded is not looked into, and nothing is   *)
(* selected from one of which not all was captured.                         *)
Sources == [limited : BOOLEAN, truncated : BOOLEAN]
Rejects(op, source) == source.limited \/ (op = "select" /\ source.truncated)

(* The decoded body is there: its text is walked. *)
Inspect ==
  /\ walk.at = "idle"
  /\ inspection' \in Inspections
  /\ \E source \in Sources :
       walk' = [walk EXCEPT !.at = IF Rejects(inspection'.op, source) THEN "failed" ELSE "walking"]
  /\ seen' = NewObserver(inspection'.op)
  /\ UNCHANGED text

ReadKey ==
  /\ walk.at = "walking" /\ CanKey
  /\ \E key \in inspection.keys :
       IF Len(Extended(walk.path, key)) > MaxPointer THEN FailWalk
       ELSE /\ text' = TextKey(key)
            /\ Proceeds([walk EXCEPT
                 !.path = Extended(@, key),
                 !.frames[Len(walk.frames)].count = @ + 1,
                 !.frames[Len(walk.frames)].pending =
                   <<PathState(walk.path, Last(walk.frames).value.depth + 1)>>],
                 IF Last(walk.frames).descend THEN OnKey(inspection.op, seen, key) ELSE seen)
  /\ UNCHANGED inspection

ReadScalar ==
  /\ walk.at = "walking" /\ CanValue
  /\ IF Len(ValuePath(walk)) > MaxPointer THEN FailWalk
     ELSE /\ text' = TextWith("scalar", <<"scalar", "scalar">>)
          /\ Proceeds([walk EXCEPT !.root = TRUE, !.frames = ValueFrames(walk),
                         !.path = Restored(ValuePath(walk), ValueState(walk))],
                      IF Observes(walk)
                      THEN OnScalar(inspection.op, seen, PathView(ValuePath(walk), ValueState(walk)),
                                    "scalar")
                      ELSE seen)
  /\ UNCHANGED inspection

Frame(kind, value, observed, descend) ==
  [kind |-> kind, count |-> 0, pending |-> << >>, value |-> value,
   observed |-> observed, descend |-> descend]

(* Whether to look inside is asked once the container has been shown. *)
Opens(kind, value, observed, o) ==
  Proceeds([walk EXCEPT !.root = TRUE, !.path = ValuePath(walk),
              !.frames = Append(ValueFrames(walk),
                                Frame(kind, value, observed,
                                      observed /\ Descends(inspection.op, o)))], o)

ReadStart ==
  /\ walk.at = "walking" /\ CanValue
  /\ \E kind \in Containers :
       IF Len(ValuePath(walk)) > MaxPointer \/ Len(walk.frames) + 1 > MaxDepth THEN FailWalk
       ELSE /\ text' = TextWith(kind, <<"start", kind>>)
            /\ Opens(kind, ValueState(walk), Observes(walk),
                     IF Observes(walk)
                     THEN OnStart(inspection.op, seen, PathView(ValuePath(walk), ValueState(walk)), kind)
                     ELSE seen)
  /\ UNCHANGED inspection

Closes(frame) ==
  Proceeds([walk EXCEPT !.frames = Front(@), !.path = Restored(@, frame.value)],
           IF frame.observed
           THEN OnEnd(inspection.op, seen, PathView(walk.path, frame.value), frame.kind, frame.count)
           ELSE seen)

ReadEnd ==
  /\ walk.at = "walking" /\ CanEnd
  /\ text' = TextEnded
  /\ Closes(Last(walk.frames))
  /\ UNCHANGED inspection

(* The hint of the probe is about a pattern that matches nothing. *)
Concluded(o) ==
  IF inspection.op = "probe" /\ o.count # 0 THEN [o EXCEPT !.hint = << >>] ELSE o

ReadEof ==
  /\ walk.at = "walking" /\ CanEof
  /\ Proceeds([walk EXCEPT !.at = "measuring"], Concluded(seen))
  /\ UNCHANGED <<inspection, text>>

(* The text is malformed, or the call is cancelled. *)
Interrupt ==
  /\ walk.at = "walking"
  /\ FailWalk
  /\ UNCHANGED inspection

(*------------------------------- the result -------------------------------*)

SizeOfText(item) == 1 + Len(item)
SizeOfItems(items, Text(_)) == FoldLeft(LAMBDA sum, item : sum + SizeOfText(Text(item)), 0, items)
SizeOfHints(hints) == SizeOfItems(hints, LAMBDA hint : hint.segment)
SizeOfMatches(matches) == SizeOfItems(matches, LAMBDA match : match.pointer)
SizeOfSummaries(summaries) ==
  FoldLeft(LAMBDA sum, s : sum + SizeOfText(s.pointer) + SizeOfHints(s.keys), 0, summaries)

ResultSize(op, o) ==
  CASE op = "find" -> SizeOfMatches(o.matches)
    [] op = "probe" ->
         SizeOfItems(o.examples, LAMBDA pointer : pointer) + SizeOfSummaries(o.summaries)
           + IF o.hint = << >> THEN 0 ELSE SizeOfText(o.hint[1].prefix) + SizeOfHints(o.hint[1].next)
    [] op = "select" -> 0

(* What is given up first of a result that is too long. *)
CutSummary(o, i) ==
  IF o.summaries[i].keys # << >>
  THEN [o EXCEPT !.summaries[i].keys = Front(@), !.summaries[i].omitted = @ + 1]
  ELSE [o EXCEPT !.summaries = Front(@), !.omittedSummaries = @ + 1]

CutHint(o) ==
  IF o.hint[1].next # << >>
  THEN [o EXCEPT !.hint[1].next = Front(@), !.hint[1].omitted = @ + 1]
  ELSE [o EXCEPT !.hint = << >>]

Cut(op, o) ==
  IF op = "find" THEN [o EXCEPT !.matches = Front(@)]
  ELSE IF o.examples # << >> THEN [o EXCEPT !.examples = Front(@), !.omitted = @ + 1]
  ELSE IF o.summaries # << >> THEN CutSummary(o, Len(o.summaries))
  ELSE CutHint(o)

Measure ==
  /\ walk.at = "measuring"
  /\ IF ResultSize(inspection.op, seen) > MaxResult
     THEN Proceeds(walk, Cut(inspection.op, seen))
     ELSE Proceeds([walk EXCEPT !.at = "done"], seen)
  /\ UNCHANGED <<inspection, text>>

WalkNext ==
  \/ Inspect
  \/ ReadKey \/ ReadScalar \/ ReadStart \/ ReadEnd \/ ReadEof \/ Interrupt \/ Measure

WalkSpec == WalkInit /\ [][WalkNext]_walkVars
=============================================================================
